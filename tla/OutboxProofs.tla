----------------------------- MODULE OutboxProofs -----------------------------
(***************************************************************************)
(* What OneEffectProofs leaves of the outbox: an operation and its job     *)
(* agree, replies and events follow the outcome, an unknown write is       *)
(* resolved only by a read, and the outbox implements OutboxContract.      *)
(*                                                                         *)
(* Every step moves the tables in one way, TableStep, and every theorem    *)
(* follows from that.  OutboxInv adds to CallInv what makes it so: an      *)
(* awaited invocation has a key (RowsMatch, KeysKnown), and a read that is *)
(* about to resolve a write has succeeded (OriginalsKnown, ReadsKnown).    *)
(***************************************************************************)
EXTENDS OneEffectProofs

-----------------------------------------------------------------------------
(* The inductive invariant.                                                 *)

Matches(op, row) ==
    /\ op.state = JobPhase(row) /\ op.inv = row.inv /\ op.key = row.key
    /\ row.state = "AWAITING_AUTHORITY" => row.inv # NoKey

RowsMatch == \A o \in OpId : Matches(ops[o], jobs[ActionJob(o)])

KeysKnown ==
    \A w \in Worker : wk[w].pc \in {"prepared", "enqueued", "polled"} => wk[w].inv # NoKey

\* A read that was asked for to reconcile a write names a close or reopen.
Original(q) ==
    ops[q].reconciles # NoOp =>
        /\ ops[q].kind = "query" /\ ops[q].reconciles \in OpId
        /\ ops[ops[q].reconciles].state # "NONE"
        /\ ops[ops[q].reconciles].kind \in {"close", "reopen"}
OriginalsKnown == \A q \in OpId : Original(q)

ReadsKnown ==
    \A c \in Caller : cb[c].pc = "reconciling" =>
        ops[cb[c].op].state = "SUCCEEDED" /\ ops[cb[c].op].reconciles # NoOp

OutboxInv ==
    /\ CallInv
    /\ RowsMatch /\ ReplyFollowsOutcome /\ EventShowsReply
    /\ KeysKnown /\ OriginalsKnown /\ ReadsKnown

-----------------------------------------------------------------------------
(* How a step moves the tables.                                             *)

Status(j) == ContractStatus(jobs[j].state)

\* The moves of the contract in which the provider does not act.
JobStep(j) ==
    \/ Status(j)' = Status(j)
    \/ Status(j) = "none" /\ Status(j)' = "open"
    \/ Status(j) = "open" /\ Status(j)' \in {"flying", "failed", "unknown"}
    \/ Status(j) = "unknown" /\ Status(j)' = "succeeded"
    \/ Status(j) = "flying" /\ IsQuery(j) /\ Status(j)' \in {"open", "succeeded", "failed", "unknown", "accepted"}
    \/ /\ Status(j) = "flying"
       /\ \/ Status(j)' = "unknown"
          \/ Status(j)' \in {"accepted", "succeeded"} /\ effects[j] = 1
          \/ Status(j)' = "failed" /\ effects[j] = 0

\* A finished read for o.
ResolvingRead(q, o) ==
    ops[q].reconciles = o /\ ops[q].kind = "query" /\ ops[q].state = "SUCCEEDED"

KeepsIntent(o) == ops'[o].kind = ops[o].kind /\ ops'[o].reconciles = ops[o].reconciles

OpStep(o) ==
    \/ ops'[o] = ops[o]
    \/ /\ ops[o].state = "NONE" /\ ops'[o].state = "QUEUED"
       /\ \/ ops'[o].reconciles = NoOp
          \/ /\ ops'[o].kind = "query" /\ ops'[o].reconciles \in OpId
             /\ ops[ops'[o].reconciles].state = "UNKNOWN"
             /\ ops[ops'[o].reconciles].kind \in {"close", "reopen"}
    \/ /\ ops[o].state \notin Terminal \cup {"NONE"} /\ ops'[o].state # "NONE"
       /\ KeepsIntent(o)
    \/ /\ ops[o].state = "UNKNOWN" /\ ops'[o].state = "SUCCEEDED"
       /\ KeepsIntent(o)
       /\ \E q \in OpId : ResolvingRead(q, o)

TableStep ==
    /\ RowsMatch' /\ ReplyFollowsOutcome' /\ EventShowsReply'
    /\ \A o \in OpId : OpStep(o)
    /\ \A j \in Job : JobStep(j)

-----------------------------------------------------------------------------
(* Rows.                                                                    *)

\* Every event has one message that answers it.
LEMMA AnswerIdentity ==
    /\ \A e \in Event \cup Link : AnswerOf(e) \in MessageJobs
    /\ \A e \in Event : AnswerOf(e) = ReplyJob(e) /\ ReplyJob(e) \in ReplyJobs
    /\ \A e, f \in Event : ReplyJob(e) = ReplyJob(f) => e = f
    /\ \A e, f \in Event \cup Link : AnswerOf(e) = AnswerOf(f) => e = f
    /\ \A j \in Job : AnsweredEvents(j) = {e \in Event \cup Link : AnswerOf(e) = j}
    /\ \A e \in Link : ChallengeJob(e) \notin ReplyJobs
    /\ \A n \in Notice : NotifyJob(n) \notin ReplyJobs
    /\ \A n \in Notice, e \in Event \cup Link : AnswerOf(e) # NotifyJob(n)
    /\ \A j \in ReplyJobs : \E e \in Event : j = ReplyJob(e)
  BY JobIdentity, StoreAssumption
  DEF AnswerOf, AnsweredEvents, ReplyJob, ChallengeJob, NotifyJob, ReplyJobs, MessageJobs

\* The rows a transaction writes.
LEMMA RowFields ==
    /\ \A row \in JobRow : \A st :
          /\ Released(row, st).state = st
          /\ Released(row, st).inv = row.inv /\ Released(row, st).key = row.key
          /\ Requeued(Released(row, st), st).state = st
          /\ Requeued(Released(row, st), st).inv = NoKey
          /\ Requeued(Released(row, st), st).key = NoKey
    /\ \A op \in OpRow : \A st :
          /\ Requeued(op, st).state = st
          /\ Requeued(op, st).inv = NoKey /\ Requeued(op, st).key = NoKey
          /\ Requeued(op, st).kind = op.kind /\ Requeued(op, st).reconciles = op.reconciles
          /\ [op EXCEPT !.state = st].state = st
          /\ [op EXCEPT !.state = st].inv = op.inv /\ [op EXCEPT !.state = st].key = op.key
          /\ [op EXCEPT !.state = st].kind = op.kind
          /\ [op EXCEPT !.state = st].reconciles = op.reconciles
    /\ NewJob.state = "READY" /\ NewJob.inv = NoKey /\ NewJob.key = NoKey
  BY DEF JobRow, OpRow, Released, Requeued, NewJob, AbsentJob

\* What the state of a job says of its operation.
LEMMA Phases ==
    ASSUME StoreTypeOK, RowsMatch, NEW o \in OpId, NEW row, row = jobs[ActionJob(o)]
    PROVE  /\ row \in JobRow /\ ops[o] \in OpRow
           /\ ops[o].inv = row.inv /\ ops[o].key = row.key
           /\ row.state = "READY" => ops[o].state = "QUEUED" /\ row.inv = NoKey
           /\ row.state = "CLAIMED" =>
                 ops[o].state = IF row.inv = NoKey THEN "QUEUED" ELSE "AWAITING_AUTHORITY"
           /\ row.state = "AWAITING_AUTHORITY" => ops[o].state = "AWAITING_AUTHORITY" /\ row.inv # NoKey
           /\ row.state = "SENDING" => ops[o].state = "RUNNING"
           /\ row.state \in Terminal \cup {"NONE"} => ops[o].state = row.state
           /\ row.state \in Terminal \cup {"NONE"} <=> ops[o].state \in Terminal \cup {"NONE"}
  <1>1. row \in JobRow /\ ops[o] \in OpRow
    BY JobIdentity DEF StoreTypeOK
  <1>2. Matches(ops[o], row)
    BY DEF RowsMatch
  <1>3. row.state = "READY" => row.inv = NoKey
    BY <1>1, <1>2 DEF Matches, JobPhase, OpRow, OperationState
  <1> QED
    BY <1>1, <1>2, <1>3 DEF Matches, JobPhase, Terminal, JobRow, JobState

\* A transaction about one action: its operation and job become op and row,
\* and it gets a reply if that ends it.
LEMMA ActionMoves ==
    ASSUME OutboxInv, NEW o \in OpId, NEW op \in OpRow, NEW row \in JobRow,
           ops' = [ops EXCEPT ![o] = op], UNCHANGED events,
           jobs'[ActionJob(o)] = row,
           \A k \in Job \ {ActionJob(o)} :
              \/ jobs'[k] = jobs[k]
              \/ /\ o \in Event /\ k = ReplyJob(o) /\ op.state \in Terminal
                 /\ jobs[k].state = "NONE" /\ jobs'[k].state = "READY",
           o \in Event /\ op.state \in Terminal => jobs'[ReplyJob(o)].state # "NONE",
           Matches(op, row), op.kind = ops[o].kind, op.reconciles = ops[o].reconciles,
           ops[o].state \notin Terminal \cup {"NONE"}, op.state # "NONE",
           JobStep(ActionJob(o))
    PROVE  TableStep
  <1>0. StoreTypeOK
    BY TypeSplit DEF OutboxInv, CallInv
  <1>1. ops'[o] = op /\ \A p \in OpId \ {o} : ops'[p] = ops[p]
    BY <1>0 DEF StoreTypeOK
  <1>2. \A p \in OpId \ {o} : jobs'[ActionJob(p)] = jobs[ActionJob(p)]
    BY JobIdentity
  <1>3. RowsMatch'
    BY <1>1, <1>2 DEF OutboxInv, RowsMatch
  <1>4. ReplyFollowsOutcome'
    <2> SUFFICES ASSUME NEW e \in Event
                 PROVE  jobs'[ReplyJob(e)].state # "NONE" <=> ops'[e].state \in Terminal
      BY DEF ReplyFollowsOutcome
    <2>1. e \in OpId /\ ReplyJob(e) \in Job \ {ActionJob(o)}
      BY JobIdentity
    <2>2. jobs[ReplyJob(e)].state # "NONE" <=> ops[e].state \in Terminal
      BY DEF OutboxInv, ReplyFollowsOutcome
    <2>3. CASE e = o
      BY <1>1, <2>1, <2>2, <2>3
    <2>4. CASE e # o
      <3>1. jobs'[ReplyJob(e)] = jobs[ReplyJob(e)]
        BY <2>1, <2>4, AnswerIdentity
      <3> QED
        BY <1>1, <2>1, <2>2, <2>4, <3>1
    <2> QED
      BY <2>3, <2>4
  <1>5. EventShowsReply'
    <2>1. \A e \in Event \cup Link : AnswerOf(e) \in Job \ {ActionJob(o)}
      BY AnswerIdentity, JobIdentity
    <2> QED
      BY <2>1 DEF OutboxInv, EventShowsReply
  <1>6. \A p \in OpId : OpStep(p)
    BY <1>1 DEF OpStep, KeepsIntent
  <1>7. ASSUME NEW k \in Job PROVE JobStep(k)
    <2>1. CASE k = ActionJob(o)
      BY <2>1
    <2>2. CASE jobs'[k] = jobs[k]
      BY <2>2 DEF JobStep, Status
    <2>3. CASE jobs[k].state = "NONE" /\ jobs'[k].state = "READY"
      <3>1. Status(k) = "none" /\ Status(k)' = "open"
        BY <2>3 DEF Status, ContractStatus
      <3> QED
        BY <3>1 DEF JobStep
    <2> QED
      BY <2>1, <2>2, <2>3
  <1> QED
    BY <1>3, <1>4, <1>5, <1>6, <1>7 DEF TableStep

\* A transaction about one message.
LEMMA MessageMoves ==
    ASSUME OutboxInv, NEW j \in MessageJobs, UNCHANGED ops,
           \A k \in Job \ {j} : jobs'[k] = jobs[k],
           j \in ReplyJobs => jobs[j].state # "NONE",
           jobs'[j].state # "NONE", JobStep(j), EventShowsReply'
    PROVE  TableStep
  <1>1. \A p \in OpId : jobs'[ActionJob(p)] = jobs[ActionJob(p)]
    BY JobIdentity
  <1>2. RowsMatch'
    BY <1>1 DEF OutboxInv, RowsMatch
  <1>3. ReplyFollowsOutcome'
    <2>1. \A e \in Event : ReplyJob(e) \in Job /\ ReplyJob(e) \in ReplyJobs
      BY JobIdentity, AnswerIdentity
    <2>2. \A e \in Event : jobs'[ReplyJob(e)].state # "NONE" <=> jobs[ReplyJob(e)].state # "NONE"
      BY <2>1
    <2> QED
      BY <2>2 DEF OutboxInv, ReplyFollowsOutcome
  <1>4. \A p \in OpId : OpStep(p)
    BY DEF OpStep
  <1>5. \A k \in Job : JobStep(k)
    BY DEF JobStep, Status
  <1> QED
    BY <1>2, <1>3, <1>4, <1>5 DEF TableStep

\* The tables stay, but for leases and the state of an event that has no
\* answer yet.
LEMMA TablesStay ==
    ASSUME OutboxInv, UNCHANGED ops, EventShowsReply',
           \A k \in Job : /\ jobs'[k].state = jobs[k].state /\ jobs'[k].inv = jobs[k].inv
                          /\ jobs'[k].key = jobs[k].key
    PROVE  TableStep
  <1>1. \A o \in OpId : Matches(ops[o], jobs[ActionJob(o)]) => Matches(ops[o], jobs'[ActionJob(o)])
    BY JobIdentity DEF Matches, JobPhase
  <1>2. RowsMatch'
    BY <1>1 DEF OutboxInv, RowsMatch
  <1>3. ReplyFollowsOutcome'
    BY JobIdentity DEF OutboxInv, ReplyFollowsOutcome
  <1>4. \A p \in OpId : OpStep(p)
    BY DEF OpStep
  <1>5. \A k \in Job : JobStep(k)
    BY DEF JobStep, Status
  <1> QED
    BY <1>2, <1>3, <1>4, <1>5 DEF TableStep

-----------------------------------------------------------------------------
(* Admission.                                                               *)

LEMMA Tables == OutboxInv => StoreTypeOK
  BY TypeSplit DEF OutboxInv, CallInv

\* An event with an answer is out of reach of a delivery.
LEMMA DeliveryShows ==
    ASSUME OutboxInv, NEW e \in Event \cup Link, NEW st,
           events[e] \notin {"REPLY_ACCEPTED", "REJECTED"},
           events' = [events EXCEPT ![e] = st],
           \A f \in Event \cup Link :
              jobs'[AnswerOf(f)].state \in {"ACCEPTED", "FAILED"} =>
                 jobs'[AnswerOf(f)].state = jobs[AnswerOf(f)].state
    PROVE  EventShowsReply'
  <1> SUFFICES ASSUME NEW f \in Event \cup Link
               PROVE  /\ jobs'[AnswerOf(f)].state = "ACCEPTED" => events'[f] = "REPLY_ACCEPTED"
                      /\ jobs'[AnswerOf(f)].state = "FAILED" => events'[f] = "REJECTED"
    BY DEF EventShowsReply
  <1>1. /\ jobs[AnswerOf(f)].state = "ACCEPTED" => events[f] = "REPLY_ACCEPTED"
        /\ jobs[AnswerOf(f)].state = "FAILED" => events[f] = "REJECTED"
    BY DEF OutboxInv, EventShowsReply
  <1>2. f # e => events'[f] = events[f]
    BY Tables DEF StoreTypeOK
  <1> QED
    BY <1>1, <1>2

LEMMA DeliveryMoves ==
    ASSUME OutboxInv, NEW e \in Event \cup Link, NEW st,
           events[e] \notin {"REPLY_ACCEPTED", "REJECTED"},
           events' = [events EXCEPT ![e] = st], UNCHANGED <<ops, jobs>>
    PROVE  TableStep
  <1>1. EventShowsReply'
    BY DeliveryShows
  <1> QED
    BY <1>1, TablesStay

LEMMA PersistMoves ==
    ASSUME OutboxInv, NEW o \in OpId, NEW kind, NEW r,
           PersistIssueAction(o, kind, r), UNCHANGED events,
           \/ r = NoOp
           \/ /\ kind = "query" /\ r \in OpId
              /\ ops[r].state = "UNKNOWN" /\ ops[r].kind \in {"close", "reopen"}
    PROVE  TableStep
  <1>0. StoreTypeOK
    BY Tables
  <1>1. /\ ops[o].state = "NONE" /\ ops'[o].state = "QUEUED"
        /\ ops'[o].kind = kind /\ ops'[o].reconciles = r
        /\ ops'[o].inv = NoKey /\ ops'[o].key = NoKey
        /\ \A p \in OpId \ {o} : ops'[p] = ops[p]
    BY <1>0 DEF PersistIssueAction, StoreTypeOK, AbsentOp
  <1>2. /\ jobs'[ActionJob(o)] = NewJob
        /\ \A k \in Job \ {ActionJob(o)} : jobs'[k] = jobs[k]
    BY <1>0, JobIdentity DEF PersistIssueAction, StoreTypeOK
  <1>3. jobs[ActionJob(o)].state = "NONE"
    BY <1>0, <1>1, JobIdentity DEF OutboxInv, CallInv, EffectsKnown
  <1>4. RowsMatch'
    <2>1. Matches(ops'[o], jobs'[ActionJob(o)])
      BY <1>1, <1>2, RowFields DEF Matches, JobPhase
    <2>2. \A p \in OpId \ {o} : ops'[p] = ops[p] /\ jobs'[ActionJob(p)] = jobs[ActionJob(p)]
      BY <1>1, <1>2, JobIdentity
    <2> QED
      BY <2>1, <2>2 DEF OutboxInv, RowsMatch
  <1>5. ReplyFollowsOutcome'
    <2>1. \A e \in Event : e \in OpId /\ jobs'[ReplyJob(e)] = jobs[ReplyJob(e)]
      BY <1>2, JobIdentity
    <2>2. ops[o].state \notin Terminal /\ ops'[o].state \notin Terminal
      BY <1>1 DEF Terminal
    <2> QED
      BY <1>1, <2>1, <2>2 DEF OutboxInv, ReplyFollowsOutcome
  <1>6. EventShowsReply'
    <2>1. \A e \in Event \cup Link : jobs'[AnswerOf(e)] = jobs[AnswerOf(e)]
      BY <1>2, JobIdentity, AnswerIdentity
    <2> QED
      BY <2>1 DEF OutboxInv, EventShowsReply
  <1>7. \A p \in OpId : OpStep(p)
    BY <1>1 DEF OpStep
  <1>8. \A k \in Job : JobStep(k)
    <2>1. Status(ActionJob(o)) = "none" /\ Status(ActionJob(o))' = "open"
      BY <1>2, <1>3, RowFields DEF Status, ContractStatus
    <2> QED
      BY <1>2, <2>1 DEF JobStep, Status
  <1> QED
    BY <1>4, <1>5, <1>6, <1>7, <1>8 DEF TableStep

\* A new message that is no reply.
LEMMA NewMessageMoves ==
    ASSUME OutboxInv, NEW j \in MessageJobs \ ReplyJobs, jobs[j].state = "NONE",
           jobs' = [jobs EXCEPT ![j] = NewJob], UNCHANGED ops, EventShowsReply'
    PROVE  TableStep
  <1>1. /\ jobs'[j] = NewJob
        /\ \A k \in Job \ {j} : jobs'[k] = jobs[k]
    BY Tables, JobIdentity DEF StoreTypeOK
  <1>2. JobStep(j)
    <2>1. Status(j) = "none" /\ Status(j)' = "open"
      BY <1>1, RowFields DEF Status, ContractStatus
    <2> QED
      BY <2>1 DEF JobStep
  <1> QED
    BY <1>1, <1>2, RowFields, MessageMoves

LEMMA AdmitMoves ==
    ASSUME OutboxInv,
           \/ \E o \in RestKey : AdmitRest(o)
           \/ \E e \in Event : AdmitCommand(e)
           \/ \E e \in Link : AdmitLink(e)
           \/ \E n \in Notice : AdmitNotice(n)
           \/ \E j \in Job : LeaseTimeout(j)
    PROVE  TableStep
  <1>0. StoreTypeOK
    BY Tables
  <1>1. ASSUME NEW o \in RestKey, AdmitRest(o) PROVE TableStep
    <2>1. o \in OpId
      BY DEF OpId
    <2>2. ASSUME NEW kind \in Kinds, EnqueueIssueAction(o, kind) PROVE TableStep
      BY <2>1, <2>2, PersistMoves DEF EnqueueIssueAction
    <2>3. ASSUME NEW p \in OpId, EnqueueReconciliationQuery(o, p) PROVE TableStep
      BY <2>1, <2>3, PersistMoves DEF EnqueueReconciliationQuery
    <2> QED
      BY <1>1, <2>2, <2>3 DEF AdmitRest
  <1>2. ASSUME NEW e \in Event, AdmitCommand(e) PROVE TableStep
    <2>1. ASSUME PersistWeComInbound(e) PROVE TableStep
      BY <2>1, DeliveryMoves DEF PersistWeComInbound
    <2>2. ASSUME NEW kind \in Kinds, EnqueueIssueCommandForActor(e, kind) PROVE TableStep
      BY <2>2, PersistMoves DEF EnqueueIssueCommandForActor, OpId
    <2>3. ASSUME NEW st, MarkInbound(e, st) PROVE TableStep
      BY <2>3, DeliveryMoves DEF MarkInbound
    <2> QED
      BY <1>2, <2>1, <2>2, <2>3 DEF AdmitCommand
  <1>3. ASSUME NEW e \in Link, AdmitLink(e) PROVE TableStep
    <2>1. CASE EnqueueChallengeReply(e)
      <3>1. /\ jobs[ChallengeJob(e)].state = "NONE" /\ UNCHANGED ops
            /\ jobs' = [jobs EXCEPT ![ChallengeJob(e)] = NewJob]
            /\ events[e] \notin {"REPLY_ACCEPTED", "REJECTED"}
            /\ events' = [events EXCEPT ![e] = "CHALLENGE_REPLY_PENDING"]
        BY <2>1 DEF EnqueueChallengeReply
      <3>2. \A k \in Job : jobs'[k] = jobs[k] \/ jobs'[k].state = "READY"
        BY <1>0, <3>1, RowFields DEF StoreTypeOK
      <3>3. \A f \in Event \cup Link : AnswerOf(f) \in Job
        BY AnswerIdentity, JobIdentity
      <3>4. EventShowsReply'
        BY <3>1, <3>2, <3>3, DeliveryShows
      <3> QED
        BY <3>1, <3>4, NewMessageMoves, AnswerIdentity, JobIdentity
    <2>2. CASE BeginChallengeObservation(e)
      BY <2>2, DeliveryMoves DEF BeginChallengeObservation
    <2>3. CASE PersistWeComInbound(e) \/ MarkChallengeUnknown(e)
      BY <2>3, DeliveryMoves DEF PersistWeComInbound, MarkChallengeUnknown
    <2> QED
      BY <1>3, <2>1, <2>2, <2>3 DEF AdmitLink
  <1>4. ASSUME NEW n \in Notice, AdmitNotice(n) PROVE TableStep
    <2>1. /\ jobs[NotifyJob(n)].state = "NONE" /\ UNCHANGED <<ops, events>>
          /\ jobs' = [jobs EXCEPT ![NotifyJob(n)] = NewJob]
      BY <1>4 DEF AdmitNotice, IngestGitHubEvent
    <2>2. \A e \in Event \cup Link : jobs'[AnswerOf(e)] = jobs[AnswerOf(e)]
      BY <1>0, <2>1, AnswerIdentity, JobIdentity DEF StoreTypeOK
    <2>3. EventShowsReply'
      BY <2>1, <2>2 DEF OutboxInv, EventShowsReply
    <2> QED
      BY <2>1, <2>3, NewMessageMoves, AnswerIdentity, JobIdentity
  <1>5. ASSUME NEW j \in Job, LeaseTimeout(j) PROVE TableStep
    <2>1. /\ UNCHANGED <<ops, events>>
          /\ \A k \in Job : /\ jobs'[k].state = jobs[k].state
                            /\ jobs'[k].inv = jobs[k].inv /\ jobs'[k].key = jobs[k].key
      BY <1>0, <1>5 DEF LeaseTimeout, LeaseExpires, StoreTypeOK, JobRow
    <2>2. EventShowsReply'
      BY <2>1, AnswerIdentity, JobIdentity DEF OutboxInv, EventShowsReply
    <2> QED
      BY <2>1, <2>2, TablesStay
  <1> QED
    BY <1>1, <1>2, <1>3, <1>4, <1>5

-----------------------------------------------------------------------------
(* Workers and callbacks.                                                   *)

LEMMA JobSteps ==
    ASSUME NEW j \in Job
    PROVE  /\ jobs'[j].state = jobs[j].state => JobStep(j)
           /\ jobs[j].state \in {"READY", "CLAIMED", "AWAITING_AUTHORITY"}
                 /\ jobs'[j].state \in {"READY", "CLAIMED", "AWAITING_AUTHORITY",
                                        "SENDING", "FAILED", "UNKNOWN"} => JobStep(j)
           /\ jobs[j].state = "SENDING" /\ jobs'[j].state = "UNKNOWN" => JobStep(j)
           /\ jobs[j].state = "SENDING" /\ IsQuery(j)
                 /\ jobs'[j].state \in {"READY"} \cup Terminal => JobStep(j)
           /\ jobs[j].state = "SENDING" /\ jobs'[j].state = "FAILED"
                 /\ effects[j] = 0 => JobStep(j)
           /\ jobs[j].state = "SENDING" /\ jobs'[j].state \in {"ACCEPTED", "SUCCEEDED"}
                 /\ effects[j] = 1 => JobStep(j)
           /\ jobs[j].state = "UNKNOWN" /\ jobs'[j].state = "SUCCEEDED" => JobStep(j)
  BY DEF JobStep, Status, ContractStatus, Terminal

\* A transaction that ends an action and replies.
LEMMA EndMoves ==
    ASSUME OutboxInv, NEW o \in OpId, NEW st \in Terminal,
           NEW js, js = [jobs EXCEPT ![ActionJob(o)] = Released(@, st)],
           jobs[ActionJob(o)].state \in {"CLAIMED", "SENDING"},
           ReplyKeyFree(js, o),
           \/ jobs' = EnqueueReply(js, o)
           \/ jobs' = EnqueueReply(EnqueueReply(js, o), o),
           ops' = SetOpState(o, st), UNCHANGED events,
           JobStep(ActionJob(o))
    PROVE  TableStep
  <1> DEFINE op == [ops[o] EXCEPT !.state = st]
             row == Released(jobs[ActionJob(o)], st)
  <1>0. StoreTypeOK /\ ActionJob(o) \in Job
    BY Tables, JobIdentity
  <1>1. /\ ops[o] \in OpRow /\ jobs[ActionJob(o)] \in JobRow
        /\ st \in OperationState /\ st \in JobState
    BY <1>0 DEF StoreTypeOK, Terminal, OperationState, JobState
  <1>2. op \in OpRow /\ row \in JobRow
    BY <1>1, RowTypes
  <1>3. /\ js[ActionJob(o)] = row
        /\ \A k \in Job \ {ActionJob(o)} : js[k] = jobs[k]
    BY <1>0 DEF StoreTypeOK
  <1>4. /\ \A k \in Job : k # ReplyJob(o) \/ o \notin Event => jobs'[k] = js[k]
        /\ o \in Event => jobs'[ReplyJob(o)] = NewJob
    BY JobIdentity DEF EnqueueReply
  <1>5. o \in Event => /\ ReplyJob(o) \in Job /\ ReplyJob(o) # ActionJob(o)
                       /\ jobs[ReplyJob(o)].state = "NONE"
    BY <1>3, JobIdentity DEF ReplyKeyFree
  <1>6. /\ jobs'[ActionJob(o)] = row
        /\ \A k \in Job \ {ActionJob(o)} :
              \/ jobs'[k] = jobs[k]
              \/ /\ o \in Event /\ k = ReplyJob(o)
                 /\ jobs[k].state = "NONE" /\ jobs'[k].state = "READY"
        /\ o \in Event => jobs'[ReplyJob(o)].state = "READY"
    BY <1>0, <1>3, <1>4, <1>5, RowFields
  <1>7. /\ op.state = st /\ op.inv = ops[o].inv /\ op.key = ops[o].key
        /\ op.kind = ops[o].kind /\ op.reconciles = ops[o].reconciles
        /\ row.state = st /\ row.inv = jobs[ActionJob(o)].inv
        /\ row.key = jobs[ActionJob(o)].key
    BY <1>1, RowFields
  <1>8. Matches(op, row)
    <2>1. ops[o].inv = jobs[ActionJob(o)].inv /\ ops[o].key = jobs[ActionJob(o)].key
      BY DEF OutboxInv, RowsMatch, Matches
    <2>2. JobPhase(row) = st
      BY <1>7 DEF JobPhase, Terminal
    <2> QED
      BY <1>7, <2>1, <2>2 DEF Matches, Terminal
  <1>9. ops[o].state \notin Terminal \cup {"NONE"}
    BY <1>0, Phases DEF OutboxInv, Terminal
  <1>10. ops' = [ops EXCEPT ![o] = op]
    BY <1>0 DEF SetOpState, StoreTypeOK
  <1>11. op.state \in Terminal /\ op.state # "NONE"
    BY <1>7 DEF Terminal
  <1> HIDE DEF op, row
  <1> QED
    BY <1>2, <1>6, <1>7, <1>8, <1>9, <1>10, <1>11, ActionMoves

\* A transaction that moves an action before its end.
LEMMA RowMoves ==
    ASSUME OutboxInv, NEW o \in OpId, NEW op \in OpRow, NEW row \in JobRow,
           ops' = [ops EXCEPT ![o] = op],
           jobs' = [jobs EXCEPT ![ActionJob(o)] = row], UNCHANGED events,
           Matches(op, row), op.kind = ops[o].kind, op.reconciles = ops[o].reconciles,
           jobs[ActionJob(o)].state \notin Terminal \cup {"NONE"},
           op.state \notin Terminal \cup {"NONE"}, JobStep(ActionJob(o))
    PROVE  TableStep
  <1>0. StoreTypeOK /\ ActionJob(o) \in Job
    BY Tables, JobIdentity
  <1>1. /\ jobs'[ActionJob(o)] = row
        /\ \A k \in Job \ {ActionJob(o)} : jobs'[k] = jobs[k]
    BY <1>0 DEF StoreTypeOK
  <1>2. ops[o].state \notin Terminal \cup {"NONE"}
    BY <1>0, Phases DEF OutboxInv
  <1> QED
    BY <1>1, <1>2, ActionMoves

LEMMA ClaimMoves ==
    ASSUME OutboxInv, NEW j \in Job, ClaimJob(j)
    PROVE  TableStep
  <1>0. StoreTypeOK /\ jobs[j] \in JobRow
    BY Tables DEF StoreTypeOK
  <1> DEFINE row == [jobs[j] EXCEPT !.state = "CLAIMED", !.lease = "live", !.fence = @ + 1]
  <1>1. /\ jobs' = [jobs EXCEPT ![j] = row] /\ UNCHANGED <<ops, events>>
        /\ jobs[j].state \in {"READY", "AWAITING_AUTHORITY"}
    BY <1>0 DEF ClaimJob, Claimable, StoreTypeOK
  <1>2. row \in JobRow /\ row.state = "CLAIMED" /\ row.inv = jobs[j].inv /\ row.key = jobs[j].key
    <2>1. jobs[j].fence + 1 \in 0..MaxFence
      BY <1>0, StoreAssumption DEF ClaimJob, JobRow
    <2> QED
      BY <1>0, <2>1 DEF JobRow, JobState
  <1> HIDE DEF row
  <1>3. jobs'[j] = row /\ \A k \in Job \ {j} : jobs'[k] = jobs[k]
    BY <1>0, <1>1 DEF StoreTypeOK
  <1>4. JobStep(j)
    BY <1>1, <1>2, <1>3, JobSteps
  <1>5. ASSUME NEW o \in OpId, j = ActionJob(o) PROVE TableStep
    <2>1. ops[o] \in OpRow /\ ops' = [ops EXCEPT ![o] = ops[o]]
      BY <1>0, <1>1 DEF StoreTypeOK
    <2>2. /\ jobs[j].state = "READY" => ops[o].state = "QUEUED" /\ jobs[j].inv = NoKey
          /\ jobs[j].state = "AWAITING_AUTHORITY" =>
                ops[o].state = "AWAITING_AUTHORITY" /\ jobs[j].inv # NoKey
          /\ ops[o].inv = jobs[j].inv /\ ops[o].key = jobs[j].key
      BY <1>0, <1>5, Phases DEF OutboxInv
    <2>3. Matches(ops[o], row)
      BY <1>1, <1>2, <2>2 DEF Matches, JobPhase
    <2> QED
      BY <1>1, <1>2, <1>4, <1>5, <2>1, <2>2, <2>3, RowMoves DEF Terminal
  <1>6. ASSUME j \in MessageJobs PROVE TableStep
    <2>1. \A e \in Event \cup Link : /\ AnswerOf(e) \in Job
                                     /\ jobs'[AnswerOf(e)] = jobs[AnswerOf(e)] \/ AnswerOf(e) = j
      BY <1>3, AnswerIdentity, JobIdentity
    <2>2. EventShowsReply'
      BY <1>1, <1>2, <1>3, <2>1 DEF OutboxInv, EventShowsReply
    <2> QED
      BY <1>1, <1>2, <1>3, <1>4, <1>6, <2>2, MessageMoves
  <1> QED
    BY <1>5, <1>6, JobIdentity

LEMMA SendingMoves ==
    ASSUME OutboxInv, NEW j \in MessageJobs, NEW f, MarkSending(j, f)
    PROVE  TableStep
  <1>0. StoreTypeOK /\ j \in Job /\ jobs[j] \in JobRow
    BY Tables, JobIdentity DEF StoreTypeOK
  <1>1. UNCHANGED <<ops, events>>
    <2>1. \A o \in OpId : j # ActionJob(o)
      BY JobIdentity
    <2> QED
      BY <1>0, <2>1 DEF MarkSending, StoreTypeOK
  <1>2. /\ jobs[j].state = "CLAIMED" /\ jobs'[j].state = "SENDING"
        /\ \A k \in Job \ {j} : jobs'[k] = jobs[k]
    BY <1>0 DEF MarkSending, Holds, StoreTypeOK, JobRow
  <1>3. JobStep(j)
    BY <1>0, <1>2, JobSteps
  <1>4. EventShowsReply'
    <2>1. \A e \in Event \cup Link : /\ AnswerOf(e) \in Job
                                     /\ jobs'[AnswerOf(e)] = jobs[AnswerOf(e)] \/ AnswerOf(e) = j
      BY <1>2, AnswerIdentity, JobIdentity
    <2> QED
      BY <1>1, <1>2, <2>1 DEF OutboxInv, EventShowsReply
  <1> QED
    BY <1>1, <1>2, <1>3, <1>4, MessageMoves

\* The end of a message and of the event it answers.
LEMMA MessageEndMoves ==
    ASSUME OutboxInv, NEW j \in MessageJobs, NEW st \in {"ACCEPTED", "FAILED", "UNKNOWN"},
           jobs[j].state \in {"CLAIMED", "SENDING"},
           jobs' = [jobs EXCEPT ![j] = Released(@, st)], UNCHANGED ops,
           NEW est, events' = SetEvents(AnsweredEvents(j), est),
           st = "ACCEPTED" => est = "REPLY_ACCEPTED",
           st = "FAILED" => est = "REJECTED",
           JobStep(j)
    PROVE  TableStep
  <1>0. StoreTypeOK /\ j \in Job /\ jobs[j] \in JobRow
    BY Tables, JobIdentity DEF StoreTypeOK
  <1>1. /\ jobs'[j].state = st
        /\ \A k \in Job \ {j} : jobs'[k] = jobs[k]
    BY <1>0, RowFields DEF StoreTypeOK
  <1>2. EventShowsReply'
    <2> SUFFICES ASSUME NEW e \in Event \cup Link
                 PROVE  /\ jobs'[AnswerOf(e)].state = "ACCEPTED" => events'[e] = "REPLY_ACCEPTED"
                        /\ jobs'[AnswerOf(e)].state = "FAILED" => events'[e] = "REJECTED"
      BY DEF EventShowsReply
    <2>1. AnswerOf(e) \in Job /\ (e \in AnsweredEvents(j) <=> AnswerOf(e) = j)
      BY <1>0, AnswerIdentity, JobIdentity
    <2>2. CASE AnswerOf(e) = j
      BY <1>1, <2>1, <2>2 DEF SetEvents
    <2>3. CASE AnswerOf(e) # j
      <3>1. jobs'[AnswerOf(e)] = jobs[AnswerOf(e)] /\ events'[e] = events[e]
        BY <1>1, <2>1, <2>3 DEF SetEvents
      <3> QED
        BY <3>1 DEF OutboxInv, EventShowsReply
    <2> QED
      BY <2>2, <2>3
  <1> QED
    BY <1>1, <1>2, MessageMoves

LEMMA FinishMessageMoves ==
    ASSUME OutboxInv, NEW w \in Worker, WorkerFinish(w)
    PROVE  TableStep
  <1> DEFINE j == wk[w].job
             st == wk[w].out
  <1>1. /\ wk[w].pc = "sent" /\ FinishMessage(j, wk[w].fence, st)
    BY DEF WorkerFinish
  <1>2. j \in MessageJobs /\ st \in {"ACCEPTED", "FAILED", "UNKNOWN"} /\ j \in Job
    BY <1>1, JobIdentity DEF OutboxInv, CallInv, OneCallPerJob, AnswersKnown
  <1>3. /\ jobs[j].state = "SENDING" /\ UNCHANGED ops
        /\ jobs' = [jobs EXCEPT ![j] = Released(@, st)]
        /\ events' = SetEvents(AnsweredEvents(j), EventOutcome(st))
    BY <1>1 DEF FinishMessage, Holds
  <1>4. /\ st = "FAILED" => effects[j] = 0
        /\ st = "ACCEPTED" => effects[j] = 1
    BY <1>1 DEF OutboxInv, CallInv, EffectsKnown
  <1>5. jobs'[j].state = st
    <2>1. jobs[j] \in JobRow /\ jobs'[j] = Released(jobs[j], st)
      BY <1>2, <1>3, Tables DEF StoreTypeOK
    <2> QED
      BY <2>1, RowFields
  <1>6. /\ st = "ACCEPTED" => EventOutcome(st) = "REPLY_ACCEPTED"
        /\ st = "FAILED" => EventOutcome(st) = "REJECTED"
    BY DEF EventOutcome
  <1> HIDE DEF j, st
  <1>7. JobStep(j)
    BY <1>2, <1>3, <1>4, <1>5, JobSteps
  <1> QED
    BY <1>2, <1>3, <1>6, <1>7, MessageEndMoves

LEMMA FailClaimedMoves ==
    ASSUME OutboxInv, NEW f,
           \/ \E j \in MessageJobs : FailClaimedMessage(j, f)
           \/ \E o \in OpId : FailClaimedAction(o, f)
    PROVE  TableStep
  <1>0. StoreTypeOK
    BY Tables
  <1>1. ASSUME NEW j \in MessageJobs, FailClaimedMessage(j, f) PROVE TableStep
    <2>1. /\ jobs[j].state = "CLAIMED" /\ UNCHANGED ops /\ j \in Job
          /\ jobs' = [jobs EXCEPT ![j] = Released(@, "FAILED")]
          /\ events' = SetEvents(AnsweredEvents(j), "REJECTED")
      BY <1>1, JobIdentity DEF FailClaimedMessage, Holds
    <2>2. jobs'[j].state = "FAILED"
      BY <1>0, <2>1, RowFields DEF StoreTypeOK
    <2>3. JobStep(j)
      BY <2>1, <2>2, JobSteps
    <2> QED
      BY <2>1, <2>3, MessageEndMoves
  <1>2. ASSUME NEW o \in OpId, FailClaimedAction(o, f) PROVE TableStep
    <2>1. PICK js : js = [jobs EXCEPT ![ActionJob(o)] = Released(@, "FAILED")]
      OBVIOUS
    <2>2. /\ jobs[ActionJob(o)].state = "CLAIMED" /\ UNCHANGED events
          /\ ReplyKeyFree(js, o) /\ ops' = SetOpState(o, "FAILED")
          /\ jobs' = EnqueueReply(EnqueueReply(js, o), o)
      BY <1>2, <2>1 DEF FailClaimedAction, Holds
    <2>3. jobs'[ActionJob(o)].state = "FAILED" /\ ActionJob(o) \in Job
      BY <1>0, <2>1, <2>2, EndActionRows, JobIdentity
    <2>4. JobStep(ActionJob(o))
      BY <2>2, <2>3, JobSteps
    <2> QED
      BY <2>1, <2>2, <2>4, EndMoves DEF Terminal
  <1> QED
    BY <1>1, <1>2

LEMMA PollUnknownMoves ==
    ASSUME OutboxInv, NEW o \in OpId, NEW f, NEW inv, MarkAuthorityResultUnknown(o, f, inv)
    PROVE  TableStep
  <1>1. PICK js : js = [jobs EXCEPT ![ActionJob(o)] = Released(@, "UNKNOWN")]
    OBVIOUS
  <1>2. /\ jobs[ActionJob(o)].state = "CLAIMED" /\ UNCHANGED events
        /\ ReplyKeyFree(js, o) /\ ops' = SetOpState(o, "UNKNOWN")
        /\ jobs' = EnqueueReply(js, o)
    BY <1>1 DEF MarkAuthorityResultUnknown, Holds
  <1>3. jobs'[ActionJob(o)].state = "UNKNOWN" /\ ActionJob(o) \in Job
    BY Tables, <1>1, <1>2, EndActionRows, JobIdentity
  <1>4. JobStep(ActionJob(o))
    BY <1>2, <1>3, JobSteps
  <1> QED
    BY <1>1, <1>2, <1>4, EndMoves DEF Terminal

\* The rows of a claimed action.
LEMMA ClaimedRows ==
    ASSUME OutboxInv, NEW o \in OpId, jobs[ActionJob(o)].state = "CLAIMED"
    PROVE  /\ ActionJob(o) \in Job /\ ops[o] \in OpRow /\ jobs[ActionJob(o)] \in JobRow
           /\ ops[o].inv = jobs[ActionJob(o)].inv /\ ops[o].key = jobs[ActionJob(o)].key
           /\ ops[o].state = IF jobs[ActionJob(o)].inv = NoKey
                             THEN "QUEUED" ELSE "AWAITING_AUTHORITY"
           /\ jobs[ActionJob(o)].state \notin Terminal \cup {"NONE"}
  BY Tables, Phases, JobIdentity DEF OutboxInv, Terminal

LEMMA PrepareMoves ==
    ASSUME OutboxInv, NEW o \in OpId, NEW f, PrepareAuthorityEnqueue(o, f)
    PROVE  TableStep
  <1> DEFINE k == PreparedKey(o)
             op == [ops[o] EXCEPT !.key = k]
             row == [jobs[ActionJob(o)] EXCEPT !.key = k]
  <1>0. StoreTypeOK
    BY Tables
  <1>1. jobs[ActionJob(o)].state = "CLAIMED"
    BY DEF PrepareAuthorityEnqueue, Holds
  <1>2. k \in AuthKey
    BY <1>0, PrepareType
  <1>3. /\ op \in OpRow /\ row \in JobRow
        /\ op.state = ops[o].state /\ op.inv = ops[o].inv /\ op.key = k
        /\ op.kind = ops[o].kind /\ op.reconciles = ops[o].reconciles
        /\ row.state = "CLAIMED" /\ row.inv = jobs[ActionJob(o)].inv /\ row.key = k
    BY <1>1, <1>2, ClaimedRows DEF OpRow, JobRow
  <1>4. /\ ops' = [ops EXCEPT ![o] = op]
        /\ jobs' = [jobs EXCEPT ![ActionJob(o)] = row] /\ UNCHANGED events
    BY <1>0, ClaimedRows, <1>1 DEF PrepareAuthorityEnqueue, StoreTypeOK
  <1> HIDE DEF op, row, k
  <1>5. Matches(op, row) /\ op.state \notin Terminal \cup {"NONE"}
    BY <1>1, <1>3, ClaimedRows DEF Matches, JobPhase, Terminal
  <1>6. JobStep(ActionJob(o))
    <2>1. jobs'[ActionJob(o)] = row
      BY <1>0, <1>1, <1>4, ClaimedRows DEF StoreTypeOK
    <2> QED
      BY <1>1, <1>3, <2>1, ClaimedRows, JobSteps
  <1> QED
    BY <1>1, <1>3, <1>4, <1>5, <1>6, ClaimedRows, RowMoves

LEMMA AwaitMoves ==
    ASSUME OutboxInv, NEW o \in OpId, NEW f, NEW inv \in AuthKey \cup {NoKey}, inv # NoKey,
           \/ MarkAwaitingAuthority(o, f, inv)
           \/ UpdateAuthorityEvidence(o, f, inv)
    PROVE  TableStep
  <1> DEFINE op == [ops[o] EXCEPT !.state = "AWAITING_AUTHORITY", !.inv = inv]
             freed == Released(jobs[ActionJob(o)], "AWAITING_AUTHORITY")
             row == [freed EXCEPT !.inv = inv]
  <1>0. StoreTypeOK
    BY Tables
  <1>1. jobs[ActionJob(o)].state = "CLAIMED"
    BY DEF MarkAwaitingAuthority, UpdateAuthorityEvidence, Holds
  <1>2. /\ freed \in JobRow /\ freed.state = "AWAITING_AUTHORITY"
        /\ freed.inv = jobs[ActionJob(o)].inv /\ freed.key = jobs[ActionJob(o)].key
    <2>1. jobs[ActionJob(o)] \in JobRow /\ "AWAITING_AUTHORITY" \in JobState
      BY <1>1, ClaimedRows DEF JobState
    <2>2. freed \in JobRow
      BY <2>1, RowTypes
    <2> QED
      BY <2>1, <2>2, RowFields
  <1>3. /\ row \in JobRow /\ row.state = "AWAITING_AUTHORITY" /\ row.inv = inv
        /\ row.key = jobs[ActionJob(o)].key
    <2> HIDE DEF freed
    <2> QED
      BY <1>2 DEF JobRow
  <1>4. /\ op \in OpRow /\ op.state = "AWAITING_AUTHORITY" /\ op.inv = inv
        /\ op.key = ops[o].key /\ op.kind = ops[o].kind
        /\ op.reconciles = ops[o].reconciles
    BY <1>1, ClaimedRows DEF OpRow, OperationState
  <1>5. /\ ops' = [ops EXCEPT ![o] = op] /\ UNCHANGED events
        /\ jobs' = [jobs EXCEPT ![ActionJob(o)] = row]
    <2>1. CASE MarkAwaitingAuthority(o, f, inv)
      BY <1>0, <1>1, <2>1, ClaimedRows DEF MarkAwaitingAuthority, StoreTypeOK
    <2>2. CASE UpdateAuthorityEvidence(o, f, inv)
      <3>1. jobs[ActionJob(o)].inv = inv
        BY <2>2 DEF UpdateAuthorityEvidence
      <3>2. op = ops[o]
        BY <1>1, <3>1, ClaimedRows DEF OpRow
      <3>3. row = freed
        <4> HIDE DEF freed
        <4> QED
          BY <1>2, <3>1 DEF JobRow
      <3> QED
        BY <1>0, <2>2, <3>2, <3>3 DEF UpdateAuthorityEvidence, StoreTypeOK
    <2> QED
      BY <2>1, <2>2
  <1> HIDE DEF op, row, freed
  <1>6. Matches(op, row) /\ op.state \notin Terminal \cup {"NONE"}
    BY <1>1, <1>3, <1>4, ClaimedRows DEF Matches, JobPhase, Terminal
  <1>7. JobStep(ActionJob(o))
    <2>1. jobs'[ActionJob(o)] = row
      BY <1>0, <1>1, <1>5, ClaimedRows DEF StoreTypeOK
    <2> QED
      BY <1>1, <1>3, <2>1, ClaimedRows, JobSteps
  <1> QED
    BY <1>1, <1>3, <1>4, <1>5, <1>6, <1>7, ClaimedRows, RowMoves

LEMMA BeginMoves ==
    ASSUME OutboxInv, NEW o \in OpId, NEW inv \in AuthKey \cup {NoKey},
           BeginAuthorizedExecution(o, inv)
    PROVE  TableStep
  <1> DEFINE op == [ops[o] EXCEPT !.state = "RUNNING", !.inv = inv]
             row == [jobs[ActionJob(o)] EXCEPT !.state = "SENDING", !.lease = "live",
                                               !.fence = @ + 1, !.inv = inv]
  <1>0. StoreTypeOK
    BY Tables
  <1>1. /\ ActionJob(o) \in Job /\ ops[o] \in OpRow /\ jobs[ActionJob(o)] \in JobRow
        /\ ops[o].key = jobs[ActionJob(o)].key
        /\ jobs[ActionJob(o)].state \in {"AWAITING_AUTHORITY", "CLAIMED"}
    BY <1>0, Phases, JobIdentity DEF OutboxInv, BeginAuthorizedExecution
  <1>2. jobs[ActionJob(o)].fence + 1 \in 0..MaxFence
    BY <1>1, StoreAssumption DEF BeginAuthorizedExecution, JobRow
  <1>3. /\ op \in OpRow /\ op.state = "RUNNING" /\ op.inv = inv /\ op.key = ops[o].key
        /\ op.kind = ops[o].kind /\ op.reconciles = ops[o].reconciles
    BY <1>1 DEF OpRow, OperationState
  <1>4. /\ row \in JobRow /\ row.state = "SENDING" /\ row.inv = inv
        /\ row.key = jobs[ActionJob(o)].key
    BY <1>1, <1>2 DEF JobRow, JobState
  <1>5. /\ ops' = [ops EXCEPT ![o] = op] /\ UNCHANGED events
        /\ jobs' = [jobs EXCEPT ![ActionJob(o)] = row]
    BY <1>0, <1>1 DEF BeginAuthorizedExecution, StoreTypeOK
  <1> HIDE DEF op, row
  <1>6. Matches(op, row) /\ op.state \notin Terminal \cup {"NONE"}
    BY <1>1, <1>3, <1>4 DEF Matches, JobPhase, Terminal
  <1>7. JobStep(ActionJob(o))
    <2>1. jobs'[ActionJob(o)] = row
      BY <1>0, <1>1, <1>5 DEF StoreTypeOK
    <2> QED
      BY <1>1, <1>4, <2>1, JobSteps
  <1> QED
    BY <1>1, <1>3, <1>4, <1>5, <1>6, <1>7, RowMoves DEF Terminal

\* A read goes back to the queue.
LEMMA RequeueMoves ==
    ASSUME OutboxInv, NEW o \in OpId, ops[o].kind = "query",
           jobs[ActionJob(o)].state = "SENDING",
           jobs' = [jobs EXCEPT ![ActionJob(o)] = Requeued(Released(@, "READY"), "READY")],
           ops' = [ops EXCEPT ![o] = Requeued(@, "QUEUED")], UNCHANGED events
    PROVE  TableStep
  <1> DEFINE op == Requeued(ops[o], "QUEUED")
             row == Requeued(Released(jobs[ActionJob(o)], "READY"), "READY")
  <1>0. /\ StoreTypeOK /\ ActionJob(o) \in Job
        /\ ops[o] \in OpRow /\ jobs[ActionJob(o)] \in JobRow
    BY Tables, JobIdentity DEF StoreTypeOK
  <1>1. /\ op \in OpRow /\ op.state = "QUEUED" /\ op.inv = NoKey /\ op.key = NoKey
        /\ op.kind = ops[o].kind /\ op.reconciles = ops[o].reconciles
    <2>1. op \in OpRow
      BY <1>0, RowTypes DEF OperationState
    <2>2. /\ op.state = "QUEUED" /\ op.inv = NoKey /\ op.key = NoKey
          /\ op.kind = ops[o].kind /\ op.reconciles = ops[o].reconciles
      BY <1>0 DEF OpRow, Requeued
    <2> QED
      BY <2>1, <2>2
  <1>2. row \in JobRow /\ row.state = "READY" /\ row.inv = NoKey /\ row.key = NoKey
    <2>1. Released(jobs[ActionJob(o)], "READY") \in JobRow
      BY <1>0, RowTypes DEF JobState
    <2>2. row \in JobRow
      BY <2>1, RowTypes DEF JobState
    <2>3. row.state = "READY" /\ row.inv = NoKey /\ row.key = NoKey
      BY <2>1 DEF JobRow, Requeued
    <2> QED
      BY <2>2, <2>3
  <1>3. /\ ops' = [ops EXCEPT ![o] = op]
        /\ jobs' = [jobs EXCEPT ![ActionJob(o)] = row]
    BY <1>0 DEF StoreTypeOK
  <1> HIDE DEF op, row
  <1>4. Matches(op, row) /\ op.state \notin Terminal \cup {"NONE"}
    BY <1>1, <1>2 DEF Matches, JobPhase, Terminal
  <1>5. JobStep(ActionJob(o))
    <2>1. jobs'[ActionJob(o)] = row /\ IsQuery(ActionJob(o))
      BY <1>0, <1>3, MessageIsNoQuery DEF StoreTypeOK
    <2> QED
      BY <1>0, <1>2, <2>1, JobSteps
  <1> QED
    BY <1>1, <1>2, <1>3, <1>4, <1>5, RowMoves DEF Terminal

LEMMA FinishActionMoves ==
    ASSUME OutboxInv, NEW o \in OpId, NEW f, NEW st \in Terminal, FinishAction(o, f, st),
           \/ ops[o].kind = "query"
           \/ st = "UNKNOWN"
           \/ st = "FAILED" /\ effects[ActionJob(o)] = 0
           \/ st \in {"ACCEPTED", "SUCCEEDED"} /\ effects[ActionJob(o)] = 1
    PROVE  TableStep
  <1>1. PICK js : js = [jobs EXCEPT ![ActionJob(o)] = Released(@, st)]
    OBVIOUS
  <1>2. /\ jobs[ActionJob(o)].state = "SENDING" /\ UNCHANGED events
        /\ ReplyKeyFree(js, o) /\ ops' = SetOpState(o, st)
        /\ jobs' = EnqueueReply(js, o)
    BY <1>1 DEF FinishAction, Holds
  <1>3. jobs'[ActionJob(o)].state = st /\ ActionJob(o) \in Job
    BY Tables, <1>1, <1>2, EndActionRows, JobIdentity
  <1>4. JobStep(ActionJob(o))
    BY <1>2, <1>3, MessageIsNoQuery, JobSteps
  <1> QED
    BY <1>1, <1>2, <1>4, EndMoves

LEMMA FinishMoves ==
    ASSUME OutboxInv, NEW c \in Caller, NEW o \in OpId, CallerFinish(c, o)
    PROVE  TableStep
  <1>1. cb[c].pc = "answered" /\ cb[c].op = o /\ cb[c].out \in Terminal \cup {"RETRY"}
    BY DEF CallerFinish, OutboxInv, CallInv, AnswersKnown
  <1>2. ops[o].kind # "query" =>
           /\ cb[c].out = "FAILED" => effects[ActionJob(o)] = 0
           /\ cb[c].out \in {"ACCEPTED", "SUCCEEDED"} => effects[ActionJob(o)] = 1
    BY <1>1 DEF OutboxInv, CallInv, EffectsKnown, Writes
  <1>3. CASE cb[c].out # "RETRY"
    <2>1. FinishAction(o, cb[c].fence, cb[c].out) /\ cb[c].out \in Terminal
      BY <1>1, <1>3 DEF CallerFinish
    <2> QED
      BY <1>2, <2>1, FinishActionMoves DEF Terminal
  <1>4. CASE cb[c].out = "RETRY" /\ ops[o].kind # "query"
    <2>1. FinishAction(o, cb[c].fence, "UNKNOWN")
      BY <1>4 DEF CallerFinish
    <2> QED
      BY <2>1, FinishActionMoves DEF Terminal
  <1>5. CASE cb[c].out = "RETRY" /\ ops[o].kind = "query"
    <2>1. RetryReadonlyJob(o, cb[c].fence)
      BY <1>5 DEF CallerFinish
    <2>2. CASE jobs[ActionJob(o)].fence >= ReadAttempts
      <3>1. FinishAction(o, cb[c].fence, "FAILED")
        BY <2>1, <2>2 DEF RetryReadonlyJob, FinishAction
      <3> QED
        BY <1>5, <3>1, FinishActionMoves DEF Terminal
    <2>3. CASE ~(jobs[ActionJob(o)].fence >= ReadAttempts)
      BY <1>5, <2>1, <2>3, RequeueMoves DEF RetryReadonlyJob, Holds
    <2> QED
      BY <2>2, <2>3
  <1> QED
    BY <1>1, <1>3, <1>4, <1>5

\* resolve_unknown_operation after a read for it has succeeded.
LEMMA ResolveMoves ==
    ASSUME OutboxInv, NEW p \in OpId, ResolveUnknownOperation(p),
           \E q \in OpId : ResolvingRead(q, p)
    PROVE  TableStep
  <1>0. StoreTypeOK
    BY Tables
  <1>1. /\ ops[p].state = "UNKNOWN" /\ ops'[p].state = "SUCCEEDED"
        /\ ops'[p].inv = ops[p].inv /\ ops'[p].key = ops[p].key /\ KeepsIntent(p)
        /\ \A o \in OpId \ {p} : ops'[o] = ops[o]
        /\ UNCHANGED events
    BY <1>0 DEF ResolveUnknownOperation, SetOpState, StoreTypeOK, OpRow, KeepsIntent
  <1>2. \A k \in Job :
           \/ jobs'[k] = jobs[k] /\ ~(k = ActionJob(p) /\ jobs[k].state = "UNKNOWN")
           \/ /\ jobs[k].state = "UNKNOWN" /\ jobs'[k].state = "SUCCEEDED"
              /\ jobs'[k].inv = jobs[k].inv /\ jobs'[k].key = jobs[k].key
              /\ k \in JobsOf(p)
    BY <1>0 DEF ResolveUnknownOperation, StoreTypeOK, JobRow, JobsOf
  <1>3. RowsMatch'
    <2> SUFFICES ASSUME NEW o \in OpId PROVE Matches(ops'[o], jobs'[ActionJob(o)])
      BY DEF RowsMatch
    <2>1. ActionJob(o) \in Job /\ Matches(ops[o], jobs[ActionJob(o)])
      BY JobIdentity DEF OutboxInv, RowsMatch
    <2>2. CASE o = p
      <3>1. jobs[ActionJob(p)].state = "UNKNOWN"
        BY <1>0, <1>1, Phases DEF OutboxInv, Terminal
      <3>2. /\ jobs'[ActionJob(p)].state = "SUCCEEDED"
            /\ jobs'[ActionJob(p)].inv = jobs[ActionJob(p)].inv
            /\ jobs'[ActionJob(p)].key = jobs[ActionJob(p)].key
        BY <1>2, <2>1, <2>2, <3>1
      <3> QED
        BY <1>1, <2>1, <2>2, <3>2 DEF Matches, JobPhase
    <2>3. CASE o # p
      <3>1. ActionJob(o) \notin JobsOf(p)
        BY <2>3, JobIdentity DEF JobsOf
      <3> QED
        BY <1>1, <1>2, <2>1, <2>3, <3>1
    <2> QED
      BY <2>2, <2>3
  <1>4. ReplyFollowsOutcome'
    <2>1. \A e \in Event : /\ e \in OpId /\ ReplyJob(e) \in Job
                           /\ jobs'[ReplyJob(e)].state # "NONE" <=> jobs[ReplyJob(e)].state # "NONE"
      BY <1>2, JobIdentity
    <2>2. \A o \in OpId : ops'[o].state \in Terminal <=> ops[o].state \in Terminal
      BY <1>1 DEF Terminal
    <2> QED
      BY <2>1, <2>2 DEF OutboxInv, ReplyFollowsOutcome
  <1>5. EventShowsReply'
    <2>1. \A e \in Event \cup Link : AnswerOf(e) \in Job
      BY AnswerIdentity, JobIdentity
    <2> QED
      BY <1>1, <1>2, <2>1 DEF OutboxInv, EventShowsReply
  <1>6. \A o \in OpId : OpStep(o)
    BY <1>1 DEF OpStep
  <1>7. \A k \in Job : JobStep(k)
    BY <1>2, JobSteps
  <1> QED
    BY <1>3, <1>4, <1>5, <1>6, <1>7 DEF TableStep

\* Recovery aborts on an expired reply, so an expired send that names an
\* operation is its action.
LEMMA ExpiredSends ==
    ASSUME OutboxInv, ~RecoveryAborts, NEW o \in OpId
    PROVE  LET j == ActionJob(o)
           IN  /\ ExpiredSendsOf(o) = IF j \in ExpiredJobs /\ jobs[j].state = "SENDING"
                                      THEN {j} ELSE {}
               /\ o \in LostOps <=>
                     j \in ExpiredJobs /\ jobs[j].state = "SENDING" /\ SendFate(j) # "READY"
               /\ o \in LostOps /\ o \in Event => jobs[ReplyJob(o)].state = "NONE"
  <1> DEFINE j == ActionJob(o)
  <1>1. o \in LostOps /\ o \in Event => jobs[ReplyJob(o)].state = "NONE"
    BY DEF RecoveryAborts, ReplyKeyFree
  <1>2. ASSUME o \in Event, ReplyJob(o) \in ExpiredSendsOf(o) PROVE FALSE
    <2>1. ReplyJob(o) \in MessageJobs /\ jobs[ReplyJob(o)].state = "SENDING"
      BY <1>2, JobIdentity DEF ExpiredSendsOf
    <2>2. SendFate(ReplyJob(o)) = "UNKNOWN"
      BY <2>1, MessageIsNoQuery DEF SendFate
    <2>3. o \in LostOps
      BY <1>2, <2>2 DEF LostOps
    <2> QED
      BY <1>1, <1>2, <2>1, <2>3
  <1>3. \A k \in ExpiredSendsOf(o) : k = j
    BY <1>2 DEF ExpiredSendsOf, JobsOf
  <1>4. j \in ExpiredSendsOf(o) <=> j \in ExpiredJobs /\ jobs[j].state = "SENDING"
    BY DEF ExpiredSendsOf, JobsOf
  <1>5. ExpiredSendsOf(o) = IF j \in ExpiredJobs /\ jobs[j].state = "SENDING"
                            THEN {j} ELSE {}
    BY <1>3, <1>4
  <1>6. o \in LostOps <=> (j \in ExpiredJobs /\ jobs[j].state = "SENDING" /\ SendFate(j) # "READY")
    BY <1>5 DEF LostOps
  <1> QED
    BY <1>1, <1>5, <1>6

\* What recovery makes of one expired row.
LEMMA RecoveredRows ==
    ASSUME StoreTypeOK, NEW j \in ExpiredJobs
    PROVE  /\ j \in Job
           /\ \/ /\ jobs[j].state = "CLAIMED"
                 /\ RecoveredJob(j).inv = jobs[j].inv /\ RecoveredJob(j).key = jobs[j].key
                 /\ RecoveredJob(j).state = IF jobs[j].inv # NoKey
                                            THEN "AWAITING_AUTHORITY" ELSE "READY"
              \/ /\ jobs[j].state = "SENDING" /\ SendFate(j) = "READY" /\ IsQuery(j)
                 /\ RecoveredJob(j).state = "READY"
                 /\ RecoveredJob(j).inv = NoKey /\ RecoveredJob(j).key = NoKey
              \/ /\ jobs[j].state = "SENDING" /\ SendFate(j) # "READY"
                 /\ RecoveredJob(j).state = SendFate(j)
                 /\ RecoveredJob(j).inv = jobs[j].inv /\ RecoveredJob(j).key = jobs[j].key
                 /\ SendFate(j) \in {"FAILED", "UNKNOWN"}
                 /\ SendFate(j) = "FAILED" => IsQuery(j)
  <1>1. j \in Job /\ jobs[j].state \in {"CLAIMED", "SENDING"} /\ jobs[j] \in JobRow
    BY DEF ExpiredJobs, StoreTypeOK
  <1>2. CASE jobs[j].state = "CLAIMED"
    BY <1>1, <1>2, RowFields DEF RecoveredJob
  <1>3. CASE jobs[j].state = "SENDING" /\ SendFate(j) = "READY"
    <2>1. RecoveredJob(j) = Requeued(Released(jobs[j], "READY"), "READY")
      BY <1>3 DEF RecoveredJob
    <2>2. IsQuery(j)
      BY <1>3 DEF SendFate
    <2> QED
      BY <1>1, <1>3, <2>1, <2>2, RowFields
  <1>4. CASE jobs[j].state = "SENDING" /\ SendFate(j) # "READY"
    <2>1. RecoveredJob(j) = Released(jobs[j], SendFate(j))
      BY <1>4 DEF RecoveredJob
    <2>2. SendFate(j) \in {"FAILED", "UNKNOWN"} /\ (SendFate(j) = "FAILED" => IsQuery(j))
      BY <1>4 DEF SendFate
    <2> QED
      BY <1>1, <1>4, <2>1, <2>2, RowFields
  <1> QED
    BY <1>1, <1>2, <1>3, <1>4

LEMMA RecoverMoves ==
    ASSUME OutboxInv, RecoverExpiredClaims
    PROVE  TableStep
  <1>0. StoreTypeOK /\ UNCHANGED events /\ ~RecoveryAborts
    BY Tables DEF RecoverExpiredClaims
  <1>1. ASSUME NEW k \in Job
        PROVE  \/ k \in ExpiredJobs /\ jobs'[k] = RecoveredJob(k)
               \/ /\ k \notin ExpiredJobs /\ jobs[k].state = "NONE" /\ jobs'[k] = NewJob
                  /\ \E e \in LostOps \cap Event : k = ReplyJob(e)
               \/ /\ k \notin ExpiredJobs /\ jobs'[k] = jobs[k]
                  /\ ~ \E e \in LostOps \cap Event : k = ReplyJob(e)
    <2>1. \A e \in LostOps \cap Event : jobs[ReplyJob(e)].state = "NONE"
      BY <1>0 DEF RecoveryAborts, ReplyKeyFree
    <2> QED
      BY <2>1 DEF RecoverExpiredClaims
  \* An action and its operation.
  <1>2. ASSUME NEW o \in OpId
        PROVE  /\ Matches(ops'[o], jobs'[ActionJob(o)])
               /\ OpStep(o)
               /\ o \in LostOps => ops'[o].state \in Terminal
               /\ o \notin LostOps => (ops'[o].state \in Terminal <=> ops[o].state \in Terminal)
    <2> DEFINE j == ActionJob(o)
    <2>0. /\ j \in Job /\ Matches(ops[o], jobs[j]) /\ ops[o] \in OpRow
          /\ j \notin ExpiredJobs => jobs'[j] = jobs[j]
          /\ ops'[o] = RecoveredOp(o)
      BY <1>0, <1>1, JobIdentity DEF OutboxInv, RowsMatch, StoreTypeOK, RecoverExpiredClaims
    <2>1. CASE j \notin ExpiredJobs
      <3>1. ops'[o] = ops[o] /\ o \notin LostOps
        BY <1>0, <2>0, <2>1, ExpiredSends DEF RecoveredOp
      <3> QED
        BY <2>0, <2>1, <3>1 DEF OpStep
    <2>2. CASE j \in ExpiredJobs /\ jobs[j].state = "CLAIMED"
      <3>1. ops'[o] = ops[o] /\ o \notin LostOps
        BY <1>0, <2>0, <2>2, ExpiredSends DEF RecoveredOp
      <3>2. /\ jobs'[j].inv = jobs[j].inv /\ jobs'[j].key = jobs[j].key
            /\ jobs'[j].state = IF jobs[j].inv # NoKey THEN "AWAITING_AUTHORITY" ELSE "READY"
        BY <1>0, <1>1, <2>0, <2>2, RecoveredRows
      <3> QED
        BY <2>0, <2>2, <3>1, <3>2 DEF Matches, JobPhase, OpStep
    <2>3. CASE j \in ExpiredJobs /\ jobs[j].state = "SENDING" /\ SendFate(j) = "READY"
      <3>1. ops'[o] = Requeued(ops[o], "QUEUED") /\ o \notin LostOps
        BY <1>0, <2>0, <2>3, ExpiredSends DEF RecoveredOp
      <3>2. /\ ops'[o].state = "QUEUED" /\ ops'[o].inv = NoKey /\ ops'[o].key = NoKey
            /\ KeepsIntent(o)
        BY <2>0, <3>1 DEF KeepsIntent, Requeued, OpRow
      <3>3. jobs'[j].state = "READY" /\ jobs'[j].inv = NoKey /\ jobs'[j].key = NoKey
        BY <1>0, <1>1, <2>0, <2>3, RecoveredRows
      <3>4. ops[o].state = "RUNNING"
        BY <2>0, <2>3 DEF Matches, JobPhase
      <3> QED
        BY <3>1, <3>2, <3>3, <3>4 DEF Matches, JobPhase, OpStep, Terminal
    <2>4. CASE j \in ExpiredJobs /\ jobs[j].state = "SENDING" /\ SendFate(j) # "READY"
      <3>1. SendFate(j) \in {"FAILED", "UNKNOWN"}
        BY <1>0, <2>4, RecoveredRows
      <3>2. ops'[o] = [ops[o] EXCEPT !.state = SendFate(j)] /\ o \in LostOps
        BY <1>0, <2>0, <2>4, <3>1, ExpiredSends DEF RecoveredOp
      <3>3. /\ ops'[o].state = SendFate(j) /\ ops'[o].inv = ops[o].inv
            /\ ops'[o].key = ops[o].key /\ KeepsIntent(o)
        BY <2>0, <3>2 DEF KeepsIntent, OpRow
      <3>4. /\ jobs'[j].state = SendFate(j)
            /\ jobs'[j].inv = jobs[j].inv /\ jobs'[j].key = jobs[j].key
        BY <1>0, <1>1, <2>0, <2>4, RecoveredRows
      <3>5. ops[o].state = "RUNNING"
        BY <2>0, <2>4 DEF Matches, JobPhase
      <3> QED
        BY <2>0, <3>1, <3>2, <3>3, <3>4, <3>5 DEF Matches, JobPhase, OpStep, Terminal
    <2> QED
      BY <1>0, <2>1, <2>2, <2>3, <2>4 DEF ExpiredJobs
  <1>3. ASSUME NEW k \in Job
        PROVE  /\ JobStep(k)
               /\ k \in MessageJobs /\ jobs'[k].state \in {"ACCEPTED", "FAILED"} =>
                     jobs'[k] = jobs[k]
    <2>1. CASE k \in ExpiredJobs
      BY <1>0, <1>1, <2>1, RecoveredRows, JobSteps, MessageIsNoQuery DEF Terminal
    <2>2. CASE jobs[k].state = "NONE" /\ jobs'[k] = NewJob
      <3>1. Status(k) = "none" /\ Status(k)' = "open"
        BY <2>2, RowFields DEF Status, ContractStatus
      <3> QED
        BY <2>2, <3>1, RowFields DEF JobStep
    <2> QED
      BY <1>1, <2>1, <2>2, JobSteps
  <1>4. RowsMatch' /\ \A o \in OpId : OpStep(o)
    BY <1>2 DEF RowsMatch
  <1>5. ReplyFollowsOutcome'
    <2> SUFFICES ASSUME NEW e \in Event
                 PROVE  jobs'[ReplyJob(e)].state # "NONE" <=> ops'[e].state \in Terminal
      BY DEF ReplyFollowsOutcome
    <2>1. e \in OpId /\ ReplyJob(e) \in Job
      BY JobIdentity
    <2>2. jobs[ReplyJob(e)].state # "NONE" <=> ops[e].state \in Terminal
      BY DEF OutboxInv, ReplyFollowsOutcome
    <2>3. CASE e \in LostOps
      <3>1. jobs[ReplyJob(e)].state = "NONE"
        BY <1>0, <2>1, <2>3, ExpiredSends
      <3>2. jobs'[ReplyJob(e)] = NewJob
        BY <1>1, <2>1, <2>3, <3>1 DEF ExpiredJobs
      <3> QED
        BY <1>2, <2>1, <2>3, <3>2, RowFields
    <2>4. CASE e \notin LostOps
      <3>1. ~ \E d \in LostOps \cap Event : ReplyJob(e) = ReplyJob(d)
        BY <2>4, AnswerIdentity
      <3>2. jobs'[ReplyJob(e)].state # "NONE" <=> jobs[ReplyJob(e)].state # "NONE"
        BY <1>0, <1>1, <2>1, <3>1, RecoveredRows
      <3> QED
        BY <1>2, <2>1, <2>2, <2>4, <3>2
    <2> QED
      BY <2>3, <2>4
  <1>6. EventShowsReply'
    <2>1. \A e \in Event \cup Link : AnswerOf(e) \in MessageJobs /\ AnswerOf(e) \in Job
      BY AnswerIdentity, JobIdentity
    <2> QED
      BY <1>0, <1>3, <2>1 DEF OutboxInv, EventShowsReply
  <1> QED
    BY <1>3, <1>4, <1>5, <1>6 DEF TableStep

LEMMA QuietMoves ==
    ASSUME OutboxInv, UNCHANGED <<ops, jobs, events>>
    PROVE  TableStep
  BY TablesStay DEF OutboxInv, EventShowsReply

LEMMA WorkerMoves ==
    ASSUME OutboxInv, NEW w \in Worker, WorkerStep(w)
    PROVE  TableStep
  <1>0. wk[w].inv \in AuthKey \cup {NoKey}
    BY TypeSplit DEF OutboxInv, CallInv, ProcessTypeOK, WorkerRow
  <1>1. CASE WorkerRecover(w)
    BY <1>1, RecoverMoves DEF WorkerRecover
  <1>2. CASE WorkerNoWork(w) \/ WorkerSend(w) \/ WorkerRestart(w)
    BY <1>2, QuietMoves DEF WorkerNoWork, WorkerSend, WorkerRestart
  <1>3. ASSUME NEW j \in Job, WorkerClaim(w, j) PROVE TableStep
    BY <1>3, ClaimMoves DEF WorkerClaim
  <1>4. CASE WorkerMarkSending(w)
    BY <1>4, SendingMoves DEF WorkerMarkSending
  <1>5. CASE WorkerFinish(w)
    BY <1>5, FinishMessageMoves
  <1>6. ASSUME NEW o \in OpId, WorkerPrepare(w, o) PROVE TableStep
    BY <1>6, PrepareMoves DEF WorkerPrepare
  <1>7. ASSUME NEW o \in OpId, WorkerEnqueue(w, o) \/ WorkerPoll(w, o) PROVE TableStep
    BY <1>7, QuietMoves DEF WorkerEnqueue, WorkerPoll
  <1>8. ASSUME NEW o \in OpId, WorkerMarkAwaiting(w, o) PROVE TableStep
    <2>1. wk[w].inv # NoKey /\ MarkAwaitingAuthority(o, wk[w].fence, wk[w].inv)
      BY <1>8 DEF WorkerMarkAwaiting, OutboxInv, KeysKnown
    <2> QED
      BY <1>0, <2>1, AwaitMoves
  <1>9. ASSUME NEW o \in OpId, WorkerApplyPoll(w, o) PROVE TableStep
    <2>1. wk[w].inv # NoKey
      BY <1>9 DEF WorkerApplyPoll, OutboxInv, KeysKnown
    <2>2. CASE wk[w].out = "DENIED"
      BY <1>9, <2>2, FailClaimedMoves DEF WorkerApplyPoll
    <2>3. CASE wk[w].out = "UNKNOWN_RESULT"
      BY <1>9, <2>3, PollUnknownMoves DEF WorkerApplyPoll
    <2>4. CASE wk[w].out \notin {"DENIED", "UNKNOWN_RESULT"}
      <3>1. UpdateAuthorityEvidence(o, wk[w].fence, wk[w].inv)
        BY <1>9, <2>4 DEF WorkerApplyPoll
      <3> QED
        BY <1>0, <2>1, <3>1, AwaitMoves
    <2> QED
      BY <2>2, <2>3, <2>4
  <1>10. CASE WorkerDenied(w)
    BY <1>10, FailClaimedMoves DEF WorkerDenied
  <1> QED
    BY <1>1, <1>2, <1>3, <1>4, <1>5, <1>6, <1>7, <1>8, <1>9, <1>10 DEF WorkerStep

LEMMA CallerMoves ==
    ASSUME OutboxInv, NEW c \in Caller, CallerStep(c)
    PROVE  TableStep
  <1>0. cb[c].inv \in AuthKey \cup {NoKey}
    BY TypeSplit DEF OutboxInv, CallInv, ProcessTypeOK, CallerRow
  <1>1. ASSUME NEW o \in OpId, NEW k \in AuthKey, CallerValidate(c, o, k) PROVE TableStep
    BY <1>1, QuietMoves DEF CallerValidate
  <1>2. ASSUME NEW o \in OpId, CallerBegin(c, o) PROVE TableStep
    BY <1>0, <1>2, BeginMoves DEF CallerBegin
  <1>3. ASSUME NEW o \in OpId, CallerCall(c, o) PROVE TableStep
    BY <1>3, QuietMoves DEF CallerCall
  <1>4. ASSUME NEW o \in OpId, CallerFinish(c, o) PROVE TableStep
    BY <1>4, FinishMoves
  <1>5. ASSUME NEW o \in OpId, CallerReconcile(c, o) PROVE TableStep
    <2>1. /\ ops[o].state = "SUCCEEDED" /\ ops[o].reconciles # NoOp
          /\ ResolveUnknownOperation(ops[o].reconciles)
      BY <1>5 DEF CallerReconcile, OutboxInv, ReadsKnown
    <2>2. ops[o].kind = "query" /\ ops[o].reconciles \in OpId
      BY <2>1 DEF OutboxInv, OriginalsKnown, Original
    <2> QED
      BY <2>1, <2>2, ResolveMoves DEF ResolvingRead
  <1>6. CASE CallerEnd(c)
    BY <1>6, QuietMoves DEF CallerEnd
  <1> QED
    BY <1>1, <1>2, <1>3, <1>4, <1>5, <1>6 DEF CallerStep

LEMMA StepMoves ==
    ASSUME OutboxInv, [Next]_vars
    PROVE  TableStep
  <1>1. ASSUME UNCHANGED vars \/ \E o \in OpId, k \in AuthKey : AuthoritySettles(o, k)
        PROVE  TableStep
    BY <1>1, QuietMoves DEF vars, AuthoritySettles
  <1>2. ASSUME \E w \in Worker : WorkerStep(w) PROVE TableStep
    BY <1>2, WorkerMoves
  <1>3. ASSUME \E c \in Caller : CallerStep(c) PROVE TableStep
    BY <1>3, CallerMoves
  <1> QED
    BY <1>1, <1>2, <1>3, AdmitMoves DEF Next

-----------------------------------------------------------------------------
(* OutboxInv is inductive.                                                  *)

LEMMA KeysStep ==
    ASSUME OutboxInv, [Next]_vars
    PROVE  KeysKnown'
  <1>0. wk \in [Worker -> WorkerRow]
    BY TypeSplit DEF OutboxInv, CallInv, ProcessTypeOK
  <1>1. CASE wk' = wk
    BY <1>1 DEF OutboxInv, KeysKnown
  <1>2. ASSUME NEW w \in Worker, WorkerStep(w) PROVE KeysKnown'
    <2> SUFFICES /\ \A x \in Worker \ {w} : wk'[x] = wk[x]
                 /\ \/ wk'[w].pc \notin {"prepared", "enqueued", "polled"}
                    \/ wk'[w].inv # NoKey
      BY DEF OutboxInv, KeysKnown
    <2>1. CASE WorkerRecover(w) \/ WorkerNoWork(w) \/ WorkerMarkSending(w)
               \/ WorkerSend(w) \/ WorkerFinish(w) \/ WorkerDenied(w) \/ WorkerRestart(w)
      BY <1>0, <2>1 DEF WorkerRecover, WorkerNoWork, WorkerMarkSending, WorkerSend,
         WorkerFinish, WorkerDenied, WorkerRestart, WorkerRow, IdleWorker
    <2>2. CASE \E j \in Job : WorkerClaim(w, j)
      BY <1>0, <2>2 DEF WorkerClaim
    <2>3. ASSUME NEW o \in OpId, WorkerPrepare(w, o)
          PROVE  /\ \A x \in Worker \ {w} : wk'[x] = wk[x]
                 /\ wk'[w].inv # NoKey
      <3>1. PreparedKey(o) \in AuthKey
        BY <2>3, Tables, PrepareType DEF WorkerPrepare
      <3>2. PreparedKey(o) # NoKey
        BY <3>1, StoreAssumption DEF AuthKey, NoKey
      <3> QED
        BY <1>0, <2>3, <3>2 DEF WorkerPrepare, WorkerRow
    <2>4. ASSUME NEW o \in OpId, WorkerEnqueue(w, o) \/ WorkerPoll(w, o)
          PROVE  /\ \A x \in Worker \ {w} : wk'[x] = wk[x]
                 /\ wk'[w].inv # NoKey
      BY <1>0, <2>4 DEF WorkerEnqueue, WorkerPoll, WorkerRow, OutboxInv, KeysKnown
    <2>5. ASSUME NEW o \in OpId, WorkerMarkAwaiting(w, o) \/ WorkerApplyPoll(w, o)
          PROVE  /\ \A x \in Worker \ {w} : wk'[x] = wk[x]
                 /\ wk'[w].pc = "idle"
      BY <1>0, <2>5 DEF WorkerMarkAwaiting, WorkerApplyPoll, IdleWorker
    <2> QED
      BY <1>2, <2>1, <2>2, <2>3, <2>4, <2>5 DEF WorkerStep
  <1>3. ASSUME NEW c \in Caller, CallerStep(c) PROVE wk' = wk
    BY <1>3 DEF CallerStep, CallerValidate, CallerBegin, CallerCall, CallerFinish,
       CallerReconcile, CallerEnd
  <1> QED
    BY <1>1, <1>2, <1>3 DEF Next, vars, AdmitRest, AdmitCommand, AdmitLink, AdmitNotice,
       LeaseTimeout, AuthoritySettles

LEMMA OriginalsStep ==
    ASSUME OutboxInv, TableStep
    PROVE  OriginalsKnown'
  <1> SUFFICES ASSUME NEW q \in OpId, ops'[q].reconciles # NoOp
               PROVE  /\ ops'[q].kind = "query" /\ ops'[q].reconciles \in OpId
                      /\ ops'[ops'[q].reconciles].state # "NONE"
                      /\ ops'[ops'[q].reconciles].kind \in {"close", "reopen"}
    BY DEF OriginalsKnown, Original
  <1>1. PICK p : p = ops'[q].reconciles
    OBVIOUS
  <1>2. /\ ops'[q].kind = "query" /\ p \in OpId
        /\ ops[p].state # "NONE" /\ ops[p].kind \in {"close", "reopen"}
    <2>1. OpStep(q) /\ Original(q)
      BY DEF TableStep, OutboxInv, OriginalsKnown
    <2> QED
      BY <1>1, <2>1 DEF OpStep, Original, KeepsIntent
  <1>3. ops'[p].state # "NONE" /\ ops'[p].kind = ops[p].kind
    BY <1>2 DEF TableStep, OpStep, KeepsIntent
  <1> QED
    BY <1>1, <1>2, <1>3

LEMMA ReadsStep ==
    ASSUME OutboxInv, TableStep, [Next]_vars
    PROVE  ReadsKnown'
  <1>0. cb \in [Caller -> CallerRow] /\ StoreTypeOK
    BY TypeSplit DEF OutboxInv, CallInv, ProcessTypeOK
  <1> SUFFICES ASSUME NEW c \in Caller, cb'[c].pc = "reconciling"
               PROVE  /\ ops'[cb'[c].op].state = "SUCCEEDED"
                      /\ ops'[cb'[c].op].reconciles # NoOp
    BY DEF ReadsKnown
  <1>1. CASE cb'[c] = cb[c]
    <2>1. /\ cb[c].op \in OpId /\ ops[cb[c].op].state = "SUCCEEDED"
          /\ ops[cb[c].op].reconciles # NoOp
      BY <1>1 DEF OutboxInv, ReadsKnown, CallInv, OneCallPerJob
    <2>2. ops'[cb[c].op] = ops[cb[c].op]
      BY <2>1 DEF TableStep, OpStep, Terminal
    <2> QED
      BY <1>1, <2>1, <2>2
  <1>2. ASSUME NEW o \in OpId, CallerFinish(c, o)
        PROVE  /\ ops'[cb'[c].op].state = "SUCCEEDED"
               /\ ops'[cb'[c].op].reconciles # NoOp
    <2>1. /\ cb[c].op = o
          /\ cb[c].out = "SUCCEEDED" /\ ops[o].reconciles # NoOp /\ cb'[c].op = o
      BY <1>0, <1>2 DEF CallerFinish, IdleCaller, CallerRow
    <2>2. FinishAction(o, cb[c].fence, "SUCCEEDED")
      BY <1>2, <2>1 DEF CallerFinish
    <2>3. ops' = SetOpState(o, "SUCCEEDED")
      BY <2>2 DEF FinishAction
    <2> QED
      BY <1>0, <2>1, <2>3 DEF SetOpState, StoreTypeOK, OpRow
  <1>3. ASSUME NEW d \in Caller, CallerStep(d)
        PROVE  cb'[c] = cb[c] \/ \E o \in OpId : CallerFinish(c, o)
    <2>1. CASE \E o \in OpId : CallerFinish(d, o)
      BY <1>0, <2>1 DEF CallerFinish
    <2>2. CASE \E o \in OpId, k \in AuthKey : CallerValidate(d, o, k)
      BY <1>0, <2>2 DEF CallerValidate
    <2>3. CASE \E o \in OpId : CallerBegin(d, o) \/ CallerCall(d, o)
      BY <1>0, <2>3 DEF CallerBegin, CallerCall, CallerRow
    <2>4. CASE (\E o \in OpId : CallerReconcile(d, o)) \/ CallerEnd(d)
      BY <1>0, <2>4 DEF CallerReconcile, CallerEnd, IdleCaller
    <2> QED
      BY <1>3, <2>1, <2>2, <2>3, <2>4 DEF CallerStep
  <1>4. ASSUME NEW w \in Worker, WorkerStep(w) PROVE cb' = cb
    BY <1>4 DEF WorkerStep, WorkerRecover, WorkerNoWork, WorkerClaim, WorkerMarkSending,
       WorkerSend, WorkerFinish, WorkerPrepare, WorkerEnqueue, WorkerMarkAwaiting,
       WorkerPoll, WorkerApplyPoll, WorkerDenied, WorkerRestart
  <1> QED
    BY <1>1, <1>2, <1>3, <1>4 DEF Next, vars, AdmitRest, AdmitCommand, AdmitLink,
       AdmitNotice, LeaseTimeout, AuthoritySettles

LEMMA OutboxInit == Init => OutboxInv
  <1> SUFFICES ASSUME Init PROVE OutboxInv
    OBVIOUS
  <1>1. /\ \A o \in OpId : ops[o] = AbsentOp
        /\ \A j \in Job : jobs[j] = AbsentJob
        /\ \A w \in Worker : wk[w].pc = "idle"
        /\ \A c \in Caller : cb[c].pc = "idle"
    BY DEF Init, StoreInit, IdleWorker, IdleCaller
  <1>2. RowsMatch /\ OriginalsKnown
    BY <1>1, JobIdentity DEF RowsMatch, Matches, JobPhase, AbsentOp, AbsentJob,
       OriginalsKnown, Original
  <1>3. ReplyFollowsOutcome
    BY <1>1, JobIdentity DEF ReplyFollowsOutcome, AbsentOp, AbsentJob, Terminal
  <1>4. EventShowsReply
    BY <1>1, JobIdentity, AnswerIdentity DEF EventShowsReply, AbsentJob
  <1>5. KeysKnown /\ ReadsKnown
    BY <1>1 DEF KeysKnown, ReadsKnown
  <1> QED
    BY <1>2, <1>3, <1>4, <1>5, CallInit DEF OutboxInv

LEMMA OutboxStep == OutboxInv /\ [Next]_vars => OutboxInv'
  <1> SUFFICES ASSUME OutboxInv, [Next]_vars PROVE OutboxInv'
    OBVIOUS
  <1>1. TableStep
    BY StepMoves
  <1>2. CallInv'
    BY CallInvStep DEF OutboxInv
  <1>3. KeysKnown' /\ OriginalsKnown' /\ ReadsKnown'
    BY <1>1, KeysStep, OriginalsStep, ReadsStep
  <1> QED
    BY <1>1, <1>2, <1>3 DEF OutboxInv, TableStep

\* Throughout, the rows agree, replies and events follow the outcome, and a
\* read that is about to resolve a write has succeeded.
THEOREM OutboxInvariant == Spec => []OutboxInv
  BY OutboxInit, OutboxStep, PTL DEF Spec

-----------------------------------------------------------------------------
(* The theorems.                                                            *)

\* An operation and its ISSUE_ACTION job never disagree about phase,
\* invocation or key, whichever of worker, callback and recovery moves them.
THEOREM OperationsMatchJobs == Spec => []OperationMatchesJob
  <1>1. OutboxInv => OperationMatchesJob
    BY DEF OutboxInv, RowsMatch, Matches, OperationMatchesJob
  <1> QED
    BY OutboxInvariant, <1>1, PTL

\* A WeCom command has a reply job exactly when its operation has ended.
THEOREM RepliesFollowOutcomes == Spec => []ReplyFollowsOutcome
  <1>1. OutboxInv => ReplyFollowsOutcome
    BY DEF OutboxInv
  <1> QED
    BY OutboxInvariant, <1>1, PTL

\* The inbox row of an answered event shows how its reply ended, whatever a
\* late delivery of the event still does.
THEOREM EventsShowReplies == Spec => []EventShowsReply
  <1>1. OutboxInv => EventShowsReply
    BY DEF OutboxInv
  <1> QED
    BY OutboxInvariant, <1>1, PTL

\* An unknown write becomes a success only by a finished read that was asked
\* for about this very write, and a comment never does.
THEOREM WritesResolvedByReads == Spec => ResolvedOnlyByRead
  <1> DEFINE A == \A o \in OpId :
                    (ops[o].state = "UNKNOWN" /\ ops'[o].state = "SUCCEEDED") =>
                       /\ ops[o].kind \in {"close", "reopen"}
                       /\ \E q \in OpId : /\ ops[q].reconciles = o
                                           /\ ops[q].kind = "query"
                                           /\ ops[q].state = "SUCCEEDED"
  <1>1. ASSUME OutboxInv, [Next]_vars PROVE [A]_vars
    <2> SUFFICES ASSUME NEW o \in OpId, ops[o].state = "UNKNOWN", ops'[o].state = "SUCCEEDED"
                 PROVE  /\ ops[o].kind \in {"close", "reopen"}
                        /\ \E q \in OpId : /\ ops[q].reconciles = o
                                            /\ ops[q].kind = "query"
                                            /\ ops[q].state = "SUCCEEDED"
      OBVIOUS
    <2>1. OpStep(o)
      BY <1>1, StepMoves DEF TableStep
    <2>2. PICK q \in OpId : ResolvingRead(q, o)
      BY <2>1 DEF OpStep, Terminal
    <2>3. Original(q) /\ ops[q].reconciles = o
      BY <1>1, <2>2 DEF OutboxInv, OriginalsKnown, ResolvingRead
    <2>4. ops[o].kind \in {"close", "reopen"}
      BY <2>3, StoreAssumption DEF Original
    <2> QED
      BY <2>2, <2>4 DEF ResolvingRead
  <1> HIDE DEF A
  <1>2. Spec => [][A]_vars
    BY <1>1, OutboxInvariant, PTL DEF Spec
  <1> QED
    BY <1>2 DEF A, ResolvedOnlyByRead

-----------------------------------------------------------------------------
(* The outbox implements its contract.                                      *)

\* The provider acts only for a job that has departed and has not failed.
LEMMA EffectStep ==
    ASSUME OutboxInv, [Next]_vars, NEW j \in Job, effects'[j] # effects[j]
    PROVE  /\ effects[j] = 0 /\ effects'[j] = 1 /\ ~IsQuery(j)
           /\ jobs[j].state \in {"SENDING", "SUCCEEDED", "UNKNOWN"}
           /\ UNCHANGED <<ops, jobs>>
  <1>0. effects \in [Job -> Nat]
    BY TypeSplit DEF OutboxInv, CallInv, ProcessTypeOK
  <1>t. effects'[j] \in Nat /\ effects'[j] <= 1
    BY CallInvStep, TypeSplit DEF OutboxInv, CallInv, ProcessTypeOK, AtMostOneEffect
  <1>1. ASSUME NEW w \in Worker, WorkerSend(w)
        PROVE  /\ effects[j] = 0 /\ effects'[j] = 1 /\ ~IsQuery(j)
               /\ jobs[j].state \in {"SENDING", "SUCCEEDED", "UNKNOWN"}
               /\ UNCHANGED <<ops, jobs>>
    <2>1. j = wk[w].job /\ wk[w].pc = "sending"
      BY <1>0, <1>1 DEF WorkerSend
    <2>2. /\ effects[j] = 0 /\ j \in MessageJobs /\ jobs[j].state \in Departed
          /\ jobs[j].state # "FAILED"
      BY <2>1 DEF OutboxInv, CallInv, EffectsKnown, OneCallPerJob, FailedIsQuiet
    <2>3. ~IsQuery(j)
      BY <2>2, MessageIsNoQuery
    <2>4. jobs[j].state # "ACCEPTED"
      BY <2>2, <2>3 DEF OutboxInv, CallInv, TerminalIsTrue
    <2> QED
      BY <1>1, <1>t, <2>2, <2>3, <2>4 DEF WorkerSend, Departed, Terminal
  <1>2. ASSUME NEW c \in Caller, NEW o \in OpId, CallerCall(c, o)
        PROVE  /\ effects[j] = 0 /\ effects'[j] = 1 /\ ~IsQuery(j)
               /\ jobs[j].state \in {"SENDING", "SUCCEEDED", "UNKNOWN"}
               /\ UNCHANGED <<ops, jobs>>
    <2>1. j = ActionJob(o) /\ cb[c].pc = "executing" /\ cb[c].op = o
      BY <1>0, <1>2 DEF CallerCall
    <2>2. ops[o].kind # "query"
      BY <1>0, <1>2, <2>1 DEF CallerCall
    <2>3. Writes(c, o)
      BY <2>1, <2>2 DEF Writes
    <2>4. /\ effects[j] = 0 /\ jobs[j].state \in Departed /\ jobs[j].state # "FAILED"
      BY <2>1, <2>3 DEF OutboxInv, CallInv, EffectsKnown, OneCallPerJob, FailedIsQuiet
    <2>5. ~IsQuery(j)
      BY <2>1, <2>2, MessageIsNoQuery
    <2>6. jobs[j].state # "ACCEPTED"
      BY <2>4, <2>5 DEF OutboxInv, CallInv, TerminalIsTrue
    <2> QED
      BY <1>2, <1>t, <2>4, <2>5, <2>6 DEF CallerCall, Departed, Terminal
  <1>3. ASSUME NEW w \in Worker, WorkerStep(w), ~WorkerSend(w) PROVE effects' = effects
    BY <1>3 DEF WorkerStep, WorkerRecover, WorkerNoWork, WorkerClaim, WorkerMarkSending,
       WorkerFinish, WorkerPrepare, WorkerEnqueue, WorkerMarkAwaiting,
       WorkerPoll, WorkerApplyPoll, WorkerDenied, WorkerRestart
  <1>4. ASSUME NEW c \in Caller, CallerStep(c), ~ \E o \in OpId : CallerCall(c, o)
        PROVE  effects' = effects
    BY <1>4 DEF CallerStep, CallerValidate, CallerBegin, CallerFinish, CallerReconcile,
       CallerEnd
  <1> QED
    BY <1>1, <1>2, <1>3, <1>4 DEF Next, vars, AdmitRest, AdmitCommand, AdmitLink,
       AdmitNotice, LeaseTimeout, AuthoritySettles

\* The contract's view of the tables.
StBar == [j \in Job |-> ContractStatus(jobs[j].state)]
ReadBar == [j \in Job |-> jobs[j].state # "NONE" /\ IsQuery(j)]

LEMMA ContractViews ==
    ASSUME StoreTypeOK, StoreTypeOK'
    PROVE  /\ StBar \in [Job -> Contract!Status] /\ StBar' \in [Job -> Contract!Status]
           /\ ReadBar' \in [Job -> BOOLEAN]
           /\ \A j \in Job : /\ StBar[j] = Status(j) /\ StBar'[j] = Status(j)'
                             /\ ReadBar[j] = (jobs[j].state # "NONE" /\ IsQuery(j))
                             /\ ReadBar'[j] = (jobs'[j].state # "NONE" /\ IsQuery(j)')
  <1>1. \A j \in Job : jobs[j].state \in JobState /\ jobs'[j].state \in JobState
    BY DEF StoreTypeOK, JobRow
  <1>2. \A s \in JobState : ContractStatus(s) \in Contract!Status
    BY DEF JobState, ContractStatus, Contract!Status
  <1>3. \A j \in Job : /\ StBar[j] = Status(j) /\ StBar'[j] = Status(j)'
                       /\ ReadBar[j] = (jobs[j].state # "NONE" /\ IsQuery(j))
                       /\ ReadBar'[j] = (jobs'[j].state # "NONE" /\ IsQuery(j)')
    BY DEF StBar, ReadBar, Status
  <1>4. StBar \in [Job -> Contract!Status] /\ StBar' \in [Job -> Contract!Status]
    BY <1>1, <1>2 DEF StBar
  <1>5. ReadBar' \in [Job -> BOOLEAN]
    BY DEF ReadBar
  <1> QED
    BY <1>3, <1>4, <1>5

\* Once admitted, a job stays a read or a write.
LEMMA ReadStays ==
    ASSUME OutboxInv, TableStep, NEW j \in Job, jobs[j].state # "NONE"
    PROVE  IsQuery(j)' = IsQuery(j) /\ jobs'[j].state # "NONE"
  <1>0. StoreTypeOK
    BY Tables
  <1>1. jobs'[j].state # "NONE"
    BY <1>0 DEF TableStep, JobStep, Status, ContractStatus, StoreTypeOK, JobRow, JobState
  <1>2. CASE j \in MessageJobs
    BY <1>1, <1>2, MessageIsNoQuery DEF IsQuery
  <1>3. ASSUME NEW o \in OpId, j = ActionJob(o) PROVE ops'[o].kind = ops[o].kind
    <2>1. ops[o].state # "NONE"
      BY <1>3 DEF OutboxInv, CallInv, EffectsKnown
    <2> QED
      BY <2>1 DEF TableStep, OpStep, KeepsIntent
  <1> QED
    BY <1>1, <1>2, <1>3, JobIdentity DEF IsQuery

LEMMA ContractMove ==
    ASSUME OutboxInv, OutboxInv', TableStep, [Next]_vars, NEW j \in Job
    PROVE  Contract!Move(j)
  <1>0. StoreTypeOK /\ StoreTypeOK' /\ effects \in [Job -> Nat]
    BY TypeSplit DEF OutboxInv, CallInv, ProcessTypeOK
  <1>1. /\ StBar[j] = Status(j) /\ StBar'[j] = Status(j)'
        /\ ReadBar[j] = (jobs[j].state # "NONE" /\ IsQuery(j))
        /\ ReadBar'[j] \in BOOLEAN
    BY <1>0, ContractViews
  <1>2. Status(j) = "none" <=> jobs[j].state = "NONE"
    BY <1>0 DEF Status, ContractStatus, StoreTypeOK, JobRow, JobState
  <1>3. Status(j) # "none" => ReadBar'[j] = ReadBar[j]
    BY <1>0, <1>2, ReadStays, ContractViews
  <1>4. Status(j) # "none" => (ReadBar[j] <=> IsQuery(j))
    BY <1>1, <1>2
  <1>5. CASE effects'[j] # effects[j]
    <2>1. /\ effects[j] = 0 /\ effects'[j] = 1 /\ ~IsQuery(j)
          /\ Status(j) \in {"flying", "succeeded", "unknown"} /\ Status(j)' = Status(j)
      BY <1>5, EffectStep DEF Status, ContractStatus
    <2>2. Contract!Act(j)
      BY <1>1, <1>3, <1>4, <2>1 DEF Contract!Act, StBar, ReadBar
    <2> QED
      BY <2>2 DEF Contract!Move
  <1>6. CASE effects'[j] = effects[j]
    <2>1. JobStep(j)
      BY DEF TableStep
    <2>2. CASE Status(j)' = Status(j) /\ Status(j) # "none"
      BY <1>1, <1>3, <1>6, <2>2 DEF Contract!Move, Contract!Same, StBar, ReadBar
    <2>3. CASE Status(j)' = Status(j) /\ Status(j) = "none"
      <3>1. jobs'[j].state = "NONE" /\ jobs[j].state = "NONE"
        BY <1>0, <2>3 DEF Status, ContractStatus, StoreTypeOK, JobRow, JobState
      <3>2. ReadBar'[j] = FALSE /\ ReadBar[j] = FALSE
        BY <3>1 DEF ReadBar
      <3> QED
        BY <1>1, <1>6, <2>3, <3>2 DEF Contract!Move, Contract!Same, StBar, ReadBar
    <2>4. CASE Status(j) = "none" /\ Status(j)' = "open"
      BY <1>1, <1>6, <2>4 DEF Contract!Move, Contract!Submit, StBar, ReadBar
    <2>5. CASE Status(j) = "open" /\ Status(j)' \in {"flying", "failed", "unknown"}
      BY <1>1, <1>3, <1>6, <2>5
      DEF Contract!Move, Contract!Depart, Contract!Settle, StBar, ReadBar
    <2>6. CASE Status(j) = "unknown" /\ Status(j)' = "succeeded"
      BY <1>1, <1>3, <1>6, <2>6 DEF Contract!Move, Contract!Resolve, StBar, ReadBar
    <2>7. CASE /\ Status(j) = "flying" /\ IsQuery(j)
               /\ Status(j)' \in {"open", "succeeded", "failed", "unknown", "accepted"}
      BY <1>1, <1>3, <1>4, <1>6, <2>7
      DEF Contract!Move, Contract!Retry, Contract!Land, StBar, ReadBar
    <2>8. CASE /\ Status(j) = "flying"
               /\ \/ Status(j)' = "unknown"
                  \/ Status(j)' \in {"accepted", "succeeded"} /\ effects[j] = 1
                  \/ Status(j)' = "failed" /\ effects[j] = 0
      BY <1>1, <1>3, <1>6, <2>8 DEF Contract!Move, Contract!Land, StBar, ReadBar
    <2> QED
      BY <2>1, <2>2, <2>3, <2>4, <2>5, <2>6, <2>7, <2>8 DEF JobStep
  <1> QED
    BY <1>5, <1>6

\* Whatever the processes do, every step is for every job a move of the
\* contract or leaves the job alone.
THEOREM OutboxImplementsContract == Spec => ImplementsContract
  <1>1. Init => Contract!CInit
    <2> SUFFICES ASSUME Init PROVE Contract!CInit
      OBVIOUS
    <2>1. \A j \in Job : jobs[j].state = "NONE"
      BY DEF Init, StoreInit, AbsentJob
    <2> QED
      BY <2>1 DEF Contract!CInit, ContractStatus, Init
  <1>2. ASSUME OutboxInv, OutboxInv', [Next]_vars PROVE Contract!CNext
    <2>1. TableStep /\ StoreTypeOK /\ StoreTypeOK' /\ effects' \in [Job -> Nat]
      BY <1>2, StepMoves, TypeSplit DEF OutboxInv, CallInv, ProcessTypeOK
    <2>2. /\ StBar' \in [Job -> Contract!Status] /\ ReadBar' \in [Job -> BOOLEAN]
      BY <2>1, ContractViews
    <2>3. \A j \in Job : Contract!Move(j)
      BY <1>2, <2>1, ContractMove
    <2> QED
      BY <2>1, <2>2, <2>3 DEF Contract!CNext, StBar, ReadBar
  <1> QED
    BY <1>1, <1>2, OutboxInvariant, PTL DEF Spec, ImplementsContract, Contract!CSpec
=============================================================================
