--------------------------- MODULE AccountRenewal ---------------------------
(* Renewal sessions: the Product session a client starts and polls, and the *)
(* provider session behind it (api.py, store.py, and the renewal calls of   *)
(* authorization_cloud_provider.py).                                        *)
(*                                                                          *)
(* A handler holds its process for the length of a provider call, so two    *)
(* handlers interleave only when several processes share the database file; *)
(* op[p] is what the handler in process p has read so far.  URLs, codes and *)
(* expiry times of a session are left out: they follow its state.           *)
EXTENDS AccountCenter

CONSTANTS
    Session,      \* Product sessions, one for each idempotency key
    Process       \* API processes

VARIABLES
    stored,       \* session -> its document in renewal_sessions, or Nothing
    vendor,       \* session -> the provider sessions started for it
    shown,        \* provider session -> the states it has shown so far
    granted,      \* TRUE while Platform grants the renewal operations
    bound,        \* TRUE while a provider binding is configured
    op            \* process -> the request it is handling

renewalVars == <<stored, vendor, shown, granted, bound, op>>

RenewalState == {"VERIFYING", "WAITING_USER", "SUCCEEDED", "FAILED", "EXPIRED", "CANCELLED"}
Open == {"WAITING_USER", "VERIFYING"}
Reason == {"none", "start_pending", "start_outcome_unknown", "status_lookup_unavailable",
           "status_unavailable", "binding_unavailable", "start_rejected"}

\* What the vendor calls its states.
VendorState == {"starting", "waiting_user", "succeeded", "failed", "expired", "cancelled", "unknown"}

Idle == [pc |-> "idle"]

\* A provider session is named by the request id it was started with.
ProviderRef == Session \X {"same", "fresh"}

Document == [state : RenewalState, ref : ProviderRef \cup {Nothing}, reason : Reason]

ASSUME RenewalAssumption == Nothing \notin ProviderRef /\ Nothing \notin Document

RenewalInit ==
    /\ stored = [s \in Session |-> Nothing]
    /\ vendor = [s \in Session |-> {}]
    /\ shown = [x \in ProviderRef |-> {}]
    /\ granted = TRUE
    /\ bound = TRUE
    /\ op = [p \in Process |-> Idle]

----------------------------------------------------------------------------
(* The vendor's side.                                                       *)

\* The latest of the states a provider session has shown.
Now(x) ==
    IF shown[x] \ {"starting", "waiting_user", "unknown"} # {}
      THEN CHOOSE v \in shown[x] \ {"starting", "waiting_user", "unknown"} : TRUE
      ELSE IF "waiting_user" \in shown[x] THEN "waiting_user" ELSE "starting"

\* The user scans, confirms or lets the session run out.
VendorMoves(x, to) ==
    /\ shown[x] # {}
    /\ \/ Now(x) = "starting" /\ to \in {"waiting_user", "failed"}
       \/ Now(x) = "waiting_user" /\ to \in {"succeeded", "expired", "cancelled"}
    /\ shown' = [shown EXCEPT ![x] = @ \cup {to}]
    /\ UNCHANGED <<stored, vendor, granted, bound, op>>

ToRenewalStateGuess(v) ==
    CASE v = "waiting_user" -> "WAITING_USER" [] v \in {"succeeded", "unknown"} -> "SUCCEEDED"
      [] v = "failed" -> "FAILED" [] v = "expired" -> "EXPIRED" [] v = "cancelled" -> "CANCELLED"
      [] OTHER -> "VERIFYING"

\* The states a vendor answers with, as the Product's.  A state the vendor
\* does not know is still being verified.
ToRenewalState(v) ==
    CASE v = "waiting_user" -> "WAITING_USER" [] v = "succeeded" -> "SUCCEEDED"
      [] v = "failed" -> "FAILED" [] v = "expired" -> "EXPIRED" [] v = "cancelled" -> "CANCELLED"
      [] OTHER -> "VERIFYING"

----------------------------------------------------------------------------
(* The stored session.  Its idempotency record is a copy, written with it.  *)

Put(s, d) == stored' = [stored EXCEPT ![s] = d]

\* The intent is committed before any provider call.
Intent == [state |-> "VERIFYING", ref |-> Nothing, reason |-> "start_pending"]

\* A provider session answered the start: whatever the state is by now, it
\* becomes what the answer says, unless another provider session was bound.
CompleteStart(s, x, state) ==
    /\ stored[s].ref \in {Nothing, x}
    /\ Put(s, [state |-> state, ref |-> x, reason |-> "none"])

\* An ambiguous start leaves the state alone, and a bound session everything.
MarkStartUnknown(s, reason) ==
    Put(s, IF stored[s].ref # Nothing THEN stored[s] ELSE [stored[s] EXCEPT !.reason = reason])

\* A definite refusal ends a session that is not bound.
FailStart(s) ==
    Put(s, IF stored[s].ref # Nothing \/ stored[s].state = "FAILED" THEN stored[s]
           ELSE [stored[s] EXCEPT !.state = "FAILED", !.reason = "start_rejected"])

\* A poll's answer replaces the state; it binds the session it is about.
UpdateStatus(s, x, state, reason) ==
    /\ x # Nothing \/ stored[s].ref # Nothing
    /\ x = Nothing \/ stored[s].ref \in {Nothing, x}
    /\ Put(s, [state |-> state, ref |-> IF x # Nothing THEN x ELSE stored[s].ref, reason |-> reason])

MarkStatusUnavailable(s) == Put(s, [stored[s] EXCEPT !.reason = "status_lookup_unavailable"])

----------------------------------------------------------------------------
(* POST renewal-sessions.                                                   *)

RestartablePending(d) ==
    \/ d.reason = "binding_unavailable"
    \/ bound /\ d.state = "VERIFYING" /\ d.reason \in {"start_pending", "start_outcome_unknown"}

\* A session whose start has no answer is started again by the same key, if
\* the deployment has its binding.
Restartable(d) ==
    \/ d.reason = "binding_unavailable"
    \/ /\ bound
       /\ d.state = "VERIFYING"
       /\ d.reason \in {"start_pending", "start_outcome_unknown", "status_lookup_unavailable"}

\* The connection and its profile are looked up, then the intent is stored or
\* found by its key.
BeginSession(p, s) ==
    /\ op[p] = Idle
    /\ \/ /\ stored[s] = Nothing
          /\ Put(s, Intent)
          /\ op' = [op EXCEPT ![p] = [pc |-> "start", s |-> s]]
       \/ /\ stored[s] # Nothing
          /\ op' = [op EXCEPT ![p] = IF Restartable(stored[s]) THEN [pc |-> "start", s |-> s] ELSE Idle]
          /\ UNCHANGED stored
    /\ UNCHANGED <<vendor, shown, granted, bound>>

NoBinding(p) ==
    /\ op[p].pc = "start"
    /\ ~bound
    /\ MarkStartUnknown(op[p].s, "binding_unavailable")
    /\ op' = [op EXCEPT ![p] = Idle]
    /\ UNCHANGED <<vendor, shown, granted, bound>>

StartRequestFresh(p) == <<op[p].s, IF vendor[op[p].s] = {} THEN "same" ELSE "fresh">>

\* The request id of a start is the session's own reference.
StartRequest(p) == <<op[p].s, "same">>

\* The connection is read again and its grant fetched before the call; the
\* vendor starts one session for a request id however often it is asked.
StartRenewal(p) ==
    /\ op[p].pc = "start"
    /\ bound
    /\ LET s == op[p].s
           x == StartRequest(p)
       IN  \/ /\ ~granted
              /\ op' = [op EXCEPT ![p] = [pc |-> "deny", s |-> s]]
              /\ UNCHANGED <<vendor, shown>>
           \/ /\ granted                      \* refused, or lost on its way
              /\ \E pc \in {"lost"} \cup (IF x \in vendor[s] THEN {} ELSE {"deny"}) :
                   op' = [op EXCEPT ![p] = [pc |-> pc, s |-> s]]
              /\ UNCHANGED <<vendor, shown>>
           \/ /\ granted
              /\ vendor' = [vendor EXCEPT ![s] = @ \cup {x}]
              /\ shown' = IF x \in vendor[s] THEN shown ELSE [shown EXCEPT ![x] = {"starting"}]
              /\ \/ op' = [op EXCEPT ![p] = [pc |-> "lost", s |-> s]]
                 \/ op' = [op EXCEPT ![p] = [pc |-> "started", s |-> s, ref |-> x,
                              state |-> ToRenewalState(IF x \in vendor[s] THEN Now(x) ELSE "starting")]]
    /\ UNCHANGED <<stored, granted, bound>>

StartAnswered(p) ==
    /\ op[p].pc = "started"
    /\ CompleteStart(op[p].s, op[p].ref, op[p].state)
    /\ op' = [op EXCEPT ![p] = Idle]
    /\ UNCHANGED <<vendor, shown, granted, bound>>

StartDenied(p) ==
    /\ op[p].pc = "deny"
    /\ FailStart(op[p].s)
    /\ op' = [op EXCEPT ![p] = Idle]
    /\ UNCHANGED <<vendor, shown, granted, bound>>

StartLost(p) ==
    /\ op[p].pc = "lost"
    /\ MarkStartUnknown(op[p].s, "start_outcome_unknown")
    /\ op' = [op EXCEPT ![p] = Idle]
    /\ UNCHANGED <<vendor, shown, granted, bound>>

----------------------------------------------------------------------------
(* GET renewal-sessions.                                                    *)

\* A bound session is polled while it is open, an unbound one only after an
\* ambiguous start, by the request id of the start.
Pollable(d) ==
    /\ d.state \in Open
    /\ d.ref # Nothing \/ (d.state = "VERIFYING" /\ d.reason = "start_outcome_unknown")

GetSession(p, s) ==
    /\ op[p] = Idle
    /\ bound
    /\ stored[s] # Nothing
    /\ Pollable(stored[s])
    /\ op' = [op EXCEPT ![p] = [pc |-> "poll", s |-> s, seen |-> stored[s]]]
    /\ UNCHANGED <<stored, vendor, shown, granted, bound>>

\* The session a poll asks the vendor for.
Polled(p) == IF op[p].seen.ref # Nothing THEN op[p].seen.ref ELSE <<op[p].s, "same">>

\* The vendor answers with the state of now; a session it does not know, a
\* missing grant and a broken call are one and the same.
PollStatus(p) ==
    /\ op[p].pc = "poll"
    /\ \/ /\ granted
          /\ Polled(p) \in vendor[op[p].s]
          /\ \E v \in {Now(Polled(p)), "unknown"} :
               op' = [op EXCEPT ![p] = [pc |-> "polled", s |-> op[p].s, ref |-> Polled(p),
                                        state |-> ToRenewalState(v)]]
       \/ op' = [op EXCEPT ![p].pc = "blind"]
    /\ UNCHANGED <<stored, vendor, shown, granted, bound>>

PollAnswered(p) ==
    /\ op[p].pc = "polled"
    /\ UpdateStatus(op[p].s, op[p].ref, op[p].state, "none")
    /\ op' = [op EXCEPT ![p] = Idle]
    /\ UNCHANGED <<vendor, shown, granted, bound>>

\* A failed poll of a bound session writes back what the handler read before
\* the call, with another reason.
PollFailed(p) ==
    /\ op[p].pc = "blind"
    /\ IF op[p].seen.ref = Nothing
         THEN MarkStatusUnavailable(op[p].s)
         ELSE UpdateStatus(op[p].s, Nothing, op[p].seen.state, "status_unavailable")
    /\ op' = [op EXCEPT ![p] = Idle]
    /\ UNCHANGED <<vendor, shown, granted, bound>>

----------------------------------------------------------------------------
(* Around them.                                                             *)

ProcessDies(p) ==
    /\ op[p] # Idle
    /\ op' = [op EXCEPT ![p] = Idle]
    /\ UNCHANGED <<stored, vendor, shown, granted, bound>>

\* Platform withdraws a grant for a while; a deployment comes up without the
\* provider binding, or with it.
GrantChanges == granted' = ~granted /\ UNCHANGED <<stored, vendor, shown, bound, op>>
BindingChanges ==
    /\ op = [p \in Process |-> Idle]
    /\ bound' = ~bound
    /\ UNCHANGED <<stored, vendor, shown, granted, op>>

Renew(p) ==
    \/ NoBinding(p) \/ StartRenewal(p) \/ StartAnswered(p) \/ StartDenied(p) \/ StartLost(p)
    \/ PollStatus(p) \/ PollAnswered(p) \/ PollFailed(p)

RenewalNext ==
    \/ \E p \in Process, s \in Session : BeginSession(p, s) \/ GetSession(p, s)
    \/ \E p \in Process : Renew(p) \/ ProcessDies(p)
    \/ \E x \in ProviderRef, v \in VendorState : VendorMoves(x, v)
    \/ GrantChanges \/ BindingChanges

RenewalSpec == RenewalInit /\ [][RenewalNext]_renewalVars

\* A client that keeps polling and, where polling has ended, repeats its POST;
\* a vendor that answers in the end; a process that does not always die first.
StartSucceeds(p) == op[p].pc = "start" /\ StartRenewal(p) /\ op'[p].pc = "started"
PollSucceeds(p) ==
    /\ op[p].pc = "poll" /\ PollStatus(p) /\ op'[p].pc = "polled"
    /\ op'[p].state = ToRenewalState(Now(Polled(p)))
OutcomeStored(p) ==
    op[p].pc = "polled" /\ op[p].state = ToRenewalState(Now(op[p].ref)) /\ PollAnswered(p)
RenewalFairness(p) ==
    /\ \A s \in Session : SF_renewalVars(BeginSession(p, s)) /\ SF_renewalVars(GetSession(p, s))
    /\ WF_renewalVars(Renew(p))
    /\ SF_renewalVars(StartSucceeds(p)) /\ SF_renewalVars(StartAnswered(p))
    /\ SF_renewalVars(PollSucceeds(p)) /\ SF_renewalVars(OutcomeStored(p))

----------------------------------------------------------------------------
(* Properties.                                                              *)

\* The types; and a session the vendor has answered for names its provider
\* session.
RenewalTypeOK ==
    /\ stored \in [Session -> Document \cup {Nothing}]
    /\ \A s \in Session :
          stored[s] # Nothing /\ stored[s].ref = Nothing => stored[s].state \in {"VERIFYING", "FAILED"}
    /\ \A s \in Session : vendor[s] \subseteq ProviderRef
    /\ \A x \in ProviderRef : shown[x] \subseteq VendorState

\* However often a start is repeated, after lost answers, crashes or beside
\* another process, the vendor has one session for a Product session.
OneProviderSession == \A s \in Session : Cardinality(vendor[s]) <= 1

\* A bound session that is stored as over is over at its vendor, in the same
\* way: polls that answer out of order, or not at all, invent no outcome.
OutcomeWasReached ==
    \A s \in Session :
        stored[s] # Nothing /\ stored[s].ref # Nothing /\ stored[s].state \notin Open =>
            ToRenewalState(Now(stored[s].ref)) = stored[s].state

Rejected(s) == stored[s].state = "FAILED" /\ stored[s].ref = Nothing
VendorOver(s) == \E x \in vendor[s] : Now(x) \notin {"starting", "waiting_user"}

\* A session is settled by the vendor's outcome, or by a start the code took
\* for refused; the latter also when the vendor has carried it out, as a 4xx
\* after the start reached it is stored as FAILED.
Settled(s) ==
    \/ Rejected(s)
    \/ \E x \in vendor[s] : stored[s].ref = x /\ stored[s].state = ToRenewalState(Now(x))

\* An outcome arrives: a client that keeps asking, with its key and with its
\* session, gets the vendor's outcome, or a refusal stored for it, however often a lost start, a crash, a
\* late answer or a failed poll has put an older state back.
RenewalConverges ==
    <>[](granted /\ bound) =>
        \A s \in Session : (stored[s] # Nothing /\ VendorOver(s)) ~> (stored[s] # Nothing /\ Settled(s))
=============================================================================
