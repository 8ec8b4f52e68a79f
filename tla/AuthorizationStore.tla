------------------------- MODULE AuthorizationStore -------------------------
(***************************************************************************)
(* The tables behind authorization monitoring, notifications, email        *)
(* delivery and cloud refresh (integrations/store.py), and every           *)
(* transaction on them.                                                    *)
(*                                                                         *)
(* A notification is known by its dedupe_key, a tuple                      *)
(*     <<stage, connection, a, b>>                                         *)
(* where a, b are the generation and the reminder bucket, the two          *)
(* fingerprints of a changed cloud resource, or the sequence number of the *)
(* notification whose mail failed.  A claim's lease is a flag that may     *)
(* fall at any time; available_at and next_check_at only delay a claim.    *)
(* Time is counted in reminder intervals (_REMINDER_INTERVAL_SECONDS).     *)
(***************************************************************************)
EXTENDS Integers, Sequences

CONSTANTS
    Connection,    \* enabled connections
    RefreshKey,    \* idempotency keys of cloud refreshes, one per request
    Worker,        \* AuthorizationCloudRunner processes
    Nobody,        \* claim_owner IS NULL
    Gone,          \* a claim owner whose process has died
    Fingerprint,   \* states of the cloud resource of a connection
    MaxGen,        \* bound: authorization generations
    MaxNotes       \* bound: notifications in the feed

ASSUME AuthorizationAssumption ==
    /\ MaxGen \in Nat /\ MaxNotes \in Nat \ {0}
    /\ Fingerprint \subseteq Nat \ {0}
    /\ Nobody \notin Worker /\ Gone \notin Worker /\ Nobody # Gone

VARIABLES
    checks,   \* authorization_monitor_state
    health,   \* newest row of authorization_observations per connection
    feed,     \* integration_notifications in the order of their sequence
    mails,    \* email_notification_outbox, by notification sequence
    refresh,  \* cloud_refresh_operations with cloud_refresh_outbox
    clouds    \* newest cloud_resource_observation per connection, 0: none

storeVars == <<checks, health, feed, mails, refresh, clouds>>

-----------------------------------------------------------------------------
Owner == Worker \cup {Nobody, Gone}
Claim == [owner : Owner, fence : Nat, live : BOOLEAN]
FreeClaim == [owner |-> Nobody, fence |-> 0, live |-> FALSE]

\* What a provider observation amounts to: REAUTHORIZATION_REQUIRED, a
\* missing login, unavailable, an expiry within a day or an hour, or none
\* of these.
ObservationKind == {"required", "missing", "unavailable", "24h", "1h", "valid"}
Observation == [kind : ObservationKind, gen : 0..MaxGen]
NotObserved == [kind |-> "none", gen |-> 0]
Invalidated(o) == o.kind \in {"required", "missing"}

Stage == {"required", "unavailable", "24h", "1h", "cloud", "rejected", "unknown"}
NoteKey == Stage \X Connection \X Nat \X Nat
Note == [key : NoteKey, at : Nat, acked : BOOLEAN]
NoDraft == {}
DeliveryFailed == {"rejected", "unknown"}

MailTerminal == {"ACCEPTED", "UNKNOWN", "REJECTED"}
MailState == {"NONE", "READY", "CLAIMED", "SENDING"} \cup MailTerminal
RefreshTerminal == {"SUCCEEDED", "FAILED", "UNKNOWN"}
RefreshState == {"ABSENT", "QUEUED", "RUNNING"} \cup RefreshTerminal

Notes == 1..MaxNotes

StoreTypeOK ==
    /\ checks \in [Connection -> Claim]
    /\ health \in [Connection -> Observation \cup {NotObserved}]
    /\ feed \in Seq(Note) /\ Len(feed) <= MaxNotes
    /\ mails \in [Notes -> [st : MailState, claim : Claim]]
    /\ refresh \in [RefreshKey -> [st : RefreshState, on : Connection, claim : Claim]]
    /\ clouds \in [Connection -> Fingerprint \cup {0}]

NewMail == [st |-> "READY", claim |-> FreeClaim]
NoMail == [st |-> "NONE", claim |-> FreeClaim]

StoreInit ==
    /\ checks = [c \in Connection |-> FreeClaim]
    /\ health = [c \in Connection |-> NotObserved]
    /\ feed = <<>>
    /\ mails = [i \in Notes |-> NoMail]
    /\ refresh \in [RefreshKey -> {[st |-> "ABSENT", on |-> c, claim |-> FreeClaim] :
                                   c \in Connection}]
    /\ clouds = [c \in Connection |-> 0]

-----------------------------------------------------------------------------
(* Claims.                                                                  *)

Claimable(cl) == cl.owner = Nobody \/ ~cl.live
Claimed(cl, w) == [owner |-> w, fence |-> cl.fence + 1, live |-> TRUE]
Released(cl) == [cl EXCEPT !.owner = Nobody, !.live = FALSE]
Holds(cl, w, fence) == cl.owner = w /\ cl.fence = fence

\* lease_expires_at passes.
LeasePasses ==
    \/ \E c \in Connection :
          /\ checks[c].live
          /\ checks' = [checks EXCEPT ![c].live = FALSE]
          /\ UNCHANGED <<health, feed, mails, refresh, clouds>>
    \/ \E k \in RefreshKey :
          /\ refresh[k].claim.live
          /\ refresh' = [refresh EXCEPT ![k].claim.live = FALSE]
          /\ UNCHANGED <<checks, health, feed, mails, clouds>>
    \/ \E i \in Notes :
          /\ mails[i].claim.live
          /\ mails' = [mails EXCEPT ![i].claim.live = FALSE]
          /\ UNCHANGED <<checks, health, feed, refresh, clouds>>

-----------------------------------------------------------------------------
(* Notifications.                                                           *)

Known(key) == \E i \in DOMAIN feed : feed[i].key = key

\* _insert_notification: nothing for a known dedupe_key; otherwise the next
\* sequence number and, with a recipient, a READY mail in one transaction.
\* draft holds the key to insert, if any.
Insert(draft, now, mailed, mailTable) ==
    \/ /\ \A key \in draft : Known(key)
       /\ feed' = feed
       /\ mails' = mailTable
    \/ \E key \in draft :
          /\ ~Known(key)
          /\ Len(feed) < MaxNotes
          /\ feed' = Append(feed, [key |-> key, at |-> now, acked |-> FALSE])
          /\ mails' = IF mailed THEN [mailTable EXCEPT ![Len(feed) + 1] = NewMail]
                      ELSE mailTable

\* latest_notification_for_monitor: the newest notification of an incident
\* (and stage), if any.
Incident(stage, c, gen) ==
    {i \in DOMAIN feed : /\ feed[i].key[1] = stage
                         /\ feed[i].key[2] = c
                         /\ feed[i].key[3] = gen}
LatestNote(stage, c, gen) ==
    {i \in Incident(stage, c, gen) : \A j \in Incident(stage, c, gen) : j <= i}

\* acknowledge_notification.
AcknowledgeNotification(i) ==
    /\ i \in DOMAIN feed
    /\ ~feed[i].acked
    /\ feed' = [feed EXCEPT ![i].acked = TRUE]
    /\ UNCHANGED <<checks, health, mails, refresh, clouds>>

-----------------------------------------------------------------------------
(* Authorization checks.                                                    *)

\* claim_authorization_checks with limit 1.
ClaimCheck(w, c) ==
    /\ Claimable(checks[c])
    /\ checks' = [checks EXCEPT ![c] = Claimed(@, w)]
    /\ UNCHANGED <<health, feed, mails, refresh, clouds>>

\* Mutant: the fence of the claim is not compared.
CompleteCheckUnfenced(w, c, fence, obs, newest, draft, mailed, now) ==
    /\ checks' = [checks EXCEPT ![c] = Released(@)]
    /\ health' = [health EXCEPT ![c] = IF newest THEN obs ELSE @]
    /\ Insert(draft, now, mailed, mails)
    /\ UNCHANGED <<refresh, clouds>>

\* complete_authorization_check: the observation, the alert and the released
\* claim in one transaction.  lease_expires_at is compared with the moment of
\* the claim itself and so never refuses.  newest: by checked_at, which the
\* provider reports.
CompleteCheck(w, c, fence, obs, newest, draft, mailed, now) ==
    /\ Holds(checks[c], w, fence)
    /\ checks' = [checks EXCEPT ![c] = Released(@)]
    /\ health' = [health EXCEPT ![c] = IF newest THEN obs ELSE @]
    /\ Insert(draft, now, mailed, mails)
    /\ UNCHANGED <<refresh, clouds>>

\* release_authorization_check.
ReleaseCheck(w, c, fence) ==
    /\ Holds(checks[c], w, fence)
    /\ checks' = [checks EXCEPT ![c] = Released(@)]
    /\ UNCHANGED <<health, feed, mails, refresh, clouds>>

-----------------------------------------------------------------------------
(* Cloud refresh.                                                           *)

\* enqueue_cloud_refresh: a known key returns the operation it made.
EnqueueCloudRefresh(k) ==
    /\ refresh' = [refresh EXCEPT ![k].st = IF @ = "ABSENT" THEN "QUEUED" ELSE @]
    /\ UNCHANGED <<checks, health, feed, mails, clouds>>

\* claim_cloud_refresh.
ClaimRefresh(w, k) ==
    /\ refresh[k].st \in {"QUEUED", "RUNNING"}
    /\ Claimable(refresh[k].claim)
    /\ refresh' = [refresh EXCEPT ![k] = [st |-> "RUNNING", on |-> @.on,
                                          claim |-> Claimed(@.claim, w)]]
    /\ UNCHANGED <<checks, health, feed, mails, clouds>>

\* The notification of a changed fingerprint.
CloudChange(c, fp) ==
    IF clouds[c] \in {0, fp} THEN NoDraft ELSE {<<"cloud", c, clouds[c], fp>>}

\* complete_cloud_refresh; fp = 0: no observation (FAILED or UNKNOWN).
CompleteRefresh(w, k, fence, st, fp, mailed, now) ==
    LET c == refresh[k].on
    IN  /\ Holds(refresh[k].claim, w, fence)
        /\ refresh' = [refresh EXCEPT ![k] = [st |-> st, on |-> c,
                                              claim |-> Released(@.claim)]]
        /\ clouds' = [clouds EXCEPT ![c] = IF fp = 0 THEN @ ELSE fp]
        /\ Insert(IF fp = 0 THEN NoDraft ELSE CloudChange(c, fp), now, mailed, mails)
        /\ UNCHANGED <<checks, health>>

\* release_cloud_refresh_claim.
ReleaseRefresh(w, k, fence) ==
    /\ Holds(refresh[k].claim, w, fence)
    /\ refresh' = [refresh EXCEPT ![k] = [st |-> "QUEUED", on |-> @.on,
                                          claim |-> Released(@.claim)]]
    /\ UNCHANGED <<checks, health, feed, mails, clouds>>

-----------------------------------------------------------------------------
(* Mail.                                                                    *)

\* Mutant: an expired send may be sent again.
RecoveredMailReady(m) ==
    IF m.st \in {"CLAIMED", "SENDING"} /\ ~m.claim.live
    THEN [st |-> "READY", claim |-> Released(m.claim)] ELSE m

\* claim_email_notification begins by ending expired claims: nothing left
\* the process for a CLAIMED mail, a SENDING one may have been sent.
RecoveredMail(m) ==
    IF m.st \in {"CLAIMED", "SENDING"} /\ ~m.claim.live
    THEN [st |-> IF m.st = "CLAIMED" THEN "READY" ELSE "UNKNOWN",
          claim |-> Released(m.claim)]
    ELSE m

Recovered == [i \in Notes |-> RecoveredMail(mails[i])]
ReadyMails == {i \in Notes : Recovered[i].st = "READY"}

\* claim_email_notification: recovery, then the READY mail whose turn it is;
\* the recovery commits when there is none.
ClaimMail(w, i) ==
    /\ i \in ReadyMails
    /\ mails' = [Recovered EXCEPT ![i] = [st |-> "CLAIMED", claim |-> Claimed(@.claim, w)]]
    /\ UNCHANGED <<checks, health, feed, refresh, clouds>>

ClaimNoMail ==
    /\ ReadyMails = {}
    /\ mails' = Recovered
    /\ UNCHANGED <<checks, health, feed, refresh, clouds>>

MailHeld(i, st, fence) == mails[i].st = st /\ mails[i].claim.fence = fence

\* mark_email_sending: SENDING is persisted before any network call.
MarkSending(i, fence) ==
    /\ MailHeld(i, "CLAIMED", fence)
    /\ mails' = [mails EXCEPT ![i].st = "SENDING"]
    /\ UNCHANGED <<checks, health, feed, refresh, clouds>>

\* release_email_claim and release_email_send_before_provider.
ReleaseMail(i, st, fence) ==
    /\ MailHeld(i, st, fence)
    /\ mails' = [mails EXCEPT ![i] = [st |-> "READY", claim |-> Released(@.claim)]]
    /\ UNCHANGED <<checks, health, feed, refresh, clouds>>

\* finish_email_notification: a failed delivery enters the feed, unmailed.
FinishMail(i, fence, st, now) ==
    LET done == [mails EXCEPT ![i] = [st |-> st, claim |-> Released(@.claim)]]
        note == IF st = "REJECTED" THEN "rejected" ELSE "unknown"
    IN  /\ MailHeld(i, "SENDING", fence)
        /\ Insert(IF st = "ACCEPTED" THEN NoDraft
                  ELSE {<<note, feed[i].key[2], i, 0>>}, now, FALSE, done)
        /\ UNCHANGED <<checks, health, refresh, clouds>>

\* request_notification_email_delivery: one job per notification, none for
\* a notification about a failed delivery.
RequestDelivery(i) ==
    /\ i \in DOMAIN feed
    /\ feed[i].key[1] \notin DeliveryFailed
    /\ mails' = [mails EXCEPT ![i] = IF @.st = "NONE" THEN NewMail ELSE @]
    /\ UNCHANGED <<checks, health, feed, refresh, clouds>>

\* A process dies; its claims keep their fence and lease.
OwnerDies(w) ==
    LET Bereft(cl) == IF cl.owner = w THEN [cl EXCEPT !.owner = Gone] ELSE cl
    IN  /\ checks' = [c \in Connection |-> Bereft(checks[c])]
        /\ refresh' = [k \in RefreshKey |-> [refresh[k] EXCEPT !.claim = Bereft(@)]]
        /\ mails' = [i \in Notes |-> [mails[i] EXCEPT !.claim = Bereft(@)]]
        /\ UNCHANGED <<health, feed, clouds>>
=============================================================================
