---------------------- MODULE AuthorizationCloudRunner ----------------------
(***************************************************************************)
(* The workers of integrations/authorization_cloud.py over the tables of   *)
(* AuthorizationStore, the host that starts and drains them (server.py),   *)
(* the REST handlers that meet them, and the providers they call.          *)
(*                                                                         *)
(* One cycle is run_once: a check, a refresh, a mail, all with the moment  *)
(* read at its start.  pc names where a worker stands; a claim is taken in *)
(* two steps because the drain flag is read before the transaction and     *)
(* both happen under _claim_gate.                                          *)
(***************************************************************************)
EXTENDS AuthorizationStore

CONSTANTS
    Scenes     \* the situations to explore; see scene

ASSUME ScenesAssumption ==
    \A s \in Scenes :
        /\ s.kinds \subseteq ObservationKind /\ s.mailed \in BOOLEAN
        /\ s.keys \subseteq RefreshKey
        /\ s.workers \subseteq Worker /\ s.dies \subseteq s.workers
        /\ s.until \in Nat /\ s.checks \in Nat /\ s.claims \in Nat

VARIABLES
    scene,     \* fixed by Init: what providers report (kinds), whether owners
               \* have a mail recipient (mailed), which refreshes are asked for
               \* (keys), which processes exist (workers), are shut down (stops)
               \* or die (dies), and three bounds: the clock (until), the claims
               \* of a connection (checks) and of another row (claims)
    clock,     \* reminder intervals since the start
    wk,        \* wk[w]: what worker w holds in its local variables
    host,      \* host[w]: the app that hosts w
    asked,     \* refresh requests past their health check, not yet queued
    world,     \* world[i]: how often the mail of notification i was sent
    doubts     \* doubts[i]: typed answers that could not exclude a send

vars == <<storeVars, scene, clock, wk, host, asked, world, doubts>>
outside == <<scene, clock, asked, world, doubts>>

-----------------------------------------------------------------------------
GatePc == {"check gate", "refresh gate", "mail gate"}
CheckPc == {"check claimed", "check read", "check admit", "check call",
            "check draft", "check done"}
RefreshPc == {"refresh claimed", "refresh health", "refresh admit",
              "refresh call", "refresh done"}
MailPc == {"mail claimed", "mail granted", "mail sending", "mail admitted",
           "mail verified", "mail call", "mail back", "mail done"}
Pc == {"top", "check", "refresh", "mail", "exited", "failed", "over"}
        \cup GatePc \cup CheckPc \cup RefreshPc \cup MailPc

\* row: the claimed row of one of the three tables; out: the state to store;
\* obs, draft: what a check is about to store; fp: an observed fingerprint.
NoRow == 0
Idle(pc, t) == [pc |-> pc, moment |-> t, row |-> NoRow, fence |-> 0, prev |-> NotObserved,
                obs |-> NotObserved, draft |-> NoDraft, out |-> "none", fp |-> 0]

HostState == {"running", "stopping", "stopped", "failed", "shutdown_timeout"}
\* drain: _draining; drained: begin_drain returned True; stop: stop_event;
\* joined: stop_runner is through.
FreshHost == [state |-> "running", drain |-> FALSE, drained |-> FALSE, stop |-> FALSE,
              joined |-> FALSE]

TypeOK ==
    /\ StoreTypeOK
    /\ scene \in Scenes
    /\ clock \in 0..scene.until
    /\ \A w \in Worker :
          /\ wk[w].pc \in Pc
          /\ wk[w].moment \in 0..clock
          /\ wk[w].row \in Connection \cup RefreshKey \cup Notes \cup {NoRow}
          /\ wk[w].draft \subseteq NoteKey
    /\ host \in [Worker -> [state : HostState, drain : BOOLEAN, drained : BOOLEAN,
                            stop : BOOLEAN, joined : BOOLEAN]]
    /\ asked \subseteq RefreshKey
    /\ world \in [Notes -> Nat] /\ doubts \in [Notes -> Nat]

Init ==
    /\ StoreInit
    /\ scene \in Scenes
    /\ clock = 0
    /\ wk = [w \in Worker |-> Idle(IF w \in scene.workers THEN "top" ELSE "over", 0)]
    /\ host = [w \in Worker |-> FreshHost]
    /\ asked = {}
    /\ world = [i \in Notes |-> 0]
    /\ doubts = [i \in Notes |-> 0]

-----------------------------------------------------------------------------
(* The shape of a cycle.                                                    *)

\* _drain_requested.
Draining(w) == host[w].drain \/ host[w].stop

Goto(w, pc) == wk' = [wk EXCEPT ![w].pc = pc]
\* A sub-step of the cycle ends; its locals are dropped.
Leave(w, pc) == wk' = [wk EXCEPT ![w] = Idle(pc, @.moment)]
\* IntegrationConflict leaves run_once and run_forever: the thread is over.
Raise(w) ==
    /\ wk' = [wk EXCEPT ![w] = Idle("failed", @.moment)]
    /\ UNCHANGED storeVars

\* run_forever and run_once: the next cycle, with one moment for all of it.
StartCycle(w) ==
    /\ wk[w].pc = "top"
    /\ wk' = [wk EXCEPT ![w] = IF Draining(w) THEN Idle("exited", clock)
                               ELSE Idle("check", clock)]
    /\ UNCHANGED <<storeVars, host, outside>>

\* A sub-step is entered only while no drain is requested, and the flag is
\* read once more under the gate.
EnterGate(w, from, gate, past) ==
    /\ wk[w].pc = from
    /\ IF Draining(w) THEN Leave(w, past) ELSE Goto(w, gate)
    /\ UNCHANGED <<storeVars, host, outside>>

\* _allow_provider_io.
Admit(w, from, to) ==
    /\ wk[w].pc = from
    /\ ~Draining(w)
    /\ Goto(w, to)
    /\ UNCHANGED <<storeVars, host, outside>>

-----------------------------------------------------------------------------
(* _run_authorization_checks                                                *)

TakeCheck(w) ==
    /\ wk[w].pc = "check gate"
    /\ \/ \E c \in Connection :
             /\ checks[c].fence < scene.checks
             /\ ClaimCheck(w, c)
             /\ wk' = [wk EXCEPT ![w] = [@ EXCEPT !.pc = "check claimed", !.row = c,
                                                  !.fence = checks[c].fence + 1]]
       \/ /\ Leave(w, "refresh")
          /\ UNCHANGED storeVars
    /\ UNCHANGED <<host, outside>>

\* Mutant: a drain leaves the cycle without giving the claim back.
DropCheck(w) ==
    /\ wk[w].pc \in {"check claimed", "check read", "check admit"}
    /\ Draining(w)
    /\ Leave(w, "refresh")
    /\ UNCHANGED <<storeVars, host, outside>>

\* A drain noticed anywhere before the provider call gives the claim back.
GiveCheckBack(w) ==
    /\ wk[w].pc \in {"check claimed", "check read", "check admit"}
    /\ Draining(w)
    /\ \/ ReleaseCheck(w, wk[w].row, wk[w].fence) /\ Leave(w, "refresh")
       \/ ~Holds(checks[wk[w].row], w, wk[w].fence) /\ Raise(w)
    /\ UNCHANGED <<host, outside>>

\* latest_authorization_health_for_monitor.
ReadPrevious(w) ==
    /\ wk[w].pc = "check claimed"
    /\ ~Draining(w)
    /\ wk' = [wk EXCEPT ![w] = [@ EXCEPT !.pc = "check read", !.prev = health[wk[w].row]]]
    /\ UNCHANGED <<storeVars, host, outside>>

\* _unavailable_health keeps the generation of the previous observation.
UnavailableHealth(w) == [kind |-> "unavailable", gen |-> wk[w].prev.gen]

\* _current_connection_principal: current authority, or none.
CheckAuthority(w) ==
    /\ wk[w].pc = "check read"
    /\ ~Draining(w)
    /\ \/ Goto(w, "check admit")
       \/ wk' = [wk EXCEPT ![w] = [@ EXCEPT !.pc = "check draft",
                                            !.obs = UnavailableHealth(w)]]
    /\ UNCHANGED <<storeVars, host, outside>>

\* authorization_health of the provider answers or fails.
CheckAnswers(w) ==
    /\ wk[w].pc = "check call"
    /\ \E o \in [kind : scene.kinds, gen : 0..MaxGen] \cup {UnavailableHealth(w)} :
          wk' = [wk EXCEPT ![w] = [@ EXCEPT !.pc = "check draft", !.obs = o]]
    /\ UNCHANGED <<storeVars, host, outside>>

\* A stage is announced once; while nobody acknowledges it, again after a
\* reminder interval under the number of intervals since the last notice.
StageDraft(stage, c, gen, now) ==
    LET latest == LatestNote(stage, c, gen)
        due == {i \in latest : ~feed[i].acked /\ now - feed[i].at >= 1}
    IN  IF latest = {} THEN {<<stage, c, gen, 0>>}
        ELSE {<<stage, c, gen, now - feed[i].at>> : i \in due}

\* Mutant: unavailability is looked at first and hides a known incident.
DraftUnavailableFirst(c, prev, cur, now) ==
    IF cur.kind = "unavailable" \/ prev.kind = "unavailable"
    THEN IF prev.kind = "unavailable" THEN NoDraft ELSE {<<"unavailable", c, cur.gen, 0>>}
    ELSE IF cur.kind = "valid" THEN NoDraft
         ELSE StageDraft(IF Invalidated(cur) THEN "required" ELSE cur.kind, c, cur.gen, now)

\* _authorization_notifications.
Draft(c, prev, cur, now) ==
    IF Invalidated(cur) THEN StageDraft("required", c, cur.gen, now)
    ELSE IF cur.kind = "unavailable"
         THEN IF prev.kind = "unavailable" THEN NoDraft ELSE {<<"unavailable", c, cur.gen, 0>>}
         ELSE IF cur.kind = "valid" THEN NoDraft
              ELSE StageDraft(cur.kind, c, cur.gen, now)

DraftCheck(w) ==
    LET k == wk[w]
    IN  /\ k.pc = "check draft"
        /\ wk' = [wk EXCEPT ![w] = [k EXCEPT !.pc = "check done",
                                             !.draft = Draft(k.row, k.prev, k.obs, k.moment)]]
        /\ UNCHANGED <<storeVars, host, outside>>

\* The recipient resolver may fail; a notification without mail is stored.
Mailed == {FALSE, scene.mailed}

\* A provider's observation may be older than the one stored.
FinishCheck(w) ==
    LET k == wk[w]
    IN  /\ k.pc = "check done"
        /\ \/ /\ \E newest \in {TRUE, k.obs.kind = "unavailable" \/ health[k.row] = NotObserved},
                    mailed \in Mailed :
                    CompleteCheck(w, k.row, k.fence, k.obs, newest, k.draft, mailed, k.moment)
              /\ Leave(w, "refresh")
           \/ ~Holds(checks[k.row], w, k.fence) /\ Raise(w)
        /\ UNCHANGED <<host, outside>>

-----------------------------------------------------------------------------
(* _run_cloud_refresh                                                       *)

TakeRefresh(w) ==
    /\ wk[w].pc = "refresh gate"
    /\ \/ \E k \in RefreshKey :
             /\ refresh[k].claim.fence < scene.claims
             /\ ClaimRefresh(w, k)
             /\ wk' = [wk EXCEPT ![w] = [@ EXCEPT !.pc = "refresh claimed", !.row = k,
                                                  !.fence = refresh[k].claim.fence + 1]]
       \/ /\ Leave(w, "mail")
          /\ UNCHANGED storeVars
    /\ UNCHANGED <<host, outside>>

GiveRefreshBack(w) ==
    /\ wk[w].pc \in {"refresh claimed", "refresh health", "refresh admit"}
    /\ Draining(w)
    /\ \/ ReleaseRefresh(w, wk[w].row, wk[w].fence) /\ Leave(w, "mail")
       \/ ~Holds(refresh[wk[w].row].claim, w, wk[w].fence) /\ Raise(w)
    /\ UNCHANGED <<host, outside>>

\* The state a refresh is to end in.
Conclude(w, st, fp) ==
    wk' = [wk EXCEPT ![w] = [@ EXCEPT !.pc = "refresh done", !.out = st, !.fp = fp]]

\* connection_for_cloud_refresh and _current_connection_principal.
RefreshAuthority(w) ==
    /\ wk[w].pc = "refresh claimed"
    /\ ~Draining(w)
    /\ Goto(w, "refresh health") \/ Conclude(w, "FAILED", 0)
    /\ UNCHANGED <<storeVars, host, outside>>

\* latest_authorization_health_for_connection: only a confirmed
\* reauthorization block stops the refresh.
RefreshHealth(w) ==
    /\ wk[w].pc = "refresh health"
    /\ ~Draining(w)
    /\ IF health[refresh[wk[w].row].on].kind = "required"
       THEN Conclude(w, "FAILED", 0) ELSE Goto(w, "refresh admit")
    /\ UNCHANGED <<storeVars, host, outside>>

\* cloud_resources of the provider answers or fails.
RefreshAnswers(w) ==
    /\ wk[w].pc = "refresh call"
    /\ \/ \E fp \in Fingerprint : Conclude(w, "SUCCEEDED", fp)
       \/ Conclude(w, "UNKNOWN", 0)
    /\ UNCHANGED <<storeVars, host, outside>>

FinishRefresh(w) ==
    LET k == wk[w]
    IN  /\ k.pc = "refresh done"
        /\ \/ /\ \E mailed \in Mailed :
                    CompleteRefresh(w, k.row, k.fence, k.out, k.fp, mailed, k.moment)
              /\ Leave(w, "mail")
           \/ /\ ~Holds(refresh[k.row].claim, w, k.fence)
              /\ Raise(w)
        /\ UNCHANGED <<host, scene, clock, asked, world, doubts>>

-----------------------------------------------------------------------------
(* _run_email_notification                                                  *)

TakeMail(w) ==
    /\ wk[w].pc = "mail gate"
    /\ \/ \E i \in Notes :
             /\ mails[i].claim.fence < scene.claims
             /\ ClaimMail(w, i)
             /\ wk' = [wk EXCEPT ![w] = [@ EXCEPT !.pc = "mail claimed", !.row = i,
                                                  !.fence = mails[i].claim.fence + 1]]
       \/ ClaimNoMail /\ Leave(w, "top")
    /\ UNCHANGED <<host, outside>>

\* Mutant: every release expects a claimed mail.
GiveClaimedMailBack(w, st) ==
    \/ ReleaseMail(wk[w].row, "CLAIMED", wk[w].fence) /\ Leave(w, "top")
    \/ ~MailHeld(wk[w].row, "CLAIMED", wk[w].fence) /\ Raise(w)

\* A release that finds its row taken over raises.
GiveMailBack(w, st) ==
    \/ ReleaseMail(wk[w].row, st, wk[w].fence) /\ Leave(w, "top")
    \/ ~MailHeld(wk[w].row, st, wk[w].fence) /\ Raise(w)

\* for_claimed_notification rereads the claimed row and asks for current
\* delivery authority; without it, or in a drain, the claim is released.
MailAuthority(w) ==
    /\ wk[w].pc = "mail claimed"
    /\ \/ /\ ~Draining(w)
          /\ MailHeld(wk[w].row, "CLAIMED", wk[w].fence)
          /\ Goto(w, "mail granted")
          /\ UNCHANGED storeVars
       \/ GiveMailBack(w, "CLAIMED")
    /\ UNCHANGED <<host, outside>>

\* A mark_email_sending that is refused ends the cycle quietly.
StartSending(w) ==
    /\ wk[w].pc = "mail granted"
    /\ \/ MarkSending(wk[w].row, wk[w].fence) /\ Goto(w, "mail sending")
       \/ /\ ~MailHeld(wk[w].row, "CLAIMED", wk[w].fence)
          /\ Leave(w, "top")
          /\ UNCHANGED storeVars
    /\ UNCHANGED <<host, outside>>

SendingStopped(w) ==
    /\ wk[w].pc = "mail sending"
    /\ Draining(w)
    /\ GiveMailBack(w, "SENDING")
    /\ UNCHANGED <<host, outside>>

\* send_notification, before any I/O: for_sending_notification rereads the
\* row; no row or no authority means EmailAuthorizationUnavailable.
VerifySending(w) ==
    /\ wk[w].pc = "mail admitted"
    /\ \/ MailHeld(wk[w].row, "SENDING", wk[w].fence) /\ Goto(w, "mail verified")
       \/ Goto(w, "mail back")
    /\ UNCHANGED <<storeVars, host, outside>>

\* Its second read of the row: a change raises PermissionError, which the
\* runner records as an unknown result.
VerifyJob(w) ==
    /\ wk[w].pc = "mail verified"
    /\ IF MailHeld(wk[w].row, "SENDING", wk[w].fence)
       THEN Goto(w, "mail call")
       ELSE wk' = [wk EXCEPT ![w] = [@ EXCEPT !.pc = "mail done", !.out = "UNKNOWN"]]
    /\ UNCHANGED <<storeVars, host, outside>>

\* What the mail adapter may have done and how it answers:
\* the submission status, a retryable typed error (nothing was sent), another
\* typed error, a typed error with an unknown outcome, or no answer at all.
MailOutcome ==
    {[answer |-> a, sent |-> n] : a \in {"UNKNOWN", "doubtful", "lost"}, n \in {0, 1}}
      \cup {[answer |-> "ACCEPTED", sent |-> 1], [answer |-> "REJECTED", sent |-> 0],
            [answer |-> "retryable", sent |-> 0], [answer |-> "refused", sent |-> 0]}

\* Mutant: the answer is stored as it comes.
AfterMailRaw(a) ==
    IF a \in {"retryable", "refused", "doubtful"} THEN <<"mail back", "none">>
    ELSE <<"mail done", a>>

\* send_notification and _call_email: every typed provider error leaves
\* _raise_provider_error as an exception that is neither
\* EmailDeliveryRetryableError nor IntegrationToolCallUnavailable and is
\* reported as missing authority, that is, as a failure before the send.
AfterMail(a) ==
    IF a \in {"retryable", "refused", "doubtful"} THEN <<"mail back", "none">>
    ELSE <<"mail done", IF a = "lost" THEN "UNKNOWN" ELSE a>>

Doubt(a) == IF a = "doubtful" THEN 1 ELSE 0

MailAnswers(w) ==
    /\ wk[w].pc = "mail call"
    /\ \E o \in MailOutcome :
          /\ world' = [world EXCEPT ![wk[w].row] = @ + o.sent]
          /\ doubts' = [doubts EXCEPT ![wk[w].row] = @ + Doubt(o.answer)]
          /\ wk' = [wk EXCEPT ![w] = [@ EXCEPT !.pc = AfterMail(o.answer)[1],
                                               !.out = AfterMail(o.answer)[2]]]
    /\ UNCHANGED <<storeVars, host, scene, clock, asked>>

ReturnMail(w) ==
    /\ wk[w].pc = "mail back"
    /\ GiveMailBack(w, "SENDING")
    /\ UNCHANGED <<host, outside>>

FinishSending(w) ==
    /\ wk[w].pc = "mail done"
    /\ \/ FinishMail(wk[w].row, wk[w].fence, wk[w].out, wk[w].moment) /\ Leave(w, "top")
       \/ ~MailHeld(wk[w].row, "SENDING", wk[w].fence) /\ Raise(w)
    /\ UNCHANGED <<host, outside>>

-----------------------------------------------------------------------------
(* The host: _attach_authorization_cloud_runner.                            *)

\* run_runner: how the thread ended.
ThreadEnds(w) ==
    /\ wk[w].pc \in {"exited", "failed"}
    /\ Goto(w, "over")
    /\ host' = [host EXCEPT ![w].state = IF wk[w].pc = "exited" /\ host[w].stop
                                         THEN "stopped" ELSE "failed"]
    /\ UNCHANGED <<storeVars, outside>>

\* stop_runner, first half: _draining is set, then the gate is awaited.
BeginDrain(w) ==
    /\ w \in scene.stops
    /\ ~host[w].drain
    /\ host' = [host EXCEPT ![w] = [@ EXCEPT !.state = "stopping", !.drain = TRUE]]
    /\ UNCHANGED <<storeVars, wk, outside>>

\* Mutant: the gate is not awaited.
DrainWithoutGate(w) ==
    /\ host[w].drain /\ ~host[w].stop
    /\ host' = [host EXCEPT ![w] = [@ EXCEPT !.stop = TRUE, !.drained = TRUE]]
    /\ UNCHANGED <<storeVars, wk, outside>>

\* begin_drain has the gate, or gives up on it; either way stop_event is set.
DrainReturns(w) ==
    /\ host[w].drain /\ ~host[w].stop
    /\ host' = [host EXCEPT ![w] = [@ EXCEPT !.stop = TRUE,
                                             !.drained = wk[w].pc \notin GatePc]]
    /\ UNCHANGED <<storeVars, wk, outside>>

\* stop_runner, second half: join within the deadline.
Join(w) ==
    /\ host[w].stop /\ ~host[w].joined
    /\ host' = [host EXCEPT ![w] = [@ EXCEPT
                   !.joined = TRUE,
                   !.state = IF wk[w].pc # "over" THEN "shutdown_timeout"
                             ELSE IF host[w].state = "failed" THEN "failed"
                             ELSE "stopped"]]
    /\ UNCHANGED <<storeVars, wk, outside>>

\* The process dies at any point and is started again.
Restart(w) ==
    /\ w \in scene.dies
    /\ OwnerDies(w)
    /\ wk' = [wk EXCEPT ![w] = Idle("top", clock)]
    /\ host' = [host EXCEPT ![w] = FreshHost]
    /\ UNCHANGED outside

-----------------------------------------------------------------------------
(* REST handlers and time.                                                  *)

\* refresh_connection_resources reads the health ...
AskRefresh(k) ==
    /\ k \in scene.keys /\ k \notin asked
    /\ ~Invalidated(health[refresh[k].on])
    /\ asked' = asked \cup {k}
    /\ UNCHANGED <<storeVars, scene, clock, wk, host, world, doubts>>

\* ... and queues the operation in a second transaction.
QueueRefresh(k) ==
    /\ k \in asked
    /\ EnqueueCloudRefresh(k)
    /\ asked' = asked \ {k}
    /\ UNCHANGED <<scene, clock, wk, host, world, doubts>>

\* acknowledge_notification and deliver_notification_email.
UserActs ==
    /\ \E i \in Notes : \/ AcknowledgeNotification(i)
                        \/ scene.mailed /\ RequestDelivery(i)
    /\ UNCHANGED <<wk, host, outside>>

Tick ==
    /\ clock < scene.until
    /\ clock' = clock + 1
    /\ UNCHANGED <<storeVars, scene, wk, host, asked, world, doubts>>

LeaseOver ==
    /\ LeasePasses
    /\ UNCHANGED <<wk, host, outside>>

-----------------------------------------------------------------------------
CheckStep(w) ==
    \/ EnterGate(w, "check", "check gate", "refresh") \/ TakeCheck(w) \/ GiveCheckBack(w)
    \/ ReadPrevious(w) \/ CheckAuthority(w) \/ Admit(w, "check admit", "check call")
    \/ CheckAnswers(w) \/ DraftCheck(w) \/ FinishCheck(w)

RefreshStep(w) ==
    \/ EnterGate(w, "refresh", "refresh gate", "mail") \/ TakeRefresh(w)
    \/ GiveRefreshBack(w) \/ RefreshAuthority(w) \/ RefreshHealth(w)
    \/ Admit(w, "refresh admit", "refresh call") \/ RefreshAnswers(w) \/ FinishRefresh(w)

MailStep(w) ==
    \/ EnterGate(w, "mail", "mail gate", "top") \/ TakeMail(w) \/ MailAuthority(w)
    \/ StartSending(w) \/ SendingStopped(w) \/ Admit(w, "mail sending", "mail admitted")
    \/ VerifySending(w) \/ VerifyJob(w) \/ MailAnswers(w) \/ ReturnMail(w) \/ FinishSending(w)

WorkerStep(w) == StartCycle(w) \/ CheckStep(w) \/ RefreshStep(w) \/ MailStep(w) \/ ThreadEnds(w)

HostStep(w) == DrainReturns(w) \/ Join(w)

Next ==
    \/ \E w \in Worker : WorkerStep(w) \/ HostStep(w) \/ BeginDrain(w) \/ Restart(w)
    \/ \E k \in RefreshKey : AskRefresh(k) \/ QueueRefresh(k)
    \/ UserActs \/ Tick \/ LeaseOver

Spec == Init /\ [][Next]_vars

-----------------------------------------------------------------------------
(* Properties.                                                              *)

\* An authorization known to be unusable has been announced: no order of
\* checks, late answers and lost leases stores the observation without its
\* incident.
IncidentsAnnounced ==
    \A c \in Connection :
        Invalidated(health[c]) => Known(<<"required", c, health[c].gen, 0>>)

\* Notices of one stage of one incident are a reminder interval apart, in the
\* order of the feed.
RemindersSpaced ==
    \A i, j \in DOMAIN feed :
        /\ i < j /\ feed[i].key[1] \in {"required", "24h", "1h"}
        /\ \A n \in 1..3 : feed[i].key[n] = feed[j].key[n]
        => feed[j].at - feed[i].at >= 1

\* A mail is sent again only after an answer of the adapter that called its
\* own outcome unknown; no crash, lost answer or lost lease repeats it.
MailNotRepeated == \A i \in Notes : world[i] <= 1 + doubts[i]

\* However a worker thread ends, drained or failed, it leaves no claim.
ThreadLeavesNothing ==
    \A w \in Worker : wk[w].pc = "over" =>
        /\ \A c \in Connection : checks[c].owner # w
        /\ \A k \in RefreshKey : refresh[k].claim.owner # w
        /\ \A i \in Notes : mails[i].claim.owner # w

\* With one process, the one app-owned worker of the host, no claim is ever
\* stale and the thread never fails.
LoneRunnerSurvives ==
    \A w \in Worker : scene.workers = {w} => wk[w].pc # "failed"

\* Once begin_drain has returned True the worker takes no claim and admits no
\* provider call.
QuietAfterDrain ==
    [][\A w \in Worker : host[w].drained /\ host'[w].drained =>
          /\ \A c \in Connection : checks'[c].owner = w => checks[c].owner = w
          /\ \A k \in RefreshKey : refresh'[k].claim.owner = w => refresh[k].claim.owner = w
          /\ \A i \in Notes : mails'[i].claim.owner = w => mails[i].claim.owner = w
          /\ wk'[w].pc = "mail admitted" => wk[w].pc = "mail admitted"]_vars

\* A mail goes out once ("A lost or ambiguous send becomes UNKNOWN and is not
\* automatically resent", docs/API.md).
OneMail == \A i \in Notes : world[i] <= 1
=============================================================================
