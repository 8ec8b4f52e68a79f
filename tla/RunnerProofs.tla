---------------------------- MODULE RunnerProofs ----------------------------
(***************************************************************************)
(* Proofs about AuthorizationCloudRunner: whatever connections, refreshes, *)
(* workers and scenes there are, claims, mails and notices behave as the   *)
(* runs on a small instance show.                                          *)
(*                                                                         *)
(* RunnerInv is the inductive invariant.  Its parts are                    *)
(*   Types      the types, with what a worker's pc says of its locals;     *)
(*   Owned      the owner of a claim stands where that claim is used and   *)
(*              remembers its row and fence;                               *)
(*   Sends      at most one worker is between SENDING and the stored       *)
(*              result of a mail, whoever may still send a mail knows that *)
(*              every earlier send is accounted for, and the fence of a    *)
(*              claim tells the workers that had it apart;                 *)
(*   Drained    a drained worker has left the gates for good;              *)
(*   Notices    what the draft of a finished check promises of the feed;   *)
(*   Lone       a worker without company holds every claim it uses.        *)
(***************************************************************************)
EXTENDS AuthorizationCloudRunner, SequenceTheorems, WellFoundedInduction, TLAPS

ClaimedPc == {"mail claimed", "mail granted"}
SendPc == {"mail sending", "mail admitted", "mail verified", "mail call",
           "mail back", "mail done"}
Between == {"top", "check", "refresh", "mail", "exited", "failed", "over"}
Reminded == {"required", "24h", "1h"}

Row == Connection \cup RefreshKey \cup Notes \cup {NoRow}
Seen == Observation \cup {NotObserved}
Out == {"none"} \cup RefreshTerminal \cup MailTerminal
Local == [pc : Pc, moment : Nat, row : Row, fence : Nat, prev : Seen, obs : Seen,
          draft : SUBSET NoteKey, out : Out, fp : Fingerprint \cup {0}]
MailRow == [st : MailState, claim : Claim]
RefreshRow == [st : RefreshState, on : Connection, claim : Claim]
Host == [state : HostState, drain : BOOLEAN, drained : BOOLEAN, stop : BOOLEAN,
         joined : BOOLEAN]

\* What the pc of a worker says of the type of its locals.
LocalOK(k) ==
    /\ k.pc \in CheckPc => k.row \in Connection
    /\ k.pc \in RefreshPc => k.row \in RefreshKey
    /\ k.pc \in MailPc => k.row \in Notes
    /\ k.pc \in {"check draft", "check done"} => k.obs \in Observation
    /\ k.pc = "refresh done" => k.out \in RefreshTerminal
    /\ k.pc = "mail done" => k.out \in MailTerminal

StoreTypes ==
    /\ checks \in [Connection -> Claim]
    /\ health \in [Connection -> Seen]
    /\ feed \in Seq(Note) /\ Len(feed) <= MaxNotes
    /\ mails \in [Notes -> MailRow]
    /\ refresh \in [RefreshKey -> RefreshRow]
    /\ clouds \in [Connection -> Fingerprint \cup {0}]
    /\ \A i \in Notes : mails[i].st # "NONE" => i <= Len(feed)

LocalTypes ==
    /\ wk \in [Worker -> Local]
    /\ \A w \in Worker : LocalOK(wk[w]) /\ wk[w].moment <= clock

OtherTypes ==
    /\ scene \in Scenes
    /\ clock \in Nat /\ clock <= scene.until
    /\ host \in [Worker -> Host]
    /\ asked \subseteq RefreshKey
    /\ world \in [Notes -> Nat] /\ doubts \in [Notes -> Nat]

Types == StoreTypes /\ LocalTypes /\ OtherTypes

\* The owner of a claim stands where the claim is used.
OwnsCheck(w, c) ==
    checks[c].owner = w =>
        wk[w].pc \in CheckPc /\ wk[w].row = c /\ wk[w].fence = checks[c].fence
OwnsRefresh(w, k) ==
    refresh[k].claim.owner = w =>
        wk[w].pc \in RefreshPc /\ wk[w].row = k /\ wk[w].fence = refresh[k].claim.fence
OwnsMail(w, i) ==
    mails[i].claim.owner = w =>
        /\ wk[w].row = i /\ wk[w].fence = mails[i].claim.fence
        /\ \/ wk[w].pc \in ClaimedPc /\ mails[i].st = "CLAIMED"
           \/ wk[w].pc \in SendPc /\ mails[i].st = "SENDING"
Owned ==
    \A w \in Worker :
        /\ \A c \in Connection : OwnsCheck(w, c)
        /\ \A k \in RefreshKey : OwnsRefresh(w, k)
        /\ \A i \in Notes : OwnsMail(w, i)

\* The mail of a sender is SENDING, or UNKNOWN after its lease; until its
\* answer is in, every send of that mail is matched by a doubtful answer.
Sender(w) ==
    wk[w].pc \in SendPc =>
        /\ mails[wk[w].row].st \in {"SENDING", "UNKNOWN"}
        /\ wk[w].pc # "mail done" => world[wk[w].row] <= doubts[wk[w].row]
OneSender(w, v) ==
    wk[w].pc \in SendPc /\ wk[v].pc \in SendPc /\ wk[w].row = wk[v].row => w = v
\* A worker with a claimed mail has its current fence only as its owner.
Claimant(w) ==
    wk[w].pc \in ClaimedPc =>
        /\ mails[wk[w].row].st # "NONE"
        /\ wk[w].fence <= mails[wk[w].row].claim.fence
        /\ wk[w].fence = mails[wk[w].row].claim.fence =>
              mails[wk[w].row].claim.owner \in {w, Nobody, Gone}
MailCount(i) ==
    /\ mails[i].st \in {"NONE", "READY", "CLAIMED"} => world[i] <= doubts[i]
    /\ world[i] <= 1 + doubts[i]
Sends ==
    /\ \A w \in Worker : Sender(w) /\ Claimant(w)
    /\ \A w, v \in Worker : OneSender(w, v)
    /\ \A i \in Notes : MailCount(i)

Drained ==
    \A w \in Worker : host[w].drained =>
        host[w].drain /\ host[w].stop /\ wk[w].pc \notin GatePc

FirstNotice(c, gen) == <<"required", c, gen, 0>>
SameStage(x, y) == x[1] = y[1] /\ x[2] = y[2] /\ x[3] = y[3]

\* What the draft of a finished check promises.
DraftKeys(k) ==
    /\ \A x, y \in k.draft : x = y
    /\ \A x \in k.draft : x[1] \in Reminded => x[2] = k.row
DraftAnnounces(k) ==
    /\ Invalidated(k.obs) =>
          FirstNotice(k.row, k.obs.gen) \in k.draft \/ Known(FirstNotice(k.row, k.obs.gen))
    /\ \A x \in k.draft :
          x[1] = "required" => x = FirstNotice(x[2], x[3]) \/ Known(FirstNotice(x[2], x[3]))
DraftSpaced(w, k) ==
    Holds(checks[k.row], w, k.fence) =>
        \A x \in k.draft : x[1] \in Reminded =>
            \A i \in DOMAIN feed : SameStage(feed[i].key, x) => k.moment - feed[i].at >= 1
FirstKnown ==
    \A i \in DOMAIN feed : feed[i].key[1] = "required" =>
        Known(FirstNotice(feed[i].key[2], feed[i].key[3]))
Spaced ==
    \A i, j \in DOMAIN feed :
        i < j /\ feed[i].key[1] \in Reminded /\ SameStage(feed[i].key, feed[j].key)
            => feed[j].at - feed[i].at >= 1
Drafted(w) ==
    wk[w].pc = "check done" =>
        DraftKeys(wk[w]) /\ DraftAnnounces(wk[w]) /\ DraftSpaced(w, wk[w])
Notices ==
    /\ FirstKnown /\ Spaced /\ IncidentsAnnounced
    /\ \A w \in Worker : Drafted(w)

\* The claim a worker uses is its own.
Grip(w) ==
    /\ wk[w].pc \in CheckPc => Holds(checks[wk[w].row], w, wk[w].fence)
    /\ wk[w].pc \in RefreshPc => Holds(refresh[wk[w].row].claim, w, wk[w].fence)
    /\ wk[w].pc \in ClaimedPc => MailHeld(wk[w].row, "CLAIMED", wk[w].fence)
    /\ wk[w].pc \in SendPc => MailHeld(wk[w].row, "SENDING", wk[w].fence)
Lone ==
    /\ \A w \in Worker : w \notin scene.workers => wk[w].pc = "over"
    /\ \A w \in Worker : scene.workers = {w} => wk[w].pc # "failed" /\ Grip(w)

RunnerInv == Types /\ Owned /\ Sends /\ Drained /\ Notices /\ Lone

-----------------------------------------------------------------------------
(* The places of a worker.                                                  *)

\* The row a worker is busy with stays the same, and so does its use.
Kept(k, n) ==
    /\ n.row = k.row /\ n.fence = k.fence
    /\ n.pc \in CheckPc <=> k.pc \in CheckPc
    /\ n.pc \in RefreshPc <=> k.pc \in RefreshPc
    /\ n.pc \in ClaimedPc <=> k.pc \in ClaimedPc
    /\ n.pc \in SendPc <=> k.pc \in SendPc
Empty(n) == n.pc \notin CheckPc /\ n.pc \notin RefreshPc /\ n.pc \notin MailPc
Free(w) ==
    /\ \A c \in Connection : checks[c].owner # w
    /\ \A k \in RefreshKey : refresh[k].claim.owner # w
    /\ \A i \in Notes : mails[i].claim.owner # w

\* The phases of a cycle exclude each other.
LEMMA Phases ==
    ASSUME NEW pc
    PROVE  /\ pc \in MailPc <=> pc \in ClaimedPc \/ pc \in SendPc
           /\ pc \in CheckPc => pc \notin RefreshPc /\ pc \notin MailPc /\ pc \notin GatePc
           /\ pc \in RefreshPc => pc \notin MailPc /\ pc \notin GatePc
           /\ pc \in MailPc => pc \notin GatePc
           /\ pc \in ClaimedPc => pc \notin SendPc
           /\ pc \in Between =>
                 /\ pc \notin CheckPc /\ pc \notin RefreshPc
                 /\ pc \notin MailPc /\ pc \notin GatePc
  BY DEF MailPc, ClaimedPc, SendPc, CheckPc, RefreshPc, GatePc, Between

\* A worker that stands nowhere with a claim owns none.
LEMMA EmptyIsFree ==
    ASSUME Owned, NEW w \in Worker, Empty(wk[w])
    PROVE  Free(w)
  BY Phases DEF Owned, OwnsCheck, OwnsRefresh, OwnsMail, Empty, Free

\* The fresh locals of a worker.
LEMMA IdleLocal ==
    ASSUME NEW pc \in Between,
           NEW t \in Nat
    PROVE  /\ Idle(pc, t) \in Local /\ LocalOK(Idle(pc, t)) /\ Empty(Idle(pc, t))
           /\ Idle(pc, t).pc = pc /\ Idle(pc, t).moment = t
           /\ Idle(pc, t).pc \notin GatePc /\ Idle(pc, t).pc # "check done"
<1>1. Idle(pc, t) \in Local
  BY DEF Idle, Local, Between, Pc, Row, Seen, Out, NoDraft, NoteKey
<1>2. Idle(pc, t).pc = pc /\ Idle(pc, t).moment = t
  BY DEF Idle
<1>3. pc \notin CheckPc /\ pc \notin RefreshPc /\ pc \notin MailPc /\ pc \notin GatePc
  BY Phases
<1>4. LocalOK(Idle(pc, t))
  BY <1>2, <1>3 DEF LocalOK, CheckPc, RefreshPc, MailPc
<1> QED BY <1>1, <1>2, <1>3, <1>4 DEF Empty, CheckPc

-----------------------------------------------------------------------------
(* A step of one worker that leaves the tables alone.                       *)

\* Worker w may go on with the locals n.
MayGo(w, n) ==
    /\ n \in Local /\ LocalOK(n) /\ n.moment <= clock
    /\ Kept(wk[w], n) \/ (Empty(n) /\ Free(w))
    /\ host[w].drained => n.pc \notin GatePc
    /\ n.pc = "check done" => DraftKeys(n) /\ DraftAnnounces(n) /\ DraftSpaced(w, n)
    /\ w \notin scene.workers => n.pc = "over"
    /\ scene.workers = {w} => n.pc # "failed"

HostKept ==
    /\ host' \in [Worker -> Host]
    /\ \A v \in Worker : /\ host'[v].drain = host[v].drain
                         /\ host'[v].drained = host[v].drained
                         /\ host'[v].stop = host[v].stop

LEMMA HostStays ==
    ASSUME RunnerInv, UNCHANGED host
    PROVE  HostKept
  BY DEF RunnerInv, Types, OtherTypes, HostKept

LEMMA GoesOn ==
    ASSUME RunnerInv, NEW w \in Worker, NEW n, MayGo(w, n), HostKept,
           wk' = [wk EXCEPT ![w] = n], UNCHANGED <<storeVars, scene, clock, asked>>
    PROVE  /\ StoreTypes' /\ LocalTypes' /\ Owned' /\ Drained' /\ Notices' /\ Lone'
           /\ \A v, u \in Worker : OneSender(v, u)'
           /\ \A v \in Worker : Claimant(v)'
<1> USE DEF RunnerInv, MayGo
<1>0. /\ UNCHANGED <<checks, health, feed, mails, refresh, clouds>>
      /\ UNCHANGED <<scene, clock, asked>>
  BY DEF storeVars
<1>1. wk'[w] = n /\ \A v \in Worker : v # w => wk'[v] = wk[v]
  BY DEF Types, LocalTypes
<1>2. StoreTypes' /\ LocalTypes'
  <2>1. StoreTypes'
    BY <1>0 DEF Types, StoreTypes
  <2>2. LocalTypes'
    BY <1>0, <1>1 DEF Types, LocalTypes
  <2> QED BY <2>1, <2>2
<1>3. Owned'
  <2>1. ASSUME NEW v \in Worker, v # w
        PROVE  /\ \A c \in Connection : OwnsCheck(v, c)'
               /\ \A k \in RefreshKey : OwnsRefresh(v, k)'
               /\ \A i \in Notes : OwnsMail(v, i)'
    <3>0. /\ \A c \in Connection : OwnsCheck(v, c)
          /\ \A k \in RefreshKey : OwnsRefresh(v, k)
          /\ \A i \in Notes : OwnsMail(v, i)
      BY DEF Owned
    <3>1. wk'[v] = wk[v]
      BY <2>1, <1>1
    <3>2. \A c \in Connection : OwnsCheck(v, c)'
      BY <2>1, <3>0, <3>1, <1>0 DEF OwnsCheck
    <3>3. \A k \in RefreshKey : OwnsRefresh(v, k)'
      BY <2>1, <3>0, <3>1, <1>0 DEF OwnsRefresh
    <3>4. \A i \in Notes : OwnsMail(v, i)'
      BY <2>1, <3>0, <3>1, <1>0 DEF OwnsMail
    <3> QED BY <3>2, <3>3, <3>4
  <2>2. /\ \A c \in Connection : OwnsCheck(w, c)'
        /\ \A k \in RefreshKey : OwnsRefresh(w, k)'
        /\ \A i \in Notes : OwnsMail(w, i)'
    BY <1>0, <1>1 DEF Owned, OwnsCheck, OwnsRefresh, OwnsMail, Kept, Free
  <2> QED BY <2>1, <2>2 DEF Owned
<1>4. ASSUME NEW v \in Worker, NEW u \in Worker PROVE OneSender(v, u)'
  <2>1. n.pc \in SendPc => wk[w].pc \in SendPc /\ wk[w].row = n.row
    BY Phases DEF Kept, Empty
  <2>2. OneSender(v, u) /\ OneSender(w, u) /\ OneSender(v, w)
    BY DEF Sends
  <2> QED BY <2>1, <2>2, <1>1 DEF OneSender
<1>5. Drained'
  BY <1>0, <1>1 DEF Drained, HostKept
<1>8. ASSUME NEW v \in Worker PROVE Claimant(v)'
  <2>1. Claimant(v)
    BY DEF Sends
  <2>2. n.pc \in ClaimedPc => wk[w].pc \in ClaimedPc /\ n.row = wk[w].row /\ n.fence = wk[w].fence
    BY Phases DEF Kept, Empty
  <2>3. CASE v = w
    BY <2>1, <2>2, <2>3, <1>0, <1>1 DEF Claimant
  <2>4. CASE v # w
    BY <2>1, <2>4, <1>0, <1>1 DEF Claimant
  <2> QED BY <2>3, <2>4
<1>6. Notices'
  <2>1. (FirstKnown /\ Spaced /\ IncidentsAnnounced)'
    BY <1>0 DEF Notices, FirstKnown, Spaced, IncidentsAnnounced, Known
  <2>2. ASSUME NEW v \in Worker PROVE Drafted(v)'
    <3>1. CASE v = w
      BY <3>1, <1>0, <1>1 DEF Drafted, DraftKeys, DraftAnnounces, DraftSpaced, Known
    <3>2. CASE v # w
      <4>1. wk'[v] = wk[v] /\ Drafted(v)
        BY <3>2, <1>1 DEF Notices
      <4> QED BY <4>1, <1>0, <3>2
              DEF Drafted, DraftKeys, DraftAnnounces, DraftSpaced, Known
    <3> QED BY <3>1, <3>2
  <2> QED BY <2>1, <2>2 DEF Notices
<1>7. Lone'
  <2>1. \A v \in Worker : v \notin scene'.workers => wk'[v].pc = "over"
    BY <1>0, <1>1 DEF Lone
  <2>2. ASSUME NEW v \in Worker, scene.workers = {v}, v # w
        PROVE  wk'[v].pc # "failed" /\ Grip(v)'
    BY <2>2, <1>0, <1>1 DEF Lone, Grip, MailHeld
  <2>3. ASSUME scene.workers = {w}
        PROVE  wk'[w].pc # "failed" /\ Grip(w)'
    <3>1. Grip(w)
      BY <2>3 DEF Lone
    <3>2. CASE Kept(wk[w], n)
      BY <2>3, <3>1, <3>2, <1>0, <1>1 DEF Grip, Kept, MailHeld
    <3>3. CASE Empty(n)
      BY <2>3, <3>3, <1>0, <1>1, Phases DEF Grip, Empty
    <3> QED BY <3>2, <3>3
  <2> QED BY <2>1, <2>2, <2>3, <1>0 DEF Lone
<1> QED BY <1>2, <1>3, <1>4, <1>5, <1>6, <1>7, <1>8

\* Without a new send the counts stay as they are.
LEMMA Goes ==
    ASSUME RunnerInv, NEW w \in Worker, NEW n, MayGo(w, n), HostKept,
           wk' = [wk EXCEPT ![w] = n],
           UNCHANGED <<storeVars, scene, clock, asked, world, doubts>>,
           n.pc \in SendPc /\ n.pc # "mail done" => wk[w].pc # "mail done"
    PROVE  RunnerInv'
<1>0. UNCHANGED <<mails, scene, clock, asked, world, doubts>>
  BY DEF storeVars
<1>1. wk'[w] = n /\ \A v \in Worker : v # w => wk'[v] = wk[v]
  BY DEF RunnerInv, Types, LocalTypes
<1>2. /\ StoreTypes' /\ LocalTypes' /\ Owned' /\ Drained' /\ Notices' /\ Lone'
      /\ \A v, u \in Worker : OneSender(v, u)'
      /\ \A v \in Worker : Claimant(v)'
  BY GoesOn
<1>3. OtherTypes'
  BY <1>0 DEF RunnerInv, Types, OtherTypes, HostKept
<1>4. ASSUME NEW v \in Worker PROVE Sender(v)'
  <2>1. n.pc \in SendPc => wk[w].pc \in SendPc /\ wk[w].row = n.row
    BY Phases DEF MayGo, Kept, Empty
  <2>2. Sender(v) /\ Sender(w)
    BY DEF RunnerInv, Sends
  <2> QED BY <2>1, <2>2, <1>0, <1>1 DEF Sender
<1>5. \A i \in Notes : MailCount(i)'
  BY <1>0 DEF RunnerInv, Sends, MailCount
<1> QED BY <1>2, <1>3, <1>4, <1>5 DEF RunnerInv, Types, Sends

\* A worker that is at work is one of the scene's.
LEMMA AtWork ==
    ASSUME Lone, NEW w \in Worker, wk[w].pc # "over"
    PROVE  w \in scene.workers
  BY DEF Lone

Rest == <<storeVars, scene, clock, host, asked, world, doubts>>

Plain == Pc \ (GatePc \cup {"check draft", "check done", "refresh done", "mail done",
                            "over", "failed"})

\* A change of pc alone.
LEMMA Advances ==
    ASSUME RunnerInv, NEW w \in Worker, NEW pc \in Plain, Goto(w, pc), UNCHANGED Rest,
           wk[w].pc # "over", wk[w].pc # "mail done",
           pc \in CheckPc <=> wk[w].pc \in CheckPc,
           pc \in RefreshPc <=> wk[w].pc \in RefreshPc,
           pc \in ClaimedPc <=> wk[w].pc \in ClaimedPc,
           pc \in SendPc <=> wk[w].pc \in SendPc
    PROVE  RunnerInv'
<1>1. PICK n : n = [wk[w] EXCEPT !.pc = pc]
  OBVIOUS
<1>2. wk' = [wk EXCEPT ![w] = n]
  BY <1>1 DEF Goto
<1>3. wk[w] \in Local /\ LocalOK(wk[w]) /\ wk[w].moment <= clock
  BY DEF RunnerInv, Types, LocalTypes
<1>4. /\ n \in Local
      /\ n.pc = pc /\ n.row = wk[w].row /\ n.fence = wk[w].fence /\ n.moment = wk[w].moment
  BY <1>1, <1>3 DEF Local, Plain
<1>5. pc \notin {"check draft", "check done", "refresh done", "mail done", "over", "failed"}
      /\ pc \notin GatePc
  BY DEF Plain
<1>6. LocalOK(n)
  BY <1>3, <1>4, <1>5, Phases DEF LocalOK
<1>7. Kept(wk[w], n)
  BY <1>4 DEF Kept
<1>8. MayGo(w, n)
  BY <1>3, <1>4, <1>5, <1>6, <1>7, AtWork DEF MayGo, RunnerInv
<1> QED BY <1>2, <1>8, Goes, HostStays DEF Rest

\* A worker without a claim drops its locals.
LEMMA Drops ==
    ASSUME RunnerInv, NEW w \in Worker, Free(w), wk[w].pc # "over", UNCHANGED Rest,
           NEW pc \in Between,
           NEW t \in Nat, t <= clock, wk' = [wk EXCEPT ![w] = Idle(pc, t)],
           scene.workers = {w} => pc # "failed"
    PROVE  RunnerInv'
<1>1. MayGo(w, Idle(pc, t))
  <2>1. /\ Idle(pc, t) \in Local /\ LocalOK(Idle(pc, t)) /\ Empty(Idle(pc, t))
        /\ Idle(pc, t).pc = pc /\ Idle(pc, t).moment = t
        /\ Idle(pc, t).pc \notin GatePc /\ Idle(pc, t).pc # "check done"
    BY IdleLocal
  <2>2. w \in scene.workers
    BY AtWork DEF RunnerInv
  <2> QED BY <2>1, <2>2 DEF MayGo
<1>2. Idle(pc, t).pc \notin SendPc
  BY IdleLocal, Phases DEF Empty
<1> QED BY <1>1, <1>2, Goes, HostStays DEF Rest

LEMMA Leaves ==
    ASSUME RunnerInv, NEW w \in Worker, Free(w), wk[w].pc # "over", UNCHANGED Rest,
           NEW pc \in Between, Leave(w, pc),
           scene.workers = {w} => pc # "failed"
    PROVE  RunnerInv'
<1>1. wk[w].moment \in Nat /\ wk[w].moment <= clock
  BY DEF RunnerInv, Types, LocalTypes, Local
<1>2. wk' = [wk EXCEPT ![w] = Idle(pc, wk[w].moment)]
  BY DEF Leave
<1> QED BY <1>1, <1>2, Drops

\* The thread of a worker whose claim is no longer its own fails.
LEMMA Raises ==
    ASSUME RunnerInv, NEW w \in Worker, Raise(w),
           UNCHANGED <<scene, clock, host, asked, world, doubts>>,
           \/ wk[w].pc \in CheckPc /\ ~Holds(checks[wk[w].row], w, wk[w].fence)
           \/ wk[w].pc \in RefreshPc /\ ~Holds(refresh[wk[w].row].claim, w, wk[w].fence)
           \/ wk[w].pc \in ClaimedPc /\ ~MailHeld(wk[w].row, "CLAIMED", wk[w].fence)
           \/ wk[w].pc \in SendPc /\ ~MailHeld(wk[w].row, "SENDING", wk[w].fence)
    PROVE  RunnerInv'
<1>1. Leave(w, "failed") /\ UNCHANGED Rest
  BY DEF Raise, Leave, Rest
<1>2. scene.workers # {w}
  BY DEF RunnerInv, Lone, Grip
<1>3. wk[w].pc # "over"
  BY Phases DEF Between
<1>4. Free(w)
  <2>1. /\ \A c \in Connection : OwnsCheck(w, c)
        /\ \A k \in RefreshKey : OwnsRefresh(w, k)
        /\ \A i \in Notes : OwnsMail(w, i)
    BY DEF RunnerInv, Owned
  <2>2. ASSUME NEW c \in Connection PROVE checks[c].owner # w
    BY <2>1, Phases DEF OwnsCheck, Holds
  <2>3. ASSUME NEW k \in RefreshKey PROVE refresh[k].claim.owner # w
    BY <2>1, Phases DEF OwnsRefresh, Holds
  <2>4. ASSUME NEW i \in Notes PROVE mails[i].claim.owner # w
    BY <2>1, Phases DEF OwnsMail, MailHeld
  <2> QED BY <2>2, <2>3, <2>4 DEF Free
<1> QED BY <1>1, <1>2, <1>3, <1>4, Leaves DEF Between

-----------------------------------------------------------------------------
(* The quiet actions.                                                       *)

LEMMA RunStartCycle ==
    ASSUME RunnerInv, NEW w \in Worker, StartCycle(w)
    PROVE  RunnerInv'
<1>1. wk[w].pc = "top" /\ UNCHANGED Rest
  BY DEF StartCycle, Rest, outside
<1>2. Free(w)
  BY <1>1, EmptyIsFree, Phases DEF RunnerInv, Empty, Between
<1>3. clock \in Nat
  BY DEF RunnerInv, Types, OtherTypes
<1>4. PICK pc \in {"exited", "check"} : wk' = [wk EXCEPT ![w] = Idle(pc, clock)]
  BY DEF StartCycle
<1>5. pc \in Between /\ pc # "failed" /\ wk[w].pc # "over" /\ clock <= clock
  BY <1>1, <1>3, <1>4 DEF Between
<1> QED BY <1>1, <1>2, <1>3, <1>4, <1>5, Drops

\* A worker stands before a gate.
LEMMA RunEnterGate ==
    ASSUME RunnerInv, NEW w \in Worker, NEW from \in Between, NEW gate \in GatePc,
           NEW past \in Between, EnterGate(w, from, gate, past),
           from # "over", past # "failed"
    PROVE  RunnerInv'
<1>1. wk[w].pc = from /\ UNCHANGED Rest
  BY DEF EnterGate, Rest, outside
<1>2. Free(w) /\ w \in scene.workers /\ gate # "over" /\ gate # "failed"
  BY <1>1, EmptyIsFree, AtWork, Phases DEF RunnerInv, Empty, Between, GatePc
<1>3. CASE Draining(w)
  BY <1>1, <1>2, <1>3, Leaves DEF EnterGate
<1>4. CASE ~Draining(w)
  <2>1. PICK n : n = [wk[w] EXCEPT !.pc = gate]
    OBVIOUS
  <2>2. wk' = [wk EXCEPT ![w] = n]
    BY <1>4, <2>1 DEF EnterGate, Goto
  <2>3. wk[w] \in Local /\ wk[w].moment <= clock
    BY DEF RunnerInv, Types, LocalTypes
  <2>4. n \in Local /\ n.pc = gate /\ n.moment = wk[w].moment
    BY <2>1, <2>3 DEF Local, Pc
  <2>5. n.pc \notin CheckPc /\ n.pc \notin RefreshPc /\ n.pc \notin MailPc /\ n.pc \notin SendPc
    BY <2>4, Phases
  <2>6. LocalOK(n) /\ n.pc # "check done"
    BY <2>5 DEF LocalOK, CheckPc, RefreshPc, MailPc
  <2>7. ~host[w].drained
    BY <1>4 DEF RunnerInv, Drained, Draining
  <2>8. MayGo(w, n)
    BY <1>2, <2>3, <2>4, <2>5, <2>6, <2>7 DEF MayGo, Empty
  <2> QED BY <1>1, <2>2, <2>5, <2>8, Goes, HostStays DEF Rest
<1> QED BY <1>3, <1>4

LEMMA RunAdmit ==
    ASSUME RunnerInv, NEW w \in Worker,
           \/ Admit(w, "check admit", "check call")
           \/ Admit(w, "refresh admit", "refresh call")
           \/ Admit(w, "mail sending", "mail admitted")
    PROVE  RunnerInv'
<1>0. UNCHANGED Rest
  BY DEF Admit, Rest, outside
<1>1. CASE Admit(w, "check admit", "check call")
  BY <1>0, <1>1, Advances DEF Admit, Plain, Pc, GatePc, CheckPc, RefreshPc, ClaimedPc, SendPc
<1>2. CASE Admit(w, "refresh admit", "refresh call")
  BY <1>0, <1>2, Advances DEF Admit, Plain, Pc, GatePc, CheckPc, RefreshPc, ClaimedPc, SendPc
<1>3. CASE Admit(w, "mail sending", "mail admitted")
  BY <1>0, <1>3, Advances
     DEF Admit, Plain, Pc, GatePc, CheckPc, RefreshPc, MailPc, ClaimedPc, SendPc
<1> QED BY <1>1, <1>2, <1>3

LEMMA RunTakeNothing ==
    ASSUME RunnerInv, NEW w \in Worker, wk[w].pc \in GatePc, NEW pc \in Between,
           pc # "failed", Leave(w, pc), UNCHANGED Rest
    PROVE  RunnerInv'
<1>1. Free(w) /\ wk[w].pc # "over"
  BY EmptyIsFree, Phases DEF RunnerInv, Empty, Between, GatePc
<1> QED BY <1>1, Leaves

\* The locals of a worker after a step inside the phase of its row.
LEMMA Stays ==
    ASSUME RunnerInv, NEW w \in Worker, NEW n \in Local, wk' = [wk EXCEPT ![w] = n],
           UNCHANGED Rest, LocalOK(n), n.pc \notin GatePc, n.pc # "over", n.pc # "failed",
           n.moment = wk[w].moment, Kept(wk[w], n), wk[w].pc # "over",
           wk[w].pc # "mail done",
           n.pc = "check done" => DraftKeys(n) /\ DraftAnnounces(n) /\ DraftSpaced(w, n)
    PROVE  RunnerInv'
<1>1. wk[w].moment <= clock /\ w \in scene.workers
  BY AtWork DEF RunnerInv, Types, LocalTypes
<1>2. MayGo(w, n)
  BY <1>1 DEF MayGo
<1> QED BY <1>2, Goes, HostStays DEF Rest

LEMMA RunReadPrevious ==
    ASSUME RunnerInv, NEW w \in Worker, ReadPrevious(w)
    PROVE  RunnerInv'
<1>1. wk[w].pc = "check claimed" /\ UNCHANGED Rest
  BY DEF ReadPrevious, Rest, outside
<1>2. wk[w] \in Local /\ wk[w].row \in Connection
  BY <1>1 DEF RunnerInv, Types, LocalTypes, LocalOK, CheckPc
<1>3. health[wk[w].row] \in Seen
  BY <1>2 DEF RunnerInv, Types, StoreTypes
<1>4. PICK n : n = [wk[w] EXCEPT !.pc = "check read", !.prev = health[wk[w].row]]
  OBVIOUS
<1>5. wk' = [wk EXCEPT ![w] = n]
  BY <1>4 DEF ReadPrevious
<1>6. /\ n \in Local /\ n.pc = "check read" /\ n.row = wk[w].row
      /\ n.fence = wk[w].fence /\ n.moment = wk[w].moment
  BY <1>2, <1>3, <1>4 DEF Local, Pc, CheckPc
<1>7. LocalOK(n) /\ Kept(wk[w], n)
  BY <1>1, <1>2, <1>6 DEF LocalOK, Kept, CheckPc, RefreshPc, MailPc, ClaimedPc, SendPc
<1> QED BY <1>1, <1>5, <1>6, <1>7, Stays DEF GatePc

\* An observation enters a check.
LEMMA Observes ==
    ASSUME RunnerInv, NEW w \in Worker, wk[w].pc \in {"check read", "check call"},
           NEW o \in Observation, UNCHANGED Rest,
           wk' = [wk EXCEPT ![w] = [@ EXCEPT !.pc = "check draft", !.obs = o]]
    PROVE  RunnerInv'
<1>2. wk[w] \in Local /\ wk[w].row \in Connection
  BY DEF RunnerInv, Types, LocalTypes, LocalOK, CheckPc
<1>4. PICK n : n = [wk[w] EXCEPT !.pc = "check draft", !.obs = o]
  OBVIOUS
<1>5. wk' = [wk EXCEPT ![w] = n]
  BY <1>4
<1>6. /\ n \in Local /\ n.pc = "check draft" /\ n.row = wk[w].row
      /\ n.fence = wk[w].fence /\ n.moment = wk[w].moment /\ n.obs = o
  BY <1>2, <1>4 DEF Local, Pc, CheckPc, Seen
<1>7. LocalOK(n) /\ Kept(wk[w], n)
  BY <1>2, <1>6 DEF LocalOK, Kept, CheckPc, RefreshPc, MailPc, ClaimedPc, SendPc
<1>8. wk[w].pc # "over" /\ wk[w].pc # "mail done"
  OBVIOUS
<1> QED BY <1>5, <1>6, <1>7, <1>8, Stays DEF GatePc

LEMMA UnavailableIsObservation ==
    ASSUME RunnerInv, NEW w \in Worker
    PROVE  UnavailableHealth(w) \in Observation
<1>1. wk[w].prev.gen \in 0..MaxGen
  BY AuthorizationAssumption
     DEF RunnerInv, Types, LocalTypes, Local, Seen, Observation, NotObserved
<1> QED BY <1>1 DEF UnavailableHealth, Observation, ObservationKind

LEMMA RunCheckAuthority ==
    ASSUME RunnerInv, NEW w \in Worker, CheckAuthority(w)
    PROVE  RunnerInv'
<1>1. wk[w].pc = "check read" /\ UNCHANGED Rest
  BY DEF CheckAuthority, Rest, outside
<1>2. CASE Goto(w, "check admit")
  BY <1>1, <1>2, Advances DEF Plain, Pc, GatePc, CheckPc, RefreshPc, ClaimedPc, SendPc
<1>3. CASE wk' = [wk EXCEPT ![w] = [@ EXCEPT !.pc = "check draft",
                                              !.obs = UnavailableHealth(w)]]
  BY <1>1, <1>3, UnavailableIsObservation, Observes
<1> QED BY <1>2, <1>3 DEF CheckAuthority

LEMMA RunCheckAnswers ==
    ASSUME RunnerInv, NEW w \in Worker, CheckAnswers(w)
    PROVE  RunnerInv'
<1>1. wk[w].pc = "check call" /\ UNCHANGED Rest
  BY DEF CheckAnswers, Rest, outside
<1>2. PICK o \in [kind : scene.kinds, gen : 0..MaxGen] \cup {UnavailableHealth(w)} :
          wk' = [wk EXCEPT ![w] = [@ EXCEPT !.pc = "check draft", !.obs = o]]
  BY DEF CheckAnswers
<1>3. scene.kinds \subseteq ObservationKind
  BY ScenesAssumption DEF RunnerInv, Types, OtherTypes
<1>4. o \in Observation
  BY <1>2, <1>3, UnavailableIsObservation DEF Observation
<1> QED BY <1>1, <1>2, <1>4, Observes

-----------------------------------------------------------------------------
(* The draft of a check.                                                    *)

Smaller == {p \in Nat \X Nat : p[1] < p[2]}

LEMMA SmallerIsWellFounded == IsWellFoundedOn(Smaller, Nat)
<1>1. IsWellFoundedOn(OpToRel(<, Nat), Nat)
  BY NatLessThanWellFounded, Zenon
<1>2. Smaller \cap (Nat \X Nat) \subseteq OpToRel(<, Nat)
  BY Zenon DEF Smaller, OpToRel
<1> QED BY <1>1, <1>2, IsWellFoundedOnSubrelation, Zenon

\* A set of positions of a sequence has a last one.
LEMMA LastPosition ==
    ASSUME NEW n \in Nat, NEW S, S \subseteq 1..n, S # {}
    PROVE  \E x \in S : \A y \in S : y <= x
<1> DEFINE T == {n - i : i \in S}
<1>1. \A i \in S : i \in 1..n /\ n - i \in Nat
  OBVIOUS
<1>2. T \subseteq Nat
  BY <1>1
<1>3. T # {}
  <2>1. PICK i \in S : TRUE
    OBVIOUS
  <2>2. n - i \in T
    BY <2>1
  <2> QED BY <2>2
<1>4. PICK t \in T : \A u \in T : <<u, t>> \notin Smaller
  BY <1>2, <1>3, SmallerIsWellFounded, WFMin, Zenon
<1>5. PICK x \in S : t = n - x
  OBVIOUS
<1>6. ASSUME NEW y \in S PROVE y <= x
  <2>1. n - y \in T /\ <<n - y, n - x>> \notin Smaller
    BY <1>4, <1>5
  <2>2. x \in Int /\ y \in Int /\ n - y \in Nat /\ n - x \in Nat
    BY <1>1, <1>5
  <2> QED BY <2>1, <2>2 DEF Smaller
<1> QED BY <1>6

LEMMA FeedTypes ==
    ASSUME StoreTypes
    PROVE  /\ Len(feed) \in Nat /\ DOMAIN feed = 1..Len(feed)
           /\ \A i \in DOMAIN feed :
                 /\ feed[i].key \in NoteKey /\ feed[i].at \in Nat
                 /\ feed[i].key[1] \in Stage /\ feed[i].key[2] \in Connection
                 /\ feed[i].key[3] \in Nat /\ feed[i].key[4] \in Nat
<1>1. Len(feed) \in Nat /\ DOMAIN feed = 1..Len(feed)
  BY DEF StoreTypes
<1>2. ASSUME NEW i \in DOMAIN feed
      PROVE  feed[i].key \in NoteKey /\ feed[i].at \in Nat
  <2>1. feed \in Seq(Note)
    BY DEF StoreTypes
  <2>2. feed[i] \in Note
    BY <1>1, <2>1
  <2> QED BY <2>2 DEF Note
<1>3. ASSUME NEW x \in NoteKey
      PROVE  x[1] \in Stage /\ x[2] \in Connection /\ x[3] \in Nat /\ x[4] \in Nat
  BY DEF NoteKey
<1> QED BY <1>1, <1>2, <1>3

\* An incident with notices has a newest one.
LEMMA NewestNotice ==
    ASSUME StoreTypes, NEW stage, NEW c, NEW gen, Incident(stage, c, gen) # {}
    PROVE  LatestNote(stage, c, gen) # {}
<1>1. Incident(stage, c, gen) \subseteq 1..Len(feed) /\ Len(feed) \in Nat
  BY FeedTypes DEF Incident
<1>2. PICK x \in Incident(stage, c, gen) : \A y \in Incident(stage, c, gen) : y <= x
  BY <1>1, LastPosition
<1> QED BY <1>2 DEF LatestNote

\* What a drafted stage says of the feed.
LEMMA StageDrafted ==
    ASSUME StoreTypes, FirstKnown, Spaced, NEW stage \in Reminded, NEW c \in Connection,
           NEW gen \in Nat, NEW now \in Nat, NEW D, D = StageDraft(stage, c, gen, now)
    PROVE  /\ D \subseteq NoteKey
           /\ \A x, y \in D : x = y
           /\ \A x \in D : x[1] = stage /\ x[2] = c /\ x[3] = gen
           /\ stage = "required" => FirstNotice(c, gen) \in D \/ Known(FirstNotice(c, gen))
           /\ stage = "required" =>
                 \A x \in D : x = FirstNotice(c, gen) \/ Known(FirstNotice(c, gen))
           /\ \A x \in D : \A i \in DOMAIN feed :
                 SameStage(feed[i].key, x) => now - feed[i].at >= 1
<1> DEFINE I == Incident(stage, c, gen)
           L == LatestNote(stage, c, gen)
<1>1. \A i \in I : i \in DOMAIN feed /\ i \in Nat /\ feed[i].at \in Nat
                   /\ feed[i].key[1] = stage /\ feed[i].key[2] = c /\ feed[i].key[3] = gen
  BY FeedTypes DEF Incident
<1>2. \A i \in L : i \in I /\ \A j \in I : j <= i
  BY DEF LatestNote
<1>3. CASE L = {}
  <2>1. I = {}
    BY <1>3, NewestNotice
  <2>2. D = {<<stage, c, gen, 0>>}
    BY <1>3 DEF StageDraft
  <2>3. <<stage, c, gen, 0>> \in NoteKey
    BY DEF NoteKey, Stage, Reminded
  <2>4. ASSUME NEW x \in D, NEW i \in DOMAIN feed PROVE ~SameStage(feed[i].key, x)
    BY <2>1, <2>2 DEF Incident, SameStage
  <2> QED BY <2>2, <2>3, <2>4 DEF FirstNotice
<1>4. CASE L # {}
  <2>1. PICK m \in L : TRUE
    BY <1>4
  <2>2. m \in I /\ m \in DOMAIN feed /\ feed[m].at \in Nat /\ \A j \in L : j = m
    BY <1>1, <1>2
  <2>3. \A x \in D : /\ x = <<stage, c, gen, now - feed[m].at>>
                     /\ now - feed[m].at >= 1
    BY <1>4, <2>2 DEF StageDraft
  <2>4. ASSUME NEW x \in D
        PROVE  /\ x \in NoteKey /\ x[1] = stage /\ x[2] = c /\ x[3] = gen
               /\ now - feed[m].at \in Nat
    <3>1. now - feed[m].at \in Nat
      BY <2>2, <2>3
    <3> QED BY <3>1, <2>3 DEF NoteKey, Stage, Reminded
  <2>5. stage = "required" => Known(FirstNotice(c, gen))
    BY <2>2, <1>1 DEF FirstKnown
  <2>6. ASSUME NEW x \in D, NEW i \in DOMAIN feed, SameStage(feed[i].key, x)
        PROVE  now - feed[i].at >= 1
    <3>1. i \in I
      BY <2>4, <2>6 DEF Incident, SameStage
    <3>2. i <= m /\ i \in Nat /\ m \in Nat /\ feed[i].at \in Nat /\ now - feed[m].at >= 1
      BY <3>1, <1>1, <1>2, <2>2, <2>3
    <3>3. CASE i = m
      BY <3>2, <3>3
    <3>4. CASE i < m
      <4>1. SameStage(feed[i].key, feed[m].key) /\ feed[i].key[1] \in Reminded
        BY <3>1, <2>2, <1>1 DEF SameStage
      <4>2. feed[m].at - feed[i].at >= 1
        BY <4>1, <3>4, <2>2 DEF Spaced
      <4> QED BY <4>2, <3>2, <2>2
    <3> QED BY <3>2, <3>3, <3>4
  <2> QED BY <2>3, <2>4, <2>5, <2>6
<1> QED BY <1>3, <1>4

LEMMA RunDraftCheck ==
    ASSUME RunnerInv, NEW w \in Worker, DraftCheck(w)
    PROVE  RunnerInv'
<1>1. wk[w].pc = "check draft" /\ UNCHANGED Rest
  BY DEF DraftCheck, Rest, outside
<1>2. /\ wk[w] \in Local /\ wk[w].row \in Connection /\ wk[w].obs \in Observation
      /\ wk[w].moment \in Nat
  BY <1>1 DEF RunnerInv, Types, LocalTypes, LocalOK, Local, CheckPc
<1>3. wk[w].obs.gen \in Nat /\ wk[w].obs.kind \in ObservationKind
  BY <1>2, AuthorizationAssumption DEF Observation
<1>4. StoreTypes /\ FirstKnown /\ Spaced
  BY DEF RunnerInv, Types, Notices
<1>5. PICK D : D = Draft(wk[w].row, wk[w].prev, wk[w].obs, wk[w].moment)
  OBVIOUS
<1>6. PICK n : n = [wk[w] EXCEPT !.pc = "check done", !.draft = D]
  OBVIOUS
<1>7. wk' = [wk EXCEPT ![w] = n]
  BY <1>5, <1>6 DEF DraftCheck
<1>8. /\ D \subseteq NoteKey /\ \A x, y \in D : x = y
      /\ \A x \in D : x[1] \in Reminded => x[2] = wk[w].row
      /\ Invalidated(wk[w].obs) => \/ FirstNotice(wk[w].row, wk[w].obs.gen) \in D
                                   \/ Known(FirstNotice(wk[w].row, wk[w].obs.gen))
      /\ \A x \in D : x[1] = "required" =>
            x = FirstNotice(x[2], x[3]) \/ Known(FirstNotice(x[2], x[3]))
      /\ \A x \in D : x[1] \in Reminded =>
            \A i \in DOMAIN feed : SameStage(feed[i].key, x) => wk[w].moment - feed[i].at >= 1
  <2>1. ASSUME NEW stage \in Reminded, stage = "required" \/ ~Invalidated(wk[w].obs),
               D = StageDraft(stage, wk[w].row, wk[w].obs.gen, wk[w].moment)
        PROVE  <1>8
    BY <2>1, <1>2, <1>3, <1>4, StageDrafted
  <2>2. CASE Invalidated(wk[w].obs)
    BY <2>1, <2>2, <1>5 DEF Draft, Reminded
  <2>3. CASE ~Invalidated(wk[w].obs) /\ wk[w].obs.kind = "unavailable"
    <3>1. D \subseteq {<<"unavailable", wk[w].row, wk[w].obs.gen, 0>>}
      BY <2>3, <1>5 DEF Draft, NoDraft
    <3>2. <<"unavailable", wk[w].row, wk[w].obs.gen, 0>> \in NoteKey
      BY <1>2, <1>3 DEF NoteKey, Stage
    <3> QED BY <2>3, <3>1, <3>2 DEF Reminded
  <2>4. CASE ~Invalidated(wk[w].obs) /\ wk[w].obs.kind = "valid"
    BY <2>4, <1>5 DEF Draft, NoDraft
  <2>5. CASE ~Invalidated(wk[w].obs) /\ wk[w].obs.kind \in {"24h", "1h"}
    BY <2>1, <2>5, <1>5 DEF Draft, Reminded
  <2> QED BY <2>2, <2>3, <2>4, <2>5, <1>3 DEF ObservationKind, Invalidated
<1>9. /\ n \in Local /\ n.pc = "check done" /\ n.row = wk[w].row /\ n.obs = wk[w].obs
      /\ n.fence = wk[w].fence /\ n.moment = wk[w].moment /\ n.draft = D
  BY <1>2, <1>6, <1>8 DEF Local, Pc, CheckPc
<1>10. LocalOK(n) /\ Kept(wk[w], n)
  BY <1>1, <1>2, <1>9 DEF LocalOK, Kept, CheckPc, RefreshPc, MailPc, ClaimedPc, SendPc
<1>11. DraftKeys(n) /\ DraftAnnounces(n) /\ DraftSpaced(w, n)
  BY <1>8, <1>9 DEF DraftKeys, DraftAnnounces, DraftSpaced
<1> QED BY <1>1, <1>7, <1>9, <1>10, <1>11, Stays DEF GatePc

-----------------------------------------------------------------------------
(* The quiet actions of refreshes and mails.                                *)

LEMMA Concludes ==
    ASSUME RunnerInv, NEW w \in Worker, UNCHANGED Rest,
           wk[w].pc \in RefreshPc, wk[w].pc # "refresh done",
           NEW st \in RefreshTerminal, NEW fp \in Fingerprint \cup {0}, Conclude(w, st, fp)
    PROVE  RunnerInv'
<1>2. wk[w] \in Local /\ wk[w].row \in RefreshKey
  BY DEF RunnerInv, Types, LocalTypes, LocalOK
<1>4. PICK n : n = [wk[w] EXCEPT !.pc = "refresh done", !.out = st, !.fp = fp]
  OBVIOUS
<1>5. wk' = [wk EXCEPT ![w] = n]
  BY <1>4 DEF Conclude
<1>6. /\ n \in Local /\ n.pc = "refresh done" /\ n.row = wk[w].row
      /\ n.fence = wk[w].fence /\ n.moment = wk[w].moment /\ n.out = st
  BY <1>2, <1>4 DEF Local, Pc, RefreshPc, Out
<1>7. LocalOK(n) /\ Kept(wk[w], n)
  BY <1>2, <1>6, Phases DEF LocalOK, Kept, CheckPc, RefreshPc, MailPc, ClaimedPc, SendPc
<1>8. wk[w].pc # "over" /\ wk[w].pc # "mail done"
  BY DEF RefreshPc
<1> QED BY <1>5, <1>6, <1>7, <1>8, Stays DEF GatePc

LEMMA RunRefreshQuietly ==
    ASSUME RunnerInv, NEW w \in Worker,
           RefreshAuthority(w) \/ RefreshHealth(w) \/ RefreshAnswers(w)
    PROVE  RunnerInv'
<1>0. UNCHANGED Rest
  BY DEF RefreshAuthority, RefreshHealth, RefreshAnswers, Rest, outside
<1>1. CASE RefreshAuthority(w)
  <2>1. CASE Goto(w, "refresh health")
    BY <1>0, <1>1, <2>1, Advances
       DEF RefreshAuthority, Plain, Pc, GatePc, CheckPc, RefreshPc, ClaimedPc, SendPc
  <2>2. CASE Conclude(w, "FAILED", 0)
    BY <1>0, <1>1, <2>2, Concludes DEF RefreshAuthority, RefreshPc, RefreshTerminal
  <2> QED BY <1>1, <2>1, <2>2 DEF RefreshAuthority
<1>2. CASE RefreshHealth(w)
  <2>1. CASE Goto(w, "refresh admit")
    BY <1>0, <1>2, <2>1, Advances
       DEF RefreshHealth, Plain, Pc, GatePc, CheckPc, RefreshPc, ClaimedPc, SendPc
  <2>2. CASE Conclude(w, "FAILED", 0)
    BY <1>0, <1>2, <2>2, Concludes DEF RefreshHealth, RefreshPc, RefreshTerminal
  <2> QED BY <1>2, <2>1, <2>2 DEF RefreshHealth
<1>3. CASE RefreshAnswers(w)
  <2>1. ASSUME NEW fp \in Fingerprint, Conclude(w, "SUCCEEDED", fp)
        PROVE  RunnerInv'
    BY <1>0, <1>3, <2>1, Concludes DEF RefreshAnswers, RefreshPc, RefreshTerminal
  <2>2. CASE Conclude(w, "UNKNOWN", 0)
    BY <1>0, <1>3, <2>2, Concludes DEF RefreshAnswers, RefreshPc, RefreshTerminal
  <2> QED BY <1>3, <2>1, <2>2 DEF RefreshAnswers
<1> QED BY <1>1, <1>2, <1>3

LEMMA RunVerify ==
    ASSUME RunnerInv, NEW w \in Worker, VerifySending(w) \/ VerifyJob(w)
    PROVE  RunnerInv'
<1>0. UNCHANGED Rest
  BY DEF VerifySending, VerifyJob, Rest, outside
<1>1. CASE VerifySending(w)
  <2>1. Goto(w, "mail verified") \/ Goto(w, "mail back")
    BY <1>1 DEF VerifySending
  <2> QED BY <1>0, <1>1, <2>1, Advances
          DEF VerifySending, Plain, Pc, GatePc, CheckPc, RefreshPc, MailPc, ClaimedPc, SendPc
<1>2. CASE VerifyJob(w) /\ Goto(w, "mail call")
  BY <1>0, <1>2, Advances
     DEF VerifyJob, Plain, Pc, GatePc, CheckPc, RefreshPc, MailPc, ClaimedPc, SendPc
<1>3. CASE VerifyJob(w) /\ ~Goto(w, "mail call")
  <2>1. wk[w].pc = "mail verified"
    BY <1>3 DEF VerifyJob
  <2>2. wk[w] \in Local /\ wk[w].row \in Notes
    BY <2>1 DEF RunnerInv, Types, LocalTypes, LocalOK, MailPc
  <2>3. PICK n : n = [wk[w] EXCEPT !.pc = "mail done", !.out = "UNKNOWN"]
    OBVIOUS
  <2>4. wk' = [wk EXCEPT ![w] = n]
    BY <1>3, <2>3 DEF VerifyJob
  <2>5. /\ n \in Local /\ n.pc = "mail done" /\ n.row = wk[w].row
        /\ n.fence = wk[w].fence /\ n.moment = wk[w].moment /\ n.out = "UNKNOWN"
    BY <2>2, <2>3 DEF Local, Pc, MailPc, Out, MailTerminal
  <2>6. LocalOK(n) /\ Kept(wk[w], n)
    BY <2>1, <2>2, <2>5
       DEF LocalOK, Kept, CheckPc, RefreshPc, MailPc, ClaimedPc, SendPc, MailTerminal
  <2> QED BY <1>0, <2>1, <2>4, <2>5, <2>6, Stays DEF GatePc
<1> QED BY <1>1, <1>2, <1>3

\* What an answer may mean: a typed error sends the worker back, and a send
\* behind it is a doubtful one.
LEMMA MailAnswer ==
    ASSUME NEW o \in MailOutcome
    PROVE  \E pc, st :
             /\ AfterMail(o.answer) = <<pc, st>>
             /\ o.sent \in Nat /\ o.sent <= 1 /\ Doubt(o.answer) \in Nat
             /\ pc \in {"mail back", "mail done"} /\ st \in Out
             /\ pc = "mail done" => st \in MailTerminal
             /\ pc = "mail back" => o.sent <= Doubt(o.answer)
<1>0. Doubt(o.answer) \in Nat
  BY DEF Doubt
<1>1. /\ o.sent \in Nat /\ o.sent <= 1
      /\ o.answer \in {"UNKNOWN", "doubtful", "lost", "ACCEPTED",
                       "REJECTED", "retryable", "refused"}
      /\ o.answer \in {"retryable", "refused"} => o.sent = 0
  BY DEF MailOutcome
<1>2. CASE o.answer \in {"doubtful", "retryable", "refused"}
  <2>1. AfterMail(o.answer) = <<"mail back", "none">>
    BY <1>2 DEF AfterMail
  <2>2. "none" \in Out
    BY DEF Out
  <2>3. o.sent <= Doubt(o.answer)
    BY <1>1, <1>2 DEF Doubt
  <2> WITNESS "mail back", "none"
  <2> QED BY <1>0, <1>1, <2>1, <2>2, <2>3
<1>3. CASE o.answer \in {"UNKNOWN", "lost", "ACCEPTED", "REJECTED"}
  <2>1. PICK st \in MailTerminal : AfterMail(o.answer) = <<"mail done", st>>
    BY <1>3 DEF AfterMail, MailTerminal
  <2>2. st \in Out
    BY <2>1 DEF Out
  <2> WITNESS "mail done", st
  <2> QED BY <1>0, <1>1, <2>1, <2>2
<1> QED BY <1>1, <1>2, <1>3

LEMMA RunMailAnswers ==
    ASSUME RunnerInv, NEW w \in Worker, MailAnswers(w)
    PROVE  RunnerInv'
<1>1. wk[w].pc = "mail call" /\ UNCHANGED <<storeVars, host, scene, clock, asked>>
  BY DEF MailAnswers
<1>2. PICK o \in MailOutcome :
          /\ world' = [world EXCEPT ![wk[w].row] = @ + o.sent]
          /\ doubts' = [doubts EXCEPT ![wk[w].row] = @ + Doubt(o.answer)]
          /\ wk' = [wk EXCEPT ![w] = [@ EXCEPT !.pc = AfterMail(o.answer)[1],
                                               !.out = AfterMail(o.answer)[2]]]
  BY DEF MailAnswers
<1>3. PICK pc, st : /\ AfterMail(o.answer) = <<pc, st>>
                    /\ o.sent \in Nat /\ o.sent <= 1 /\ Doubt(o.answer) \in Nat
                    /\ pc \in {"mail back", "mail done"} /\ st \in Out
                    /\ pc = "mail done" => st \in MailTerminal
                    /\ pc = "mail back" => o.sent <= Doubt(o.answer)
  BY MailAnswer
<1>4. PICK sent \in Nat, d \in Nat : sent = o.sent /\ d = Doubt(o.answer)
  BY <1>3
<1>5. wk[w] \in Local /\ wk[w].row \in Notes /\ wk[w].moment <= clock
  BY <1>1 DEF RunnerInv, Types, LocalTypes, LocalOK, MailPc
<1>6. PICK n, i : n = [wk[w] EXCEPT !.pc = pc, !.out = st] /\ i = wk[w].row
  OBVIOUS
<1>7. /\ world' = [world EXCEPT ![i] = @ + sent] /\ doubts' = [doubts EXCEPT ![i] = @ + d]
      /\ wk' = [wk EXCEPT ![w] = n]
  <2>1. AfterMail(o.answer)[1] = pc /\ AfterMail(o.answer)[2] = st
    <3>1. <<pc, st>>[1] = pc /\ <<pc, st>>[2] = st
      OBVIOUS
    <3>2. AfterMail(o.answer) = <<pc, st>>
      BY <1>3
    <3> HIDE DEF AfterMail
    <3> QED BY <3>1, <3>2, Zenon
  <2>2. wk' = [wk EXCEPT ![w] = n]
    BY <1>2, <1>6, <2>1
  <2>3. world' = [world EXCEPT ![i] = @ + sent] /\ doubts' = [doubts EXCEPT ![i] = @ + d]
    BY <1>2, <1>4, <1>6, Zenon
  <2> QED BY <2>2, <2>3
<1>8. /\ n \in Local /\ n.row = i /\ n.fence = wk[w].fence /\ n.moment = wk[w].moment
      /\ n.pc = pc /\ n.out = st
  BY <1>3, <1>5, <1>6 DEF Local, Pc, MailPc
<1>9. LocalOK(n) /\ Kept(wk[w], n)
  BY <1>1, <1>3, <1>5, <1>6, <1>8
     DEF LocalOK, Kept, CheckPc, RefreshPc, MailPc, ClaimedPc, SendPc
<1>10. MayGo(w, n)
  <2>1. w \in scene.workers
    BY <1>1, AtWork DEF RunnerInv
  <2> QED BY <2>1, <1>3, <1>5, <1>8, <1>9 DEF MayGo, GatePc
<1>11. /\ StoreTypes' /\ LocalTypes' /\ Owned' /\ Drained' /\ Notices' /\ Lone'
       /\ \A v, u \in Worker : OneSender(v, u)'
       /\ \A v \in Worker : Claimant(v)'
  BY <1>1, <1>7, <1>10, GoesOn, HostStays
<1>12. wk'[w] = n /\ \A v \in Worker : v # w => wk'[v] = wk[v]
  BY <1>7 DEF RunnerInv, Types, LocalTypes
<1>13. /\ world \in [Notes -> Nat] /\ doubts \in [Notes -> Nat]
       /\ mails' = mails /\ mails[i].st \in {"SENDING", "UNKNOWN"}
       /\ world[i] <= doubts[i] /\ i \in Notes
  BY <1>1, <1>5, <1>6
     DEF RunnerInv, Types, OtherTypes, Sends, Sender, SendPc, storeVars
<1>14. /\ world' \in [Notes -> Nat] /\ doubts' \in [Notes -> Nat]
       /\ world'[i] = world[i] + sent /\ doubts'[i] = doubts[i] + d
       /\ \A j \in Notes : j # i => world'[j] = world[j] /\ doubts'[j] = doubts[j]
  <2>1. world' \in [Notes -> Nat] /\ world'[i] = world[i] + sent
    BY <1>7, <1>13
  <2>2. doubts' \in [Notes -> Nat] /\ doubts'[i] = doubts[i] + d
    BY <1>7, <1>13
  <2>3. \A j \in Notes : j # i => world'[j] = world[j] /\ doubts'[j] = doubts[j]
    BY <1>7, <1>13
  <2> QED BY <2>1, <2>2, <2>3
<1>15. OtherTypes'
  BY <1>1, <1>14 DEF RunnerInv, Types, OtherTypes
<1>16. ASSUME NEW v \in Worker PROVE Sender(v)'
  <2>1. CASE v = w
    <3>1. pc = "mail back" => sent <= d
      BY <1>3, <1>4
    <3>2. pc = "mail back" => world'[i] <= doubts'[i]
      <4>1. PICK a \in Nat, b \in Nat : a = world[i] /\ b = doubts[i] /\ a <= b
        BY <1>13
      <4>2. world'[i] = a + sent /\ doubts'[i] = b + d
        BY <4>1, <1>14
      <4>3. sent <= d => a + sent <= b + d
        BY <4>1
      <4> QED BY <3>1, <4>2, <4>3
    <3> QED BY <2>1, <3>2, <1>3, <1>8, <1>12, <1>13 DEF Sender
  <2>2. CASE v # w
    <3>1. wk'[v] = wk[v] /\ Sender(v)
      BY <2>2, <1>12 DEF RunnerInv, Sends
    <3>2. wk[v].pc \in SendPc => wk[v].row # i /\ wk[v].row \in Notes
      BY <2>2, <1>1, <1>6, Phases
         DEF RunnerInv, Sends, OneSender, SendPc, Types, LocalTypes, LocalOK
    <3> QED BY <3>1, <3>2, <1>13, <1>14 DEF Sender
  <2> QED BY <2>1, <2>2
<1>17. ASSUME NEW j \in Notes PROVE MailCount(j)'
  <2>1. MailCount(j)
    BY DEF RunnerInv, Sends
  <2>2. o.sent = sent /\ sent <= 1
    BY <1>3, <1>4
  <2> QED BY <2>1, <2>2, <1>13, <1>14 DEF MailCount
<1> QED BY <1>11, <1>15, <1>16, <1>17 DEF RunnerInv, Types, Sends

LEMMA RunThreadEnds ==
    ASSUME RunnerInv, NEW w \in Worker, ThreadEnds(w)
    PROVE  RunnerInv'
<1>1. wk[w].pc \in {"exited", "failed"}
      /\ UNCHANGED <<storeVars, scene, clock, asked, world, doubts>>
  BY DEF ThreadEnds, outside
<1>2. Free(w)
  BY <1>1, EmptyIsFree, Phases DEF RunnerInv, Empty, Between
<1>3. wk[w] \in Local /\ wk[w].moment <= clock
  BY DEF RunnerInv, Types, LocalTypes
<1>4. PICK n : n = [wk[w] EXCEPT !.pc = "over"]
  OBVIOUS
<1>5. n \in Local /\ n.pc = "over" /\ n.moment = wk[w].moment
  BY <1>3, <1>4 DEF Local, Pc
<1>6. Empty(n) /\ n.pc \notin GatePc /\ n.pc \notin SendPc
  BY <1>5, Phases DEF Empty, Between
<1>7. LocalOK(n) /\ n.pc # "check done"
  BY <1>5, <1>6 DEF LocalOK, Empty
<1>8. MayGo(w, n)
  BY <1>2, <1>3, <1>5, <1>6, <1>7 DEF MayGo
<1>9. HostKept
  BY DEF ThreadEnds, RunnerInv, Types, OtherTypes, HostKept, Host, HostState
<1>10. wk' = [wk EXCEPT ![w] = n]
  BY <1>4 DEF ThreadEnds, Goto
<1> QED BY <1>1, <1>6, <1>8, <1>9, <1>10, Goes

\* A worker whose mail was taken over ends the cycle quietly.
LEMMA RunSendingRefused ==
    ASSUME RunnerInv, NEW w \in Worker, wk[w].pc = "mail granted",
           ~MailHeld(wk[w].row, "CLAIMED", wk[w].fence), Leave(w, "top"), UNCHANGED Rest
    PROVE  RunnerInv'
<1>1. /\ \A c \in Connection : OwnsCheck(w, c)
      /\ \A k \in RefreshKey : OwnsRefresh(w, k)
      /\ \A i \in Notes : OwnsMail(w, i)
  BY DEF RunnerInv, Owned
<1>2. Free(w)
  BY <1>1 DEF OwnsCheck, OwnsRefresh, OwnsMail, Free, MailHeld, CheckPc, RefreshPc, SendPc
<1> QED BY <1>2, Leaves DEF Between

-----------------------------------------------------------------------------
(* Steps on the tables, part by part.                                       *)

\* Worker v keeps what it owns, and gains nothing.
Keeps(v) ==
    /\ \A c \in Connection : checks'[c].owner = v =>
          checks[c].owner = v /\ checks'[c].fence = checks[c].fence
    /\ \A k \in RefreshKey : refresh'[k].claim.owner = v =>
          refresh[k].claim.owner = v /\ refresh'[k].claim.fence = refresh[k].claim.fence
    /\ \A i \in Notes : mails'[i].claim.owner = v =>
          /\ mails[i].claim.owner = v /\ mails'[i].claim.fence = mails[i].claim.fence
          /\ mails'[i].st = mails[i].st

OwnsRows(v) ==
    /\ \A c \in Connection : OwnsCheck(v, c)
    /\ \A k \in RefreshKey : OwnsRefresh(v, k)
    /\ \A i \in Notes : OwnsMail(v, i)

LEMMA KeepsOwning ==
    ASSUME Owned, NEW v \in Worker, Keeps(v), wk'[v] = wk[v]
    PROVE  OwnsRows(v)'
<1>1. OwnsRows(v)
  BY DEF Owned, OwnsRows
<1>2. \A c \in Connection : OwnsCheck(v, c)'
  BY <1>1 DEF OwnsRows, OwnsCheck, Keeps
<1>3. \A k \in RefreshKey : OwnsRefresh(v, k)'
  BY <1>1 DEF OwnsRows, OwnsRefresh, Keeps
<1>4. \A i \in Notes : OwnsMail(v, i)'
  BY <1>1 DEF OwnsRows, OwnsMail, Keeps
<1> QED BY <1>2, <1>3, <1>4 DEF OwnsRows

\* A worker without a claim owns its rows trivially.
LEMMA FreeOwning ==
    ASSUME NEW v, Free(v)'
    PROVE  OwnsRows(v)'
  BY DEF Free, OwnsRows, OwnsCheck, OwnsRefresh, OwnsMail

\* The notices stay, acknowledged or not.
FeedSame ==
    /\ DOMAIN feed' = DOMAIN feed
    /\ \A i \in DOMAIN feed : feed'[i].key = feed[i].key /\ feed'[i].at = feed[i].at

\* One notice is added.
FeedGrows(x, t) ==
    /\ Len(feed) \in Nat /\ DOMAIN feed = 1..Len(feed) /\ DOMAIN feed' = 1..(Len(feed) + 1)
    /\ \A i \in DOMAIN feed : feed'[i].key = feed[i].key /\ feed'[i].at = feed[i].at
    /\ feed'[Len(feed) + 1].key = x /\ feed'[Len(feed) + 1].at = t

LEMMA NextIndex ==
    ASSUME NEW n \in Nat, NEW i \in 1..(n + 1), i \notin 1..n
    PROVE  i = n + 1
  OBVIOUS

\* The notice of a key is there after the step.
StillKnown(key) == \E i \in DOMAIN feed' : feed'[i].key = key

LEMMA KnownStays ==
    ASSUME FeedSame \/ \E x, t : FeedGrows(x, t), NEW key, Known(key)
    PROVE  StillKnown(key)
<1>1. PICK i \in DOMAIN feed : feed[i].key = key
  BY DEF Known
<1>2. i \in DOMAIN feed' /\ feed'[i].key = key
  BY <1>1 DEF FeedSame, FeedGrows
<1> QED BY <1>2 DEF StillKnown

\* The notices of an unchanged feed are as they were.
LEMMA SameNotices ==
    ASSUME FirstKnown, Spaced, FeedSame
    PROVE  FirstKnown' /\ Spaced'
<1>1. ASSUME NEW i \in DOMAIN feed', feed'[i].key[1] = "required"
      PROVE  StillKnown(FirstNotice(feed'[i].key[2], feed'[i].key[3]))
  <2>1. i \in DOMAIN feed /\ feed'[i].key = feed[i].key
    BY DEF FeedSame
  <2>2. Known(FirstNotice(feed[i].key[2], feed[i].key[3]))
    BY <1>1, <2>1 DEF FirstKnown
  <2> QED BY <2>1, <2>2, KnownStays
<1>2. Spaced'
  BY DEF Spaced, FeedSame, SameStage
<1> QED BY <1>1, <1>2 DEF FirstKnown, Known, StillKnown, FirstNotice

\* A new notice follows the first one of its incident, at a distance.
LEMMA NewNotice ==
    ASSUME StoreTypes, FirstKnown, Spaced, NEW x, NEW t \in Nat, FeedGrows(x, t),
           x[1] = "required" =>
               x = FirstNotice(x[2], x[3]) \/ Known(FirstNotice(x[2], x[3])),
           x[1] \in Reminded =>
               \A i \in DOMAIN feed : SameStage(feed[i].key, x) => t - feed[i].at >= 1
    PROVE  FirstKnown' /\ Spaced' /\ StillKnown(x)
<1>0. /\ Len(feed) \in Nat /\ DOMAIN feed = 1..Len(feed) /\ DOMAIN feed' = 1..(Len(feed) + 1)
      /\ feed'[Len(feed) + 1].key = x /\ feed'[Len(feed) + 1].at = t
      /\ \A i \in DOMAIN feed : feed'[i].key = feed[i].key /\ feed'[i].at = feed[i].at
  BY DEF FeedGrows
<1>1. StillKnown(x)
  BY <1>0 DEF StillKnown
<1>2. ASSUME NEW i \in DOMAIN feed', feed'[i].key[1] = "required"
      PROVE  StillKnown(FirstNotice(feed'[i].key[2], feed'[i].key[3]))
  <2>1. CASE i \in DOMAIN feed
    <3>1. feed'[i].key = feed[i].key
      BY <1>0, <2>1
    <3>2. Known(FirstNotice(feed[i].key[2], feed[i].key[3]))
      BY <1>2, <2>1, <3>1 DEF FirstKnown
    <3> QED BY <3>1, <3>2, KnownStays
  <2>2. CASE i = Len(feed) + 1
    <3>1. feed'[i].key = x
      BY <1>0, <2>2
    <3>2. x = FirstNotice(x[2], x[3]) \/ Known(FirstNotice(x[2], x[3]))
      BY <1>2, <3>1
    <3> QED BY <1>1, <3>1, <3>2, KnownStays
  <2> QED BY <1>0, <2>1, <2>2
<1>3. ASSUME NEW i \in DOMAIN feed', NEW j \in DOMAIN feed', i < j,
             feed'[i].key[1] \in Reminded, SameStage(feed'[i].key, feed'[j].key)
      PROVE  feed'[j].at - feed'[i].at >= 1
  <2>1. i \in DOMAIN feed /\ feed'[i].key = feed[i].key /\ feed'[i].at = feed[i].at
    BY <1>0, <1>3
  <2>2. CASE j \in DOMAIN feed
    BY <1>0, <1>3, <2>1, <2>2 DEF Spaced
  <2>3. CASE j = Len(feed) + 1
    <3>1. x[1] \in Reminded /\ SameStage(feed[i].key, x)
      BY <1>0, <1>3, <2>1, <2>3 DEF SameStage
    <3> QED BY <1>0, <2>1, <2>3, <3>1
  <2> QED BY <1>0, <2>2, <2>3
<1>4. FirstKnown'
  BY <1>2 DEF FirstKnown, Known, StillKnown, FirstNotice
<1>5. Spaced'
  BY <1>3 DEF Spaced, SameStage
<1> QED BY <1>1, <1>4, <1>5

\* The draft of a worker stays true while the notices stay, or grow by one
\* that is not about the connection whose claim the worker has.
LEMMA DraftStays ==
    ASSUME Types, NEW v \in Worker, Drafted(v), wk'[v] = wk[v], Keeps(v),
           \/ FeedSame
           \/ \E x, t : /\ FeedGrows(x, t)
                        /\ x[1] \in Reminded =>
                              \A c \in Connection : checks'[c].owner = v => x[2] # c
    PROVE  Drafted(v)'
<1> SUFFICES ASSUME wk[v].pc = "check done"
             PROVE  Drafted(v)'
  BY DEF Drafted
<1>1. DraftKeys(wk[v]) /\ DraftAnnounces(wk[v]) /\ DraftSpaced(v, wk[v])
  BY DEF Drafted
<1>2. \A key : Known(key) => StillKnown(key)
  BY KnownStays
<1>3. PICK k : k = wk[v]
  OBVIOUS
<1>4. k.row \in Connection
  BY <1>3 DEF Types, LocalTypes, LocalOK, CheckPc
<1>5. DraftKeys(k)
  BY <1>1, <1>3
<1>6. /\ Invalidated(k.obs) =>
            FirstNotice(k.row, k.obs.gen) \in k.draft \/ StillKnown(FirstNotice(k.row, k.obs.gen))
      /\ \A x \in k.draft :
            x[1] = "required" =>
                x = FirstNotice(x[2], x[3]) \/ StillKnown(FirstNotice(x[2], x[3]))
  BY <1>1, <1>2, <1>3 DEF DraftAnnounces
<1>7. ASSUME Holds(checks'[k.row], v, k.fence), NEW y \in k.draft, y[1] \in Reminded,
             NEW i \in DOMAIN feed', SameStage(feed'[i].key, y)
      PROVE  k.moment - feed'[i].at >= 1
  <2>1. Holds(checks[k.row], v, k.fence) /\ checks'[k.row].owner = v
    BY <1>4, <1>7 DEF Keeps, Holds
  <2>2. y[2] = k.row
    BY <1>5, <1>7 DEF DraftKeys
  <2>3. i \in DOMAIN feed
    <3>1. CASE FeedSame
      BY <3>1 DEF FeedSame
    <3>2. ASSUME NEW x, NEW t, FeedGrows(x, t), i \notin DOMAIN feed,
                 x[1] \in Reminded => \A c \in Connection : checks'[c].owner = v => x[2] # c
          PROVE  FALSE
      <4>0. /\ Len(feed) \in Nat /\ i \in 1..(Len(feed) + 1) /\ i \notin 1..Len(feed)
        BY <3>2 DEF FeedGrows
      <4>1. i = Len(feed) + 1
        BY <4>0, NextIndex
      <4>2. feed'[i].key = x
        BY <3>2, <4>1 DEF FeedGrows
      <4>3. x[1] \in Reminded /\ x[2] = k.row
        BY <4>2, <1>7, <2>2 DEF SameStage
      <4> QED BY <4>3, <3>2, <2>1, <1>4
    <3> QED BY <3>1, <3>2
  <2>4. feed'[i].key = feed[i].key /\ feed'[i].at = feed[i].at
    BY <2>3 DEF FeedSame, FeedGrows
  <2> QED BY <2>1, <2>3, <2>4, <1>1, <1>3, <1>7 DEF DraftSpaced
<1>8. DraftKeys(wk'[v])
  BY <1>3, <1>5
<1>9. DraftAnnounces(wk[v])'
  BY <1>3, <1>6 DEF DraftAnnounces, Known, StillKnown, FirstNotice
<1>10. DraftSpaced(v, wk[v])'
  BY <1>3, <1>7 DEF DraftSpaced
<1> QED BY <1>3, <1>8, <1>9, <1>10 DEF Drafted, DraftKeys

\* Mails that no sender is concerned with, before and after the step.
Calm == {"NONE", "READY", "CLAIMED"}
Settled(i) ==
    \/ mails'[i].st = mails[i].st
    \/ mails[i].st = "SENDING" /\ mails'[i].st = "UNKNOWN"
    \/ mails[i].st \in Calm /\ mails'[i].st \in Calm

\* The claim of a mail keeps its fence and owner, passes to nobody, or is
\* a new one.
Fenced(i) ==
    mails[i].st # "NONE" =>
        /\ mails'[i].st # "NONE"
        /\ \/ /\ mails'[i].claim.fence = mails[i].claim.fence
              /\ mails'[i].claim.owner \in {mails[i].claim.owner, Nobody, Gone}
           \/ mails'[i].claim.fence = mails[i].claim.fence + 1

LEMMA OwnFence ==
    \A f \in Nat : f <= f
  OBVIOUS

LEMMA ClaimantStays ==
    ASSUME RunnerInv, NEW v \in Worker, wk'[v] = wk[v],
           wk[v].pc \in ClaimedPc => Fenced(wk[v].row)
    PROVE  Claimant(v)'
<1> SUFFICES ASSUME wk[v].pc \in ClaimedPc PROVE Claimant(v)'
  BY DEF Claimant
<1>1. StoreTypes /\ wk[v] \in Local
  BY DEF RunnerInv, Types, LocalTypes
<1>2. PICK i \in Notes : i = wk[v].row
  BY Phases DEF RunnerInv, Types, LocalTypes, LocalOK
<1>3. wk[v].fence \in Nat /\ mails[i].claim.fence \in Nat
  BY <1>1 DEF Local, StoreTypes, MailRow, Claim
<1>4. /\ mails[i].st # "NONE" /\ wk[v].fence <= mails[i].claim.fence
      /\ wk[v].fence = mails[i].claim.fence => mails[i].claim.owner \in {v, Nobody, Gone}
  BY <1>2 DEF RunnerInv, Sends, Claimant
<1>5. Fenced(i)
  BY <1>2
<1>6. PICK a \in Nat, b \in Nat : a = wk[v].fence /\ b = mails[i].claim.fence /\ a <= b
  BY <1>3, <1>4
<1>7. CASE mails'[i].claim.fence = b + 1
  <2>1. a <= b + 1 /\ a # b + 1
    BY <1>6
  <2> QED BY <2>1, <1>2, <1>4, <1>5, <1>6, <1>7 DEF Claimant, Fenced
<1>8. CASE /\ mails'[i].claim.fence = b
           /\ mails'[i].claim.owner \in {mails[i].claim.owner, Nobody, Gone}
  BY <1>2, <1>4, <1>5, <1>6, <1>8 DEF Claimant, Fenced
<1> QED BY <1>4, <1>5, <1>6, <1>7, <1>8 DEF Fenced

LEMMA SendsStay ==
    ASSUME RunnerInv, UNCHANGED <<world, doubts>>,
           \A i \in Notes : Settled(i) /\ Fenced(i),
           \A v \in Worker : wk'[v] = wk[v] \/ (wk'[v].pc \notin SendPc /\ Claimant(v)')
    PROVE  Sends'
<1>1. ASSUME NEW v \in Worker PROVE Sender(v)'
  <2>1. Sender(v)
    BY DEF RunnerInv, Sends
  <2>2. wk[v].pc \in SendPc => wk[v].row \in Notes
    BY Phases DEF RunnerInv, Types, LocalTypes, LocalOK
  <2>4. CASE wk'[v] = wk[v]
    <3> SUFFICES ASSUME wk[v].pc \in SendPc PROVE Sender(v)'
      BY <2>4 DEF Sender
    <3>1. PICK i \in Notes : i = wk[v].row
      BY <2>2
    <3>2. /\ mails[i].st \in {"SENDING", "UNKNOWN"}
          /\ wk[v].pc # "mail done" => world[i] <= doubts[i]
      BY <2>1, <3>1 DEF Sender
    <3>3. mails'[i].st \in {"SENDING", "UNKNOWN"}
      BY <3>2 DEF Settled, Calm
    <3> QED BY <2>4, <3>1, <3>2, <3>3 DEF Sender
  <2>5. CASE wk'[v].pc \notin SendPc
    BY <2>5 DEF Sender
  <2> QED BY <2>4, <2>5
<1>2. ASSUME NEW v \in Worker, NEW u \in Worker PROVE OneSender(v, u)'
  BY DEF RunnerInv, Sends, OneSender
<1>3. ASSUME NEW i \in Notes PROVE MailCount(i)'
  <2>1. MailCount(i) /\ Settled(i)
    BY DEF RunnerInv, Sends
  <2> QED BY <2>1 DEF MailCount, Settled, Calm
<1>4. ASSUME NEW v \in Worker PROVE Claimant(v)'
  <2>1. wk[v].pc \in ClaimedPc => wk[v].row \in Notes
    BY Phases DEF RunnerInv, Types, LocalTypes, LocalOK
  <2> QED BY <2>1, ClaimantStays
<1> QED BY <1>1, <1>2, <1>3, <1>4 DEF Sends

\* A step of one worker with a transaction.
LEMMA WorkerTransaction ==
    ASSUME RunnerInv, NEW w \in Worker, NEW n \in Local, LocalOK(n),
           wk' = [wk EXCEPT ![w] = n], UNCHANGED <<host, outside>>,
           n.moment = wk[w].moment, wk[w].pc # "over",
           n.pc \notin GatePc, n.pc # "over", n.pc # "failed", n.pc # "check done",
           StoreTypes', OwnsRows(w)', Sends',
           \A v \in Worker : v # w => Keeps(v),
           FirstKnown', Spaced', IncidentsAnnounced',
           \/ FeedSame
           \/ \E x, t : /\ FeedGrows(x, t)
                        /\ x[1] \in Reminded => checks'[x[2]].owner = Nobody,
           scene.workers = {w} => Grip(w)'
    PROVE  RunnerInv'
<1>0. UNCHANGED <<host, scene, clock, asked, world, doubts>>
  BY DEF outside
<1>1. wk'[w] = n /\ \A v \in Worker : v # w => wk'[v] = wk[v]
  BY DEF RunnerInv, Types, LocalTypes
<1>2. Types'
  <2>1. LocalTypes'
    BY <1>0, <1>1 DEF RunnerInv, Types, LocalTypes
  <2>2. OtherTypes'
    BY <1>0 DEF RunnerInv, Types, OtherTypes
  <2> QED BY <2>1, <2>2 DEF Types
<1>3. Owned'
  <2>1. ASSUME NEW v \in Worker PROVE OwnsRows(v)'
    BY <1>1, KeepsOwning DEF RunnerInv
  <2> QED BY <2>1 DEF Owned, OwnsRows
<1>4. Drained'
  BY <1>0, <1>1 DEF RunnerInv, Drained
<1>5. Notices'
  <2>1. ASSUME NEW v \in Worker PROVE Drafted(v)'
    <3>1. CASE v = w
      BY <3>1, <1>1 DEF Drafted
    <3>2. CASE v # w
      <4>1. wk'[v] = wk[v] /\ Keeps(v) /\ Drafted(v) /\ Types
        BY <3>2, <1>1 DEF RunnerInv, Notices
      <4>2. \/ FeedSame
            \/ \E x, t : /\ FeedGrows(x, t)
                         /\ x[1] \in Reminded =>
                               \A c \in Connection : checks'[c].owner = v => x[2] # c
        BY AuthorizationAssumption
      <4> QED BY <4>1, <4>2, DraftStays
    <3> QED BY <3>1, <3>2
  <2> QED BY <2>1 DEF Notices
<1>6. Lone'
  <2>1. w \in scene.workers
    BY AtWork DEF RunnerInv
  <2>2. \A v \in Worker : v \notin scene'.workers => wk'[v].pc = "over"
    BY <1>0, <1>1, <2>1 DEF RunnerInv, Lone
  <2>3. ASSUME NEW v \in Worker, scene'.workers = {v}
        PROVE  wk'[v].pc # "failed" /\ Grip(v)'
    <3>1. v = w
      BY <1>0, <2>1, <2>3
    <3> QED BY <3>1, <1>0, <1>1, <2>3
  <2> QED BY <2>2, <2>3 DEF Lone
<1> QED BY <1>2, <1>3, <1>4, <1>5, <1>6 DEF RunnerInv

\* A worker leaves the phase of its row with a transaction.
LEMMA LeavesWithTransaction ==
    ASSUME RunnerInv, NEW w \in Worker, NEW pc \in Between, Leave(w, pc),
           pc # "over", pc # "failed", wk[w].pc # "over", UNCHANGED <<host, outside>>,
           StoreTypes', Free(w)', Sends',
           \A v \in Worker : v # w => Keeps(v),
           FirstKnown', Spaced', IncidentsAnnounced',
           \/ FeedSame
           \/ \E x, t : /\ FeedGrows(x, t)
                        /\ x[1] \in Reminded => checks'[x[2]].owner = Nobody
    PROVE  RunnerInv'
<1>1. wk[w].moment \in Nat
  BY DEF RunnerInv, Types, LocalTypes, Local
<1>2. PICK n : n = Idle(pc, wk[w].moment)
  OBVIOUS
<1>3. /\ n \in Local /\ LocalOK(n) /\ Empty(n) /\ n.pc = pc /\ n.moment = wk[w].moment
      /\ n.pc \notin GatePc /\ n.pc # "check done"
  BY <1>1, <1>2, IdleLocal
<1>4. wk' = [wk EXCEPT ![w] = n]
  BY <1>2 DEF Leave
<1>5. OwnsRows(w)'
  BY FreeOwning
<1>6. Grip(w)'
  <2>1. wk'[w] = n
    BY <1>4 DEF RunnerInv, Types, LocalTypes
  <2> QED BY <2>1, <1>3, Phases DEF Empty, Grip
<1> QED BY <1>3, <1>4, <1>5, <1>6, WorkerTransaction

LEMMA ClaimFacts ==
    ASSUME NEW cl \in Claim, NEW w \in Worker
    PROVE  /\ Claimed(cl, w) \in Claim /\ Claimed(cl, w).owner = w
           /\ Claimed(cl, w).fence = cl.fence + 1
           /\ Released(cl) \in Claim /\ Released(cl).owner = Nobody
           /\ Released(cl).fence = cl.fence
           /\ cl.fence \in Nat /\ cl.fence + 1 \in Nat
<1>1. cl.fence \in Nat /\ cl.fence + 1 \in Nat /\ cl.owner \in Owner /\ cl.live \in BOOLEAN
  BY DEF Claim
<1>2. w \in Owner /\ Nobody \in Owner
  BY DEF Owner
<1>3. Claimed(cl, w) \in Claim
  BY <1>1, <1>2 DEF Claim, Claimed
<1>4. Released(cl) \in Claim
  BY <1>1, <1>2 DEF Claim, Released
<1>5. Claimed(cl, w).owner = w /\ Claimed(cl, w).fence = cl.fence + 1
  BY DEF Claimed
<1>6. Released(cl).owner = Nobody /\ Released(cl).fence = cl.fence
  BY DEF Released, Claim
<1> QED BY <1>1, <1>3, <1>4, <1>5, <1>6

\* The locals of a worker that has claimed a row.
TakenLocal(k, pc, r, f) == [k EXCEPT !.pc = pc, !.row = r, !.fence = f]

LEMMA AnnouncedStays ==
    ASSUME StoreTypes, IncidentsAnnounced, UNCHANGED health,
           FeedSame \/ \E x, t : FeedGrows(x, t)
    PROVE  IncidentsAnnounced'
<1>1. ASSUME NEW c \in Connection, Invalidated(health[c])
      PROVE  StillKnown(<<"required", c, health[c].gen, 0>>)
  BY <1>1, KnownStays DEF IncidentsAnnounced
<1> QED BY <1>1 DEF IncidentsAnnounced, StillKnown, Known, Invalidated

\* The feed and the observations stay.
LEMMA NoticesStay ==
    ASSUME RunnerInv, UNCHANGED <<feed, health>>
    PROVE  FeedSame /\ FirstKnown' /\ Spaced' /\ IncidentsAnnounced'
<1>1. FeedSame
  BY DEF FeedSame
<1>2. StoreTypes /\ FirstKnown /\ Spaced /\ IncidentsAnnounced
  BY DEF RunnerInv, Types, Notices
<1> QED BY <1>1, <1>2, SameNotices, AnnouncedStays

-----------------------------------------------------------------------------
(* The transactions on checks and refreshes that claim and release.         *)

LEMMA RunClaimCheck ==
    ASSUME RunnerInv, NEW w \in Worker, wk[w].pc = "check gate", NEW c \in Connection,
           ClaimCheck(w, c), UNCHANGED <<host, outside>>,
           wk' = [wk EXCEPT ![w] = TakenLocal(@, "check claimed", c, checks[c].fence + 1)]
    PROVE  RunnerInv'
<1>1. StoreTypes /\ wk[w] \in Local /\ Free(w)
  BY EmptyIsFree, Phases DEF RunnerInv, Types, LocalTypes, Empty, GatePc
<1>2. /\ checks[c] \in Claim /\ checks[c].fence + 1 \in Nat
      /\ checks' = [checks EXCEPT ![c] = Claimed(@, w)]
      /\ UNCHANGED <<health, feed, mails, refresh, clouds>>
  BY <1>1, ClaimFacts DEF StoreTypes, ClaimCheck
<1>3. PICK f, n : /\ f = checks[c].fence + 1 /\ f \in Nat
                  /\ n = TakenLocal(wk[w], "check claimed", c, f)
  BY <1>2, Zenon
<1>4. wk' = [wk EXCEPT ![w] = n]
  BY <1>3
<1>5. /\ n \in Local /\ n.pc = "check claimed" /\ n.row = c
      /\ n.fence = f /\ n.moment = wk[w].moment
  <2>1. "check claimed" \in Pc /\ c \in Row
    BY DEF Pc, CheckPc, Row
  <2> QED BY <1>1, <1>3, <2>1 DEF TakenLocal, Local
<1>6. LocalOK(n)
  BY <1>5 DEF LocalOK, CheckPc, RefreshPc, MailPc
<1>7. wk'[w] = n /\ \A v \in Worker : v # w => wk'[v] = wk[v]
  BY <1>4 DEF RunnerInv, Types, LocalTypes
<1>8. /\ checks'[c] \in Claim /\ checks'[c].owner = w /\ checks'[c].fence = f
      /\ \A d \in Connection : d # c => checks'[d] = checks[d]
      /\ checks' \in [Connection -> Claim]
  BY <1>1, <1>2, <1>3, ClaimFacts DEF StoreTypes
<1>9. StoreTypes'
  BY <1>1, <1>2, <1>8 DEF StoreTypes
<1>10. OwnsRows(w)'
  BY <1>1, <1>2, <1>5, <1>7, <1>8
     DEF Free, OwnsRows, OwnsCheck, OwnsRefresh, OwnsMail, CheckPc
<1>11. ASSUME NEW v \in Worker, v # w PROVE Keeps(v)
  BY <1>2, <1>8, <1>11 DEF Keeps
<1>12. Sends'
  <2>1. \A i \in Notes : Settled(i) /\ Fenced(i)
    BY <1>2 DEF Settled, Fenced
  <2>2. \A v \in Worker : wk'[v] = wk[v] \/ (wk'[v].pc \notin SendPc /\ Claimant(v)')
    BY <1>5, <1>7 DEF SendPc, ClaimedPc, Claimant
  <2> QED BY <2>1, <2>2, SendsStay DEF outside
<1>13. FeedSame /\ FirstKnown' /\ Spaced' /\ IncidentsAnnounced'
  BY <1>2, NoticesStay
<1>14. Grip(w)'
  BY <1>5, <1>7, <1>8, Phases DEF Grip, Holds, CheckPc
<1>15. /\ n.pc \notin GatePc /\ n.pc # "over" /\ n.pc # "failed" /\ n.pc # "check done"
       /\ wk[w].pc # "over"
  BY <1>5 DEF GatePc
<1> QED BY <1>4, <1>5, <1>6, <1>9, <1>10, <1>11, <1>12, <1>13, <1>14, <1>15,
           WorkerTransaction

LEMMA RunReleaseCheck ==
    ASSUME RunnerInv, NEW w \in Worker, wk[w].pc \in CheckPc,
           ReleaseCheck(w, wk[w].row, wk[w].fence), Leave(w, "refresh"),
           UNCHANGED <<host, outside>>
    PROVE  RunnerInv'
<1>1. StoreTypes /\ wk[w].row \in Connection
  BY DEF RunnerInv, Types, LocalTypes, LocalOK
<1>2. PICK c \in Connection : c = wk[w].row
  BY <1>1
<1>3. /\ checks[c].owner = w /\ checks' = [checks EXCEPT ![c] = Released(@)]
      /\ UNCHANGED <<health, feed, mails, refresh, clouds>>
  BY <1>2 DEF ReleaseCheck, Holds
<1>4. /\ checks'[c] \in Claim /\ checks'[c].owner = Nobody
      /\ \A d \in Connection : d # c => checks'[d] = checks[d]
      /\ checks' \in [Connection -> Claim]
  BY <1>1, <1>3, ClaimFacts DEF StoreTypes
<1>5. StoreTypes'
  BY <1>1, <1>3, <1>4 DEF StoreTypes
<1>6. Free(w)'
  BY <1>2, <1>3, <1>4, Phases, AuthorizationAssumption
     DEF Free, RunnerInv, Owned, OwnsCheck, OwnsRefresh, OwnsMail
<1>7. ASSUME NEW v \in Worker PROVE Keeps(v)
  BY <1>3, <1>4, AuthorizationAssumption DEF Keeps
<1>8. Sends'
  <2>1. \A i \in Notes : Settled(i) /\ Fenced(i)
    BY <1>3 DEF Settled, Fenced
  <2>2. wk'[w] = Idle("refresh", wk[w].moment) /\ \A v \in Worker : v # w => wk'[v] = wk[v]
    BY DEF Leave, RunnerInv, Types, LocalTypes
  <2>3. wk'[w].pc = "refresh"
    BY <2>2 DEF Idle
  <2>4. \A v \in Worker : wk'[v] = wk[v] \/ (wk'[v].pc \notin SendPc /\ Claimant(v)')
    BY <2>2, <2>3 DEF SendPc, ClaimedPc, Claimant
  <2> QED BY <2>1, <2>4, SendsStay DEF outside
<1>9. FeedSame /\ FirstKnown' /\ Spaced' /\ IncidentsAnnounced'
  BY <1>3, NoticesStay
<1>10. wk[w].pc # "over" /\ "refresh" \in Between
  BY Phases DEF Between
<1> QED BY <1>5, <1>6, <1>7, <1>8, <1>9, <1>10, LeavesWithTransaction

LEMMA RunTakeCheck ==
    ASSUME RunnerInv, NEW w \in Worker, TakeCheck(w)
    PROVE  RunnerInv'
<1>1. wk[w].pc = "check gate" /\ UNCHANGED <<host, outside>>
  BY DEF TakeCheck
<1>2. ASSUME NEW c \in Connection, ClaimCheck(w, c),
             wk' = [wk EXCEPT ![w] = TakenLocal(@, "check claimed", c, checks[c].fence + 1)]
      PROVE  RunnerInv'
  BY <1>1, <1>2, RunClaimCheck
<1>3. CASE Leave(w, "refresh") /\ UNCHANGED storeVars
  BY <1>1, <1>3, RunTakeNothing DEF GatePc, Between, Rest, outside
<1> QED BY <1>2, <1>3 DEF TakeCheck, TakenLocal

LEMMA RunGiveCheckBack ==
    ASSUME RunnerInv, NEW w \in Worker, GiveCheckBack(w)
    PROVE  RunnerInv'
<1>1. wk[w].pc \in CheckPc /\ UNCHANGED <<host, outside>>
  BY DEF GiveCheckBack, CheckPc
<1>2. CASE ReleaseCheck(w, wk[w].row, wk[w].fence) /\ Leave(w, "refresh")
  BY <1>1, <1>2, RunReleaseCheck
<1>3. CASE ~Holds(checks[wk[w].row], w, wk[w].fence) /\ Raise(w)
  BY <1>1, <1>3, Raises DEF outside
<1> QED BY <1>2, <1>3 DEF GiveCheckBack

LEMMA RefreshRowFacts ==
    ASSUME StoreTypes, NEW k \in RefreshKey
    PROVE  /\ refresh[k].st \in RefreshState /\ refresh[k].on \in Connection
           /\ refresh[k].claim \in Claim
  BY DEF StoreTypes, RefreshRow

LEMMA RunClaimRefresh ==
    ASSUME RunnerInv, NEW w \in Worker, wk[w].pc = "refresh gate", NEW k \in RefreshKey,
           ClaimRefresh(w, k), UNCHANGED <<host, outside>>,
           wk' = [wk EXCEPT ![w] = TakenLocal(@, "refresh claimed", k,
                                              refresh[k].claim.fence + 1)]
    PROVE  RunnerInv'
<1>1. StoreTypes /\ wk[w] \in Local /\ Free(w)
  BY EmptyIsFree, Phases DEF RunnerInv, Types, LocalTypes, Empty, GatePc
<1>2. /\ refresh[k].claim \in Claim /\ refresh[k].claim.fence + 1 \in Nat
      /\ refresh[k].on \in Connection
  BY <1>1, RefreshRowFacts, ClaimFacts
<1>3. PICK f, n : /\ f = refresh[k].claim.fence + 1 /\ f \in Nat
                  /\ n = TakenLocal(wk[w], "refresh claimed", k, f)
  BY <1>2, Zenon
<1>4. wk' = [wk EXCEPT ![w] = n]
  BY <1>3
<1>5. /\ n \in Local /\ n.pc = "refresh claimed" /\ n.row = k
      /\ n.fence = f /\ n.moment = wk[w].moment
  <2>1. "refresh claimed" \in Pc /\ k \in Row
    BY DEF Pc, RefreshPc, Row
  <2> QED BY <1>1, <1>3, <2>1 DEF TakenLocal, Local
<1>6. LocalOK(n)
  BY <1>5 DEF LocalOK, CheckPc, RefreshPc, MailPc
<1>7. wk'[w] = n /\ \A v \in Worker : v # w => wk'[v] = wk[v]
  BY <1>4 DEF RunnerInv, Types, LocalTypes
<1>8. /\ refresh'[k].claim.owner = w /\ refresh'[k].claim.fence = f
      /\ \A d \in RefreshKey : d # k => refresh'[d] = refresh[d]
      /\ refresh' \in [RefreshKey -> RefreshRow]
      /\ UNCHANGED <<checks, health, feed, mails, clouds>>
  <2>1. PICK cl \in Claim : cl = Claimed(refresh[k].claim, w) /\ cl.owner = w /\ cl.fence = f
    BY <1>2, <1>3, ClaimFacts
  <2>2. PICK q : q = [st |-> "RUNNING", on |-> refresh[k].on, claim |-> cl]
    OBVIOUS
  <2>3. q \in RefreshRow /\ q.claim = cl
    BY <1>1, <2>1, <2>2, RefreshRowFacts DEF RefreshRow, RefreshState
  <2>4. refresh' = [refresh EXCEPT ![k] = q] /\ UNCHANGED <<checks, health, feed, mails, clouds>>
    BY <2>1, <2>2 DEF ClaimRefresh
  <2> QED BY <1>1, <2>1, <2>3, <2>4 DEF StoreTypes
<1>9. StoreTypes'
  BY <1>1, <1>8 DEF StoreTypes
<1>10. OwnsRows(w)'
  BY <1>1, <1>5, <1>7, <1>8
     DEF Free, OwnsRows, OwnsCheck, OwnsRefresh, OwnsMail, RefreshPc
<1>11. ASSUME NEW v \in Worker, v # w PROVE Keeps(v)
  BY <1>8, <1>11 DEF Keeps
<1>12. Sends'
  <2>1. \A i \in Notes : Settled(i) /\ Fenced(i)
    BY <1>8 DEF Settled, Fenced
  <2>2. \A v \in Worker : wk'[v] = wk[v] \/ (wk'[v].pc \notin SendPc /\ Claimant(v)')
    BY <1>5, <1>7 DEF SendPc, ClaimedPc, Claimant
  <2> QED BY <2>1, <2>2, SendsStay DEF outside
<1>13. FeedSame /\ FirstKnown' /\ Spaced' /\ IncidentsAnnounced'
  BY <1>8, NoticesStay
<1>14. Grip(w)'
  BY <1>5, <1>7, <1>8, Phases DEF Grip, Holds, RefreshPc
<1>15. /\ n.pc \notin GatePc /\ n.pc # "over" /\ n.pc # "failed" /\ n.pc # "check done"
       /\ wk[w].pc # "over"
  BY <1>5 DEF GatePc
<1> QED BY <1>4, <1>5, <1>6, <1>9, <1>10, <1>11, <1>12, <1>13, <1>14, <1>15,
           WorkerTransaction

LEMMA RunTakeRefresh ==
    ASSUME RunnerInv, NEW w \in Worker, TakeRefresh(w)
    PROVE  RunnerInv'
<1>1. wk[w].pc = "refresh gate" /\ UNCHANGED <<host, outside>>
  BY DEF TakeRefresh
<1>2. ASSUME NEW k \in RefreshKey, ClaimRefresh(w, k),
             wk' = [wk EXCEPT ![w] = TakenLocal(@, "refresh claimed", k,
                                                refresh[k].claim.fence + 1)]
      PROVE  RunnerInv'
  BY <1>1, <1>2, RunClaimRefresh
<1>3. CASE Leave(w, "mail") /\ UNCHANGED storeVars
  BY <1>1, <1>3, RunTakeNothing DEF GatePc, Between, Rest, outside
<1> QED BY <1>2, <1>3 DEF TakeRefresh, TakenLocal

\* What a worker that leaves does to the mails is nothing to other senders.
LEMMA OthersSend ==
    ASSUME RunnerInv, NEW w \in Worker, NEW pc \in Between, Leave(w, pc),
           UNCHANGED <<world, doubts>>, \A i \in Notes : Settled(i) /\ Fenced(i)
    PROVE  Sends'
<1>1. wk'[w] = Idle(pc, wk[w].moment) /\ \A v \in Worker : v # w => wk'[v] = wk[v]
  BY DEF Leave, RunnerInv, Types, LocalTypes
<1>2. wk'[w].pc \notin SendPc /\ wk'[w].pc \notin ClaimedPc
  <2>1. Idle(pc, wk[w].moment).pc = pc
    BY DEF Idle
  <2> QED BY <1>1, <2>1, Phases
<1>3. \A v \in Worker : wk'[v] = wk[v] \/ (wk'[v].pc \notin SendPc /\ Claimant(v)')
  BY <1>1, <1>2 DEF Claimant
<1> QED BY <1>3, SendsStay

LEMMA RunReleaseRefresh ==
    ASSUME RunnerInv, NEW w \in Worker, wk[w].pc \in RefreshPc,
           ReleaseRefresh(w, wk[w].row, wk[w].fence), Leave(w, "mail"),
           UNCHANGED <<host, outside>>
    PROVE  RunnerInv'
<1>1. StoreTypes /\ wk[w].row \in RefreshKey
  BY DEF RunnerInv, Types, LocalTypes, LocalOK
<1>2. PICK k \in RefreshKey : k = wk[w].row
  BY <1>1
<1>3. /\ refresh'[k].claim.owner = Nobody
      /\ \A d \in RefreshKey : d # k => refresh'[d] = refresh[d]
      /\ refresh' \in [RefreshKey -> RefreshRow]
      /\ refresh[k].claim.owner = w
      /\ UNCHANGED <<checks, health, feed, mails, clouds>>
  <2>1. PICK cl \in Claim : cl = Released(refresh[k].claim) /\ cl.owner = Nobody
    BY <1>1, RefreshRowFacts, ClaimFacts
  <2>2. PICK q : q = [st |-> "QUEUED", on |-> refresh[k].on, claim |-> cl]
    OBVIOUS
  <2>3. q \in RefreshRow /\ q.claim = cl
    BY <1>1, <2>1, <2>2, RefreshRowFacts DEF RefreshRow, RefreshState
  <2>4. refresh' = [refresh EXCEPT ![k] = q] /\ UNCHANGED <<checks, health, feed, mails, clouds>>
        /\ refresh[k].claim.owner = w
    BY <1>2, <2>1, <2>2 DEF ReleaseRefresh, Holds
  <2> QED BY <1>1, <2>1, <2>3, <2>4 DEF StoreTypes
<1>5. StoreTypes'
  BY <1>1, <1>3 DEF StoreTypes
<1>6. Free(w)'
  BY <1>2, <1>3, Phases, AuthorizationAssumption
     DEF Free, RunnerInv, Owned, OwnsCheck, OwnsRefresh, OwnsMail
<1>7. ASSUME NEW v \in Worker PROVE Keeps(v)
  BY <1>3, AuthorizationAssumption DEF Keeps
<1>8. wk[w].pc # "over" /\ "mail" \in Between
  BY Phases DEF Between
<1>9. Sends'
  <2>1. \A i \in Notes : Settled(i) /\ Fenced(i)
    BY <1>3 DEF Settled, Fenced
  <2> QED BY <1>8, <2>1, OthersSend DEF outside
<1>10. FeedSame /\ FirstKnown' /\ Spaced' /\ IncidentsAnnounced'
  BY <1>3, NoticesStay
<1> QED BY <1>5, <1>6, <1>7, <1>8, <1>9, <1>10, LeavesWithTransaction

LEMMA RunGiveRefreshBack ==
    ASSUME RunnerInv, NEW w \in Worker, GiveRefreshBack(w)
    PROVE  RunnerInv'
<1>1. wk[w].pc \in RefreshPc /\ UNCHANGED <<host, outside>>
  BY DEF GiveRefreshBack, RefreshPc
<1>2. CASE ReleaseRefresh(w, wk[w].row, wk[w].fence) /\ Leave(w, "mail")
  BY <1>1, <1>2, RunReleaseRefresh
<1>3. CASE ~Holds(refresh[wk[w].row].claim, w, wk[w].fence) /\ Raise(w)
  BY <1>1, <1>3, Raises DEF outside
<1> QED BY <1>2, <1>3 DEF GiveRefreshBack

-----------------------------------------------------------------------------
(* The transactions on mails that claim, mark and release.                  *)

LEMMA MailRowFacts ==
    ASSUME StoreTypes, NEW i \in Notes
    PROVE  mails[i] \in MailRow /\ mails[i].st \in MailState /\ mails[i].claim \in Claim
  BY DEF StoreTypes, MailRow

\* Recovery ends expired claims and touches nothing else.
LEMMA RecoveredFacts ==
    ASSUME StoreTypes, NEW i \in Notes
    PROVE  /\ Recovered[i] \in MailRow
           /\ Recovered[i].claim.fence = mails[i].claim.fence
           /\ Recovered[i].st = "NONE" => mails[i].st = "NONE"
           /\ \/ Recovered[i] = mails[i]
              \/ /\ Recovered[i].claim.owner = Nobody
                 /\ \/ mails[i].st = "CLAIMED" /\ Recovered[i].st = "READY"
                    \/ mails[i].st = "SENDING" /\ Recovered[i].st = "UNKNOWN"
<1>1. mails[i] \in MailRow /\ mails[i].claim \in Claim
  BY MailRowFacts
<1>2. PICK cl \in Claim : /\ cl = Released(mails[i].claim) /\ cl.owner = Nobody
                          /\ cl.fence = mails[i].claim.fence
  <2>1. mails[i].claim.fence \in Nat /\ mails[i].claim.owner \in Owner
    BY <1>1 DEF Claim
  <2>2. Released(mails[i].claim) \in Claim
    BY <1>1 DEF Released, Claim, Owner
  <2>3. /\ Released(mails[i].claim).owner = Nobody
        /\ Released(mails[i].claim).fence = mails[i].claim.fence
    BY <1>1 DEF Released, Claim
  <2> QED BY <2>2, <2>3
<1>3. Recovered[i] = RecoveredMail(mails[i])
  BY DEF Recovered
<1>4. CASE ~(mails[i].st \in {"CLAIMED", "SENDING"} /\ ~mails[i].claim.live)
  <2>1. Recovered[i] = mails[i]
    BY <1>3, <1>4 DEF RecoveredMail
  <2> QED BY <1>1, <2>1
<1>5. CASE mails[i].st = "CLAIMED" /\ ~mails[i].claim.live
  <2>1. Recovered[i] = [st |-> "READY", claim |-> cl]
    BY <1>2, <1>3, <1>5 DEF RecoveredMail
  <2> QED BY <1>2, <1>5, <2>1 DEF MailRow, MailState
<1>6. CASE mails[i].st = "SENDING" /\ ~mails[i].claim.live
  <2>1. Recovered[i] = [st |-> "UNKNOWN", claim |-> cl]
    BY <1>2, <1>3, <1>6 DEF RecoveredMail
  <2> QED BY <1>2, <1>6, <2>1 DEF MailRow, MailState, MailTerminal
<1> QED BY <1>4, <1>5, <1>6

\* Nothing but the mails changes, and each mail changes by a recovery at
\* most, or becomes the claimed mail of w.
LEMMA RunClaimNoMail ==
    ASSUME RunnerInv, NEW w \in Worker, wk[w].pc = "mail gate", ClaimNoMail,
           Leave(w, "top"), UNCHANGED <<host, outside>>
    PROVE  RunnerInv'
<1>1. StoreTypes /\ Free(w)
  BY EmptyIsFree, Phases DEF RunnerInv, Types, Empty, GatePc
<1>2. mails' = Recovered /\ UNCHANGED <<checks, health, feed, refresh, clouds>>
  BY DEF ClaimNoMail
<1>3. ASSUME NEW i \in Notes
      PROVE  /\ mails'[i] \in MailRow
             /\ mails'[i].claim.fence = mails[i].claim.fence
             /\ mails'[i].st = "NONE" => mails[i].st = "NONE"
             /\ \/ mails'[i] = mails[i]
                \/ /\ mails'[i].claim.owner = Nobody
                   /\ \/ mails[i].st = "CLAIMED" /\ mails'[i].st = "READY"
                      \/ mails[i].st = "SENDING" /\ mails'[i].st = "UNKNOWN"
  BY <1>1, <1>2, RecoveredFacts
<1>4. StoreTypes'
  <2>1. mails' \in [Notes -> MailRow]
    <3>1. DOMAIN mails' = Notes /\ mails' = [i \in Notes |-> mails'[i]]
      BY <1>2 DEF Recovered
    <3> QED BY <1>3, <3>1
  <2>2. ASSUME NEW i \in Notes, mails'[i].st # "NONE" PROVE i <= Len(feed)
    BY <1>1, <1>3, <2>2 DEF StoreTypes
  <2> QED BY <1>1, <1>2, <2>1, <2>2 DEF StoreTypes
<1>5. Free(w)'
  BY <1>1, <1>2, <1>3, AuthorizationAssumption DEF Free
<1>6. ASSUME NEW v \in Worker PROVE Keeps(v)
  BY <1>2, <1>3, AuthorizationAssumption DEF Keeps
<1>7. wk[w].pc # "over" /\ "top" \in Between
  BY DEF Between
<1>8. Sends'
  <2>1. \A i \in Notes : Settled(i) /\ Fenced(i)
    BY <1>3 DEF Settled, Calm, Fenced
  <2> QED BY <1>7, <2>1, OthersSend DEF outside
<1>9. FeedSame /\ FirstKnown' /\ Spaced' /\ IncidentsAnnounced'
  BY <1>2, NoticesStay
<1> QED BY <1>4, <1>5, <1>6, <1>7, <1>8, <1>9, LeavesWithTransaction

LEMMA RunClaimMail ==
    ASSUME RunnerInv, NEW w \in Worker, wk[w].pc = "mail gate", NEW m \in Notes,
           ClaimMail(w, m), UNCHANGED <<host, outside>>,
           wk' = [wk EXCEPT ![w] = TakenLocal(@, "mail claimed", m, mails[m].claim.fence + 1)]
    PROVE  RunnerInv'
<1>1. StoreTypes /\ wk[w] \in Local /\ Free(w)
  BY EmptyIsFree, Phases DEF RunnerInv, Types, LocalTypes, Empty, GatePc
<1>2. /\ mails[m].claim \in Claim /\ mails[m].claim.fence + 1 \in Nat
      /\ Recovered[m].claim \in Claim /\ Recovered[m].st = "READY"
      /\ Recovered[m].claim.fence + 1 = mails[m].claim.fence + 1
  <2>1. Recovered[m] \in MailRow /\ Recovered[m].claim.fence = mails[m].claim.fence
    BY <1>1, RecoveredFacts
  <2> QED BY <1>1, <2>1, MailRowFacts, ClaimFacts DEF ClaimMail, ReadyMails, MailRow
<1>3. PICK f, n : /\ f = mails[m].claim.fence + 1 /\ f \in Nat
                  /\ n = TakenLocal(wk[w], "mail claimed", m, f)
  BY <1>2, Zenon
<1>4. wk' = [wk EXCEPT ![w] = n]
  BY <1>3
<1>5. /\ n \in Local /\ n.pc = "mail claimed" /\ n.row = m
      /\ n.fence = f /\ n.moment = wk[w].moment
  <2>1. "mail claimed" \in Pc /\ m \in Row
    BY DEF Pc, MailPc, Row
  <2> QED BY <1>1, <1>3, <2>1 DEF TakenLocal, Local
<1>6. LocalOK(n)
  BY <1>5 DEF LocalOK, CheckPc, RefreshPc, MailPc
<1>7. wk'[w] = n /\ \A v \in Worker : v # w => wk'[v] = wk[v]
  BY <1>4 DEF RunnerInv, Types, LocalTypes
<1>8. /\ mails'[m] \in MailRow /\ mails'[m].st = "CLAIMED"
      /\ mails'[m].claim.owner = w /\ mails'[m].claim.fence = f
      /\ \A i \in Notes : i # m => mails'[i] = Recovered[i]
      /\ DOMAIN mails' = Notes /\ mails' = [i \in Notes |-> mails'[i]]
      /\ UNCHANGED <<checks, health, feed, refresh, clouds>>
  <2>1. PICK cl \in Claim : /\ cl = Claimed(Recovered[m].claim, w) /\ cl.owner = w
                            /\ cl.fence = f
    <3>1. PICK r \in Claim : r = Recovered[m].claim /\ r.fence + 1 = f
      BY <1>2, <1>3, Zenon
    <3>2. Claimed(r, w) \in Claim /\ Claimed(r, w).owner = w /\ Claimed(r, w).fence = f
      BY <3>1, ClaimFacts
    <3> QED BY <3>1, <3>2
  <2>2. PICK q : q = [st |-> "CLAIMED", claim |-> cl]
    OBVIOUS
  <2>3. q \in MailRow /\ q.st = "CLAIMED" /\ q.claim = cl
    BY <2>2 DEF MailRow, MailState
  <2>4. mails' = [Recovered EXCEPT ![m] = q] /\ UNCHANGED <<checks, health, feed, refresh, clouds>>
    BY <2>1, <2>2 DEF ClaimMail
  <2>5. DOMAIN Recovered = Notes
    BY DEF Recovered
  <2> QED BY <2>1, <2>3, <2>4, <2>5
<1>9. ASSUME NEW i \in Notes, i # m
      PROVE  /\ mails'[i] \in MailRow
             /\ mails'[i].claim.fence = mails[i].claim.fence
             /\ mails'[i].st = "NONE" => mails[i].st = "NONE"
             /\ \/ mails'[i] = mails[i]
                \/ /\ mails'[i].claim.owner = Nobody
                   /\ \/ mails[i].st = "CLAIMED" /\ mails'[i].st = "READY"
                      \/ mails[i].st = "SENDING" /\ mails'[i].st = "UNKNOWN"
  BY <1>1, <1>8, <1>9, RecoveredFacts
<1>10. mails[m].st \in {"READY", "CLAIMED"}
  BY <1>1, <1>2, RecoveredFacts
<1>11. StoreTypes'
  <2>1. mails' \in [Notes -> MailRow]
    BY <1>8, <1>9
  <2>2. ASSUME NEW i \in Notes, mails'[i].st # "NONE" PROVE i <= Len(feed)
    BY <1>1, <1>9, <1>10, <2>2 DEF StoreTypes
  <2> QED BY <1>1, <1>8, <2>1, <2>2 DEF StoreTypes
<1>12. OwnsRows(w)'
  <2>1. ASSUME NEW i \in Notes PROVE OwnsMail(w, i)'
    <3>1. CASE i = m
      BY <3>1, <1>5, <1>7, <1>8 DEF OwnsMail, ClaimedPc
    <3>2. CASE i # m
      BY <3>2, <1>1, <1>9, AuthorizationAssumption DEF OwnsMail, Free
    <3> QED BY <3>1, <3>2
  <2> QED BY <2>1, <1>1, <1>8 DEF Free, OwnsRows, OwnsCheck, OwnsRefresh
<1>13. ASSUME NEW v \in Worker, v # w PROVE Keeps(v)
  BY <1>8, <1>9, <1>13, AuthorizationAssumption DEF Keeps
<1>14. Sends'
  <2>1. \A i \in Notes : Settled(i) /\ Fenced(i)
    <3>1. Settled(m) /\ Fenced(m)
      BY <1>3, <1>8, <1>10 DEF Settled, Calm, Fenced
    <3>2. ASSUME NEW i \in Notes, i # m PROVE Settled(i) /\ Fenced(i)
      BY <1>9, <3>2 DEF Settled, Calm, Fenced
    <3> QED BY <3>1, <3>2
  <2>2. \A v \in Worker : wk'[v] = wk[v] \/ (wk'[v].pc \notin SendPc /\ Claimant(v)')
    <3>1. Claimant(w)'
      <4>1. f <= f
        BY <1>3, OwnFence, Zenon
      <4>2. mails'[m].claim.fence = f /\ wk'[w].fence = f /\ wk'[w].row = m
        BY <1>5, <1>7, <1>8
      <4> QED BY <4>1, <4>2, <1>8 DEF Claimant
    <3> QED BY <3>1, <1>5, <1>7 DEF SendPc
  <2> QED BY <2>1, <2>2, SendsStay DEF outside
<1>15. FeedSame /\ FirstKnown' /\ Spaced' /\ IncidentsAnnounced'
  BY <1>8, NoticesStay
<1>16. Grip(w)'
  BY <1>5, <1>7, <1>8, Phases DEF Grip, MailHeld, ClaimedPc, MailPc
<1>17. /\ n.pc \notin GatePc /\ n.pc # "over" /\ n.pc # "failed" /\ n.pc # "check done"
       /\ wk[w].pc # "over"
  BY <1>5 DEF GatePc
<1> QED BY <1>4, <1>5, <1>6, <1>11, <1>12, <1>13, <1>14, <1>15, <1>16, <1>17,
           WorkerTransaction

LEMMA RunTakeMail ==
    ASSUME RunnerInv, NEW w \in Worker, TakeMail(w)
    PROVE  RunnerInv'
<1>1. wk[w].pc = "mail gate" /\ UNCHANGED <<host, outside>>
  BY DEF TakeMail
<1>2. ASSUME NEW i \in Notes, ClaimMail(w, i),
             wk' = [wk EXCEPT ![w] = TakenLocal(@, "mail claimed", i, mails[i].claim.fence + 1)]
      PROVE  RunnerInv'
  BY <1>1, <1>2, RunClaimMail
<1>3. CASE ClaimNoMail /\ Leave(w, "top")
  BY <1>1, <1>3, RunClaimNoMail
<1> QED BY <1>2, <1>3 DEF TakeMail, TakenLocal

LEMMA RunMarkSending ==
    ASSUME RunnerInv, NEW w \in Worker, wk[w].pc = "mail granted",
           MarkSending(wk[w].row, wk[w].fence), Goto(w, "mail sending"),
           UNCHANGED <<host, outside>>
    PROVE  RunnerInv'
<1>1. /\ StoreTypes /\ wk[w] \in Local /\ wk[w].row \in Notes
      /\ world \in [Notes -> Nat] /\ doubts \in [Notes -> Nat]
  BY DEF RunnerInv, Types, OtherTypes, LocalTypes, LocalOK, MailPc
<1>2. PICK i \in Notes : i = wk[w].row
  BY <1>1
<1>3. PICK n : n = [wk[w] EXCEPT !.pc = "mail sending"]
  OBVIOUS
<1>4. wk' = [wk EXCEPT ![w] = n]
  BY <1>3 DEF Goto
<1>5. /\ n \in Local /\ n.pc = "mail sending" /\ n.row = i /\ n.fence = wk[w].fence
      /\ n.moment = wk[w].moment
  BY <1>1, <1>2, <1>3 DEF Local, Pc, MailPc
<1>6. LocalOK(n)
  BY <1>5 DEF LocalOK, CheckPc, RefreshPc, MailPc
<1>7. wk'[w] = n /\ \A v \in Worker : v # w => wk'[v] = wk[v]
  BY <1>4 DEF RunnerInv, Types, LocalTypes
<1>8. /\ mails[i].st = "CLAIMED" /\ mails[i].claim.fence = wk[w].fence
      /\ mails'[i].st = "SENDING" /\ mails'[i].claim = mails[i].claim
      /\ \A j \in Notes : j # i => mails'[j] = mails[j]
      /\ mails' \in [Notes -> MailRow]
      /\ UNCHANGED <<checks, health, feed, refresh, clouds>>
  BY <1>1, <1>2 DEF MarkSending, MailHeld, StoreTypes, MailRow, MailState
<1>9. StoreTypes'
  <2>1. ASSUME NEW j \in Notes, mails'[j].st # "NONE" PROVE j <= Len(feed)
    BY <1>1, <1>8, <2>1 DEF StoreTypes
  <2> QED BY <1>1, <1>8, <2>1 DEF StoreTypes
<1>10. OwnsRows(w)'
  <2>1. OwnsRows(w)
    BY DEF RunnerInv, Owned, OwnsRows
  <2>2. ASSUME NEW j \in Notes PROVE OwnsMail(w, j)'
    <3>1. mails'[j].claim.owner = w => mails[j].claim.owner = w
      BY <1>8
    <3>2. mails[j].claim.owner = w => j = i
      BY <2>1, <1>2 DEF OwnsRows, OwnsMail
    <3>3. OwnsMail(w, i)'
      BY <1>5, <1>7, <1>8 DEF OwnsMail, SendPc
    <3> QED BY <3>1, <3>2, <3>3 DEF OwnsMail
  <2>3. \A c \in Connection : OwnsCheck(w, c)'
    BY <2>1, <1>8 DEF OwnsRows, OwnsCheck, CheckPc
  <2>4. \A k \in RefreshKey : OwnsRefresh(w, k)'
    BY <2>1, <1>8 DEF OwnsRows, OwnsRefresh, RefreshPc
  <2> QED BY <2>2, <2>3, <2>4 DEF OwnsRows
<1>11. ASSUME NEW v \in Worker, v # w PROVE Keeps(v)
  <2>1. mails[i].claim.owner \in {w, Nobody, Gone}
    BY <1>2, <1>8 DEF RunnerInv, Sends, Claimant, ClaimedPc
  <2>2. mails'[i].claim.owner # v
    BY <1>8, <1>11, <2>1, AuthorizationAssumption
  <2> QED BY <1>8, <2>2 DEF Keeps
<1>12. Sends'
  <2>1. ASSUME NEW v \in Worker, v # w PROVE wk[v].pc \in SendPc => wk[v].row # i
    BY <1>8 DEF RunnerInv, Sends, Sender
  <2>2. ASSUME NEW v \in Worker PROVE Sender(v)'
    <3>1. CASE v = w
      <4>1. world[i] <= doubts[i]
        BY <1>8 DEF RunnerInv, Sends, MailCount
      <4> QED BY <3>1, <4>1, <1>5, <1>7, <1>8 DEF Sender, outside
    <3>2. CASE v # w
      <4>1. Sender(v) /\ wk'[v] = wk[v]
        BY <3>2, <1>7 DEF RunnerInv, Sends
      <4>2. wk[v].pc \in SendPc => wk[v].row \in Notes /\ wk[v].row # i
        BY <2>1, <3>2, Phases DEF RunnerInv, Types, LocalTypes, LocalOK
      <4> QED BY <4>1, <4>2, <1>8 DEF Sender, outside
    <3> QED BY <3>1, <3>2
  <2>3. ASSUME NEW v \in Worker, NEW u \in Worker PROVE OneSender(v, u)'
    <3>1. OneSender(v, u)
      BY DEF RunnerInv, Sends
    <3> QED BY <2>1, <3>1, <1>5, <1>7 DEF OneSender
  <2>4. ASSUME NEW j \in Notes PROVE MailCount(j)'
    <3>1. MailCount(j)
      BY DEF RunnerInv, Sends
    <3> QED BY <3>1, <1>8 DEF MailCount, outside
  <2>5. ASSUME NEW v \in Worker PROVE Claimant(v)'
    <3>1. CASE v = w
      BY <3>1, <1>5, <1>7 DEF Claimant, ClaimedPc
    <3>2. CASE v # w
      <4>1. \A j \in Notes : Fenced(j)
        BY <1>8 DEF Fenced
      <4>2. wk[v].pc \in ClaimedPc => wk[v].row \in Notes
        BY Phases DEF RunnerInv, Types, LocalTypes, LocalOK
      <4> QED BY <3>2, <4>1, <4>2, <1>7, ClaimantStays
    <3> QED BY <3>1, <3>2
  <2> QED BY <2>2, <2>3, <2>4, <2>5 DEF Sends
<1>13. FeedSame /\ FirstKnown' /\ Spaced' /\ IncidentsAnnounced'
  BY <1>8, NoticesStay
<1>14. Grip(w)'
  BY <1>5, <1>7, <1>8 DEF Grip, MailHeld, CheckPc, RefreshPc, ClaimedPc
<1>15. /\ n.pc \notin GatePc /\ n.pc # "over" /\ n.pc # "failed" /\ n.pc # "check done"
       /\ wk[w].pc # "over"
  BY <1>5 DEF GatePc
<1> QED BY <1>4, <1>5, <1>6, <1>9, <1>10, <1>11, <1>12, <1>13, <1>14, <1>15,
           WorkerTransaction

LEMMA RunStartSending ==
    ASSUME RunnerInv, NEW w \in Worker, StartSending(w)
    PROVE  RunnerInv'
<1>1. wk[w].pc = "mail granted" /\ UNCHANGED <<host, outside>>
  BY DEF StartSending
<1>2. CASE MarkSending(wk[w].row, wk[w].fence) /\ Goto(w, "mail sending")
  BY <1>1, <1>2, RunMarkSending
<1>3. CASE /\ ~MailHeld(wk[w].row, "CLAIMED", wk[w].fence)
           /\ Leave(w, "top")
           /\ UNCHANGED storeVars
  BY <1>1, <1>3, RunSendingRefused DEF Rest, outside
<1> QED BY <1>2, <1>3 DEF StartSending

\* A mail that leaves its sender.
LEMMA SenderLeaves ==
    ASSUME RunnerInv, NEW w \in Worker, NEW pc \in Between, Leave(w, pc),
           UNCHANGED <<world, doubts>>, NEW m \in Notes, m = wk[w].row,
           wk[w].pc \in ClaimedPc \/ wk[w].pc \in SendPc,
           wk[w].pc \in ClaimedPc => mails[m].st = "CLAIMED" /\ mails'[m].st = "READY",
           wk[w].pc \in SendPc =>
               \/ wk[w].pc # "mail done" /\ mails'[m].st = "READY"
               \/ mails'[m].st \in MailTerminal,
           Fenced(m),
           \A i \in Notes : i # m => Settled(i) /\ Fenced(i)
    PROVE  Sends'
<1>1. wk'[w] = Idle(pc, wk[w].moment) /\ \A v \in Worker : v # w => wk'[v] = wk[v]
  BY DEF Leave, RunnerInv, Types, LocalTypes
<1>2. wk'[w].pc \notin SendPc /\ wk'[w].pc \notin ClaimedPc
  <2>1. Idle(pc, wk[w].moment).pc = pc
    BY DEF Idle
  <2> QED BY <1>1, <2>1, Phases
<1>3. ASSUME NEW v \in Worker PROVE Sender(v)'
  <2> SUFFICES ASSUME v # w, wk[v].pc \in SendPc PROVE Sender(v)'
    BY <1>1, <1>2 DEF Sender
  <2>1. PICK i \in Notes : i = wk[v].row
    BY Phases DEF RunnerInv, Types, LocalTypes, LocalOK
  <2>2. /\ mails[i].st \in {"SENDING", "UNKNOWN"}
        /\ wk[v].pc # "mail done" => world[i] <= doubts[i]
    BY <2>1 DEF RunnerInv, Sends, Sender
  <2>3. i # m
    <3>1. CASE wk[w].pc \in ClaimedPc
      BY <3>1, <2>2
    <3>2. CASE wk[w].pc \in SendPc
      BY <3>2, <2>1 DEF RunnerInv, Sends, OneSender
    <3> QED BY <3>1, <3>2
  <2>4. mails'[i].st \in {"SENDING", "UNKNOWN"}
    BY <2>2, <2>3 DEF Settled, Calm
  <2> QED BY <1>1, <2>1, <2>2, <2>4 DEF Sender
<1>4. ASSUME NEW v \in Worker, NEW u \in Worker PROVE OneSender(v, u)'
  BY <1>1, <1>2 DEF RunnerInv, Sends, OneSender
<1>5. ASSUME NEW i \in Notes PROVE MailCount(i)'
  <2>1. MailCount(i)
    BY DEF RunnerInv, Sends
  <2>2. CASE i # m
    <3>1. Settled(i)
      BY <2>2
    <3> QED BY <2>1, <3>1 DEF MailCount, Settled, Calm
  <2>3. CASE i = m /\ wk[w].pc \in ClaimedPc
    BY <2>1, <2>3 DEF MailCount
  <2>4. CASE i = m /\ wk[w].pc \in SendPc
    <3>1. Sender(w)
      BY DEF RunnerInv, Sends
    <3> QED BY <2>1, <2>4, <3>1 DEF MailCount, Sender, MailTerminal
  <2> QED BY <2>2, <2>3, <2>4
<1>6. ASSUME NEW v \in Worker PROVE Claimant(v)'
  <2>1. CASE v = w
    BY <2>1, <1>2 DEF Claimant
  <2>2. CASE v # w
    <3>1. wk[v].pc \in ClaimedPc => wk[v].row \in Notes
      BY Phases DEF RunnerInv, Types, LocalTypes, LocalOK
    <3> QED BY <2>2, <3>1, <1>1, ClaimantStays
  <2> QED BY <2>1, <2>2
<1> QED BY <1>3, <1>4, <1>5, <1>6 DEF Sends

LEMMA RunReleaseMail ==
    ASSUME RunnerInv, NEW w \in Worker, NEW st,
           \/ wk[w].pc \in ClaimedPc /\ st = "CLAIMED"
           \/ wk[w].pc \in SendPc /\ wk[w].pc # "mail done" /\ st = "SENDING",
           ReleaseMail(wk[w].row, st, wk[w].fence), Leave(w, "top"),
           UNCHANGED <<host, outside>>
    PROVE  RunnerInv'
<1>1. StoreTypes /\ wk[w].row \in Notes
  BY Phases DEF RunnerInv, Types, LocalTypes, LocalOK
<1>2. PICK m \in Notes : m = wk[w].row
  BY <1>1
<1>3. /\ mails[m].st = st
      /\ mails'[m].st = "READY" /\ mails'[m].claim.owner = Nobody
      /\ mails'[m].claim.fence = mails[m].claim.fence
      /\ \A i \in Notes : i # m => mails'[i] = mails[i]
      /\ mails' \in [Notes -> MailRow]
      /\ UNCHANGED <<checks, health, feed, refresh, clouds>>
  <2>1. PICK cl \in Claim : /\ cl = Released(mails[m].claim) /\ cl.owner = Nobody
                            /\ cl.fence = mails[m].claim.fence
    BY <1>1, MailRowFacts, ClaimFacts
  <2>2. PICK q : q = [st |-> "READY", claim |-> cl]
    OBVIOUS
  <2>3. q \in MailRow /\ q.claim = cl /\ q.st = "READY"
    BY <2>2 DEF MailRow, MailState
  <2>4. /\ mails' = [mails EXCEPT ![m] = q] /\ mails[m].st = st
        /\ UNCHANGED <<checks, health, feed, refresh, clouds>>
    BY <1>2, <2>1, <2>2 DEF ReleaseMail, MailHeld
  <2> QED BY <1>1, <2>1, <2>3, <2>4 DEF StoreTypes
<1>4. StoreTypes'
  <2>1. ASSUME NEW j \in Notes, mails'[j].st # "NONE" PROVE j <= Len(feed)
    BY <1>1, <1>3, <2>1 DEF StoreTypes
  <2> QED BY <1>1, <1>3, <2>1 DEF StoreTypes
<1>5. Free(w)'
  <2>1. OwnsRows(w) /\ wk[w].pc \in MailPc
    BY Phases DEF RunnerInv, Owned, OwnsRows
  <2>2. ASSUME NEW c \in Connection PROVE checks'[c].owner # w
    BY <2>1, <1>3, Phases DEF OwnsRows, OwnsCheck
  <2>3. ASSUME NEW k \in RefreshKey PROVE refresh'[k].claim.owner # w
    BY <2>1, <1>3, Phases DEF OwnsRows, OwnsRefresh
  <2>4. ASSUME NEW i \in Notes PROVE mails'[i].claim.owner # w
    BY <2>1, <1>2, <1>3, AuthorizationAssumption DEF OwnsRows, OwnsMail
  <2> QED BY <2>2, <2>3, <2>4 DEF Free
<1>6. ASSUME NEW v \in Worker PROVE Keeps(v)
  BY <1>3, AuthorizationAssumption DEF Keeps
<1>7. wk[w].pc # "over" /\ "top" \in Between
  BY Phases DEF Between
<1>8. Sends'
  <2>1. \A i \in Notes : i # m => Settled(i) /\ Fenced(i)
    BY <1>3 DEF Settled, Fenced
  <2>2. Fenced(m)
    BY <1>3 DEF Fenced
  <2> QED BY <1>2, <1>3, <1>7, <2>1, <2>2, SenderLeaves, Phases DEF outside
<1>9. FeedSame /\ FirstKnown' /\ Spaced' /\ IncidentsAnnounced'
  BY <1>3, NoticesStay
<1> QED BY <1>4, <1>5, <1>6, <1>7, <1>8, <1>9, LeavesWithTransaction

LEMMA RunMailBack ==
    ASSUME RunnerInv, NEW w \in Worker,
           MailAuthority(w) \/ SendingStopped(w) \/ ReturnMail(w)
    PROVE  RunnerInv'
<1>0. UNCHANGED <<host, outside>>
  BY DEF MailAuthority, SendingStopped, ReturnMail
<1>1. CASE /\ wk[w].pc = "mail claimed"
           /\ Goto(w, "mail granted")
           /\ UNCHANGED storeVars
  BY <1>0, <1>1, Advances
     DEF Plain, Pc, GatePc, CheckPc, RefreshPc, MailPc, ClaimedPc, SendPc, Rest, outside
<1>2. CASE wk[w].pc = "mail claimed" /\ GiveMailBack(w, "CLAIMED")
  <2>1. wk[w].pc \in ClaimedPc
    BY <1>2 DEF ClaimedPc
  <2> QED BY <1>0, <1>2, <2>1, RunReleaseMail, Raises DEF GiveMailBack, outside
<1>3. CASE wk[w].pc \in {"mail sending", "mail back"} /\ GiveMailBack(w, "SENDING")
  <2>1. wk[w].pc \in SendPc /\ wk[w].pc # "mail done"
    BY <1>3 DEF SendPc
  <2> QED BY <1>0, <1>3, <2>1, RunReleaseMail, Raises DEF GiveMailBack, outside
<1> QED BY <1>1, <1>2, <1>3 DEF MailAuthority, SendingStopped, ReturnMail

-----------------------------------------------------------------------------
(* Transactions that may add a notice.                                      *)

LEMMA NewMailFacts ==
    /\ NewMail \in MailRow /\ NewMail.st = "READY" /\ NewMail.claim.owner = Nobody
    /\ NewMail.claim.fence = 0
<1>1. FreeClaim \in Claim /\ FreeClaim.owner = Nobody /\ FreeClaim.fence = 0
  BY DEF FreeClaim, Claim, Owner
<1>2. NewMail.st = "READY" /\ NewMail.claim = FreeClaim
  BY DEF NewMail
<1>3. NewMail \in MailRow
  BY <1>1 DEF NewMail, MailRow, MailState
<1> QED BY <1>1, <1>2, <1>3

LEMMA Appends ==
    ASSUME StoreTypes, NEW x \in NoteKey, NEW t \in Nat, Len(feed) < MaxNotes,
           feed' = Append(feed, [key |-> x, at |-> t, acked |-> FALSE])
    PROVE  /\ feed' \in Seq(Note) /\ Len(feed') = Len(feed) + 1 /\ Len(feed') <= MaxNotes
           /\ FeedGrows(x, t)
<1>1. feed \in Seq(Note) /\ Len(feed) \in Nat /\ DOMAIN feed = 1..Len(feed)
  BY DEF StoreTypes
<1>2. PICK e : e = [key |-> x, at |-> t, acked |-> FALSE]
  OBVIOUS
<1>3. e \in Note /\ e.key = x /\ e.at = t
  BY <1>2 DEF Note
<1>4. feed' = Append(feed, e)
  BY <1>2
<1>5. feed' \in Seq(Note) /\ Len(feed') = Len(feed) + 1
  BY <1>1, <1>3, <1>4
<1>6. DOMAIN feed' = 1..(Len(feed) + 1)
  BY <1>5
<1>7. \A i \in DOMAIN feed : feed'[i] = feed[i]
  BY <1>1, <1>3, <1>4
<1>8. feed'[Len(feed) + 1] = e
  BY <1>1, <1>3, <1>4
<1>9. Len(feed') <= MaxNotes
  BY <1>1, <1>5, AuthorizationAssumption
<1> QED BY <1>1, <1>3, <1>5, <1>6, <1>7, <1>8, <1>9 DEF FeedGrows

\* _insert_notification, of at most one key.
LEMMA Inserts ==
    ASSUME StoreTypes, NEW draft \in SUBSET NoteKey, NEW now \in Nat, NEW mailed,
           NEW table \in [Notes -> MailRow],
           \A i \in Notes : table[i].st # "NONE" => i <= Len(feed),
           \A x, y \in draft : x = y,
           Insert(draft, now, mailed, table)
    PROVE  /\ feed' \in Seq(Note) /\ Len(feed') <= MaxNotes
           /\ mails' \in [Notes -> MailRow]
           /\ \A i \in Notes : mails'[i].st # "NONE" => i <= Len(feed')
           /\ \A i \in Notes :
                 mails'[i] = table[i] \/ (table[i].st = "NONE" /\ mails'[i] = NewMail)
           /\ FeedSame \/ \E x \in draft : FeedGrows(x, now)
           /\ \A x \in draft : StillKnown(x)
<1>0. feed \in Seq(Note) /\ Len(feed) \in Nat /\ Len(feed) <= MaxNotes
  BY DEF StoreTypes
<1>1. CASE /\ \A key \in draft : Known(key)
           /\ feed' = feed
           /\ mails' = table
  <2>1. FeedSame
    BY <1>1 DEF FeedSame
  <2>2. \A x \in draft : StillKnown(x)
    BY <1>1, <2>1, KnownStays
  <2> QED BY <1>0, <1>1, <2>1, <2>2
<1>2. ASSUME NEW x \in draft, ~Known(x), Len(feed) < MaxNotes,
             feed' = Append(feed, [key |-> x, at |-> now, acked |-> FALSE]),
             mails' = IF mailed THEN [table EXCEPT ![Len(feed) + 1] = NewMail] ELSE table
      PROVE  /\ feed' \in Seq(Note) /\ Len(feed') <= MaxNotes
             /\ mails' \in [Notes -> MailRow]
             /\ \A i \in Notes : mails'[i].st # "NONE" => i <= Len(feed')
             /\ \A i \in Notes :
                   mails'[i] = table[i] \/ (table[i].st = "NONE" /\ mails'[i] = NewMail)
             /\ FeedGrows(x, now)
             /\ \A y \in draft : StillKnown(y)
  <2>1. x \in NoteKey
    OBVIOUS
  <2>2. /\ feed' \in Seq(Note) /\ Len(feed') = Len(feed) + 1 /\ Len(feed') <= MaxNotes
        /\ FeedGrows(x, now)
    BY <1>2, <2>1, Appends
  <2>3. StillKnown(x)
    BY <2>2, <1>0 DEF FeedGrows, StillKnown
  <2>4. PICK l \in Nat : l = Len(feed)
    BY <1>0
  <2>5. l + 1 \in Notes /\ ~(l + 1 <= l) /\ Len(feed') = l + 1
    BY <1>2, <2>2, <2>4, AuthorizationAssumption DEF Notes
  <2>6. table[l + 1].st = "NONE"
    BY <2>4, <2>5
  <2>7. mails' = [table EXCEPT ![l + 1] = NewMail] \/ mails' = table
    BY <1>2, <2>4, Zenon
  <2>8. /\ mails' \in [Notes -> MailRow]
        /\ \A i \in Notes :
              mails'[i] = table[i] \/ (i = l + 1 /\ mails'[i] = NewMail)
    BY <2>5, <2>7, NewMailFacts
  <2>9. ASSUME NEW i \in Notes, mails'[i].st # "NONE" PROVE i <= Len(feed')
    <3>1. CASE i = l + 1
      BY <2>5, <3>1 DEF Notes
    <3>2. CASE i # l + 1
      <4>1. i <= l
        BY <2>4, <2>8, <2>9, <3>2
      <4> QED BY <4>1, <2>5 DEF Notes
    <3> QED BY <3>1, <3>2
  <2>10. \A y \in draft : StillKnown(y)
    BY <2>3
  <2> QED BY <2>2, <2>6, <2>8, <2>9, <2>10
<1>3. CASE \E x \in draft :
             /\ ~Known(x) /\ Len(feed) < MaxNotes
             /\ feed' = Append(feed, [key |-> x, at |-> now, acked |-> FALSE])
             /\ mails' = IF mailed THEN [table EXCEPT ![Len(feed) + 1] = NewMail] ELSE table
  BY <1>2, <1>3
<1> QED BY <1>1, <1>3 DEF Insert

LEMMA InsertNotices ==
    ASSUME StoreTypes, FirstKnown, Spaced, NEW draft, NEW now \in Nat,
           FeedSame \/ \E x \in draft : FeedGrows(x, now),
           \A x \in draft :
               /\ x[1] = "required" =>
                     x = FirstNotice(x[2], x[3]) \/ Known(FirstNotice(x[2], x[3]))
               /\ x[1] \in Reminded =>
                     \A i \in DOMAIN feed : SameStage(feed[i].key, x) => now - feed[i].at >= 1
    PROVE  FirstKnown' /\ Spaced'
<1>1. CASE FeedSame
  BY <1>1, SameNotices
<1>2. ASSUME NEW x \in draft, FeedGrows(x, now) PROVE FirstKnown' /\ Spaced'
  BY <1>2, NewNotice
<1> QED BY <1>1, <1>2

\* Mails that only come into being.
LEMMA MailsGrow ==
    ASSUME \A i \in Notes :
               mails'[i] = mails[i] \/ (mails[i].st = "NONE" /\ mails'[i] = NewMail)
    PROVE  /\ \A i \in Notes : Settled(i) /\ Fenced(i)
           /\ \A i \in Notes : mails'[i].claim.owner = mails[i].claim.owner
                                 \/ mails'[i].claim.owner = Nobody
           /\ \A v \in Worker, i \in Notes :
                 mails'[i].claim.owner = v => mails'[i] = mails[i]
<1>1. ASSUME NEW i \in Notes PROVE Settled(i) /\ Fenced(i)
  BY NewMailFacts DEF Settled, Fenced, Calm
<1>2. ASSUME NEW v \in Worker, NEW i \in Notes, mails'[i].claim.owner = v
      PROVE  mails'[i] = mails[i]
  BY <1>2, NewMailFacts, AuthorizationAssumption
<1>3. ASSUME NEW i \in Notes
      PROVE  mails'[i].claim.owner = mails[i].claim.owner \/ mails'[i].claim.owner = Nobody
  BY NewMailFacts
<1> QED BY <1>1, <1>2, <1>3

LEMMA RunCompleteCheck ==
    ASSUME RunnerInv, NEW w \in Worker, wk[w].pc = "check done", NEW newest, NEW mailed,
           CompleteCheck(w, wk[w].row, wk[w].fence, wk[w].obs, newest, wk[w].draft,
                         mailed, wk[w].moment),
           Leave(w, "refresh"), UNCHANGED <<host, outside>>
    PROVE  RunnerInv'
<1>1. /\ StoreTypes /\ wk[w] \in Local /\ wk[w].row \in Connection
      /\ wk[w].obs \in Observation /\ wk[w].moment \in Nat /\ wk[w].draft \in SUBSET NoteKey
  BY DEF RunnerInv, Types, LocalTypes, LocalOK, CheckPc, Local
<1>2. PICK c \in Connection : c = wk[w].row
  BY <1>1
<1>3. PICK obs \in Observation, draft \in SUBSET NoteKey, now \in Nat :
          obs = wk[w].obs /\ draft = wk[w].draft /\ now = wk[w].moment
  BY <1>1
<1>4. /\ Holds(checks[c], w, wk[w].fence)
      /\ checks' = [checks EXCEPT ![c] = Released(@)]
      /\ health' = [health EXCEPT ![c] = IF newest THEN obs ELSE @]
      /\ Insert(draft, now, mailed, mails)
      /\ UNCHANGED <<refresh, clouds>>
  BY <1>2, <1>3 DEF CompleteCheck
<1>5. DraftKeys(wk[w]) /\ DraftAnnounces(wk[w]) /\ DraftSpaced(w, wk[w])
  BY DEF RunnerInv, Notices, Drafted
<1>6. /\ \A x, y \in draft : x = y
      /\ \A x \in draft : x[1] \in Reminded => x[2] = c
      /\ Invalidated(obs) =>
            FirstNotice(c, obs.gen) \in draft \/ Known(FirstNotice(c, obs.gen))
      /\ \A x \in draft :
            /\ x[1] = "required" =>
                  x = FirstNotice(x[2], x[3]) \/ Known(FirstNotice(x[2], x[3]))
            /\ x[1] \in Reminded =>
                  \A i \in DOMAIN feed : SameStage(feed[i].key, x) => now - feed[i].at >= 1
  BY <1>2, <1>3, <1>4, <1>5 DEF DraftKeys, DraftAnnounces, DraftSpaced
<1>7. /\ feed' \in Seq(Note) /\ Len(feed') <= MaxNotes
      /\ mails' \in [Notes -> MailRow]
      /\ \A i \in Notes : mails'[i].st # "NONE" => i <= Len(feed')
      /\ \A i \in Notes :
            mails'[i] = mails[i] \/ (mails[i].st = "NONE" /\ mails'[i] = NewMail)
      /\ FeedSame \/ \E x \in draft : FeedGrows(x, now)
      /\ \A x \in draft : StillKnown(x)
  <2>1. mails \in [Notes -> MailRow] /\ \A i \in Notes : mails[i].st # "NONE" => i <= Len(feed)
    BY <1>1 DEF StoreTypes
  <2> QED BY <1>1, <1>4, <1>6, <2>1, Inserts
<1>8. /\ checks'[c].owner = Nobody
      /\ \A d \in Connection : d # c => checks'[d] = checks[d]
      /\ checks' \in [Connection -> Claim]
  BY <1>1, <1>4, ClaimFacts DEF StoreTypes
<1>9. /\ health'[c] = obs \/ health'[c] = health[c]
      /\ \A d \in Connection : d # c => health'[d] = health[d]
      /\ health' \in [Connection -> Seen]
  <2>1. PICK h : h = IF newest THEN obs ELSE health[c]
    OBVIOUS
  <2>2. h = obs \/ h = health[c]
    BY <2>1, Zenon
  <2>3. health' = [health EXCEPT ![c] = h]
    BY <2>1, <1>4, Zenon
  <2>4. health \in [Connection -> Seen]
    BY <1>1 DEF StoreTypes
  <2> QED BY <2>2, <2>3, <2>4 DEF Seen
<1>10. StoreTypes'
  BY <1>1, <1>4, <1>7, <1>8, <1>9 DEF StoreTypes
<1>11. /\ \A i \in Notes : Settled(i) /\ Fenced(i)
       /\ \A i \in Notes : mails'[i].claim.owner = mails[i].claim.owner
                             \/ mails'[i].claim.owner = Nobody
       /\ \A v \in Worker, i \in Notes :
             mails'[i].claim.owner = v => mails'[i] = mails[i]
  BY <1>7, MailsGrow
<1>12. Free(w)'
  <2>1. OwnsRows(w)
    BY DEF RunnerInv, Owned, OwnsRows
  <2>2. ASSUME NEW d \in Connection PROVE checks'[d].owner # w
    BY <2>1, <1>2, <1>8, AuthorizationAssumption DEF OwnsRows, OwnsCheck
  <2>3. ASSUME NEW k \in RefreshKey PROVE refresh'[k].claim.owner # w
    BY <2>1, <1>4 DEF OwnsRows, OwnsRefresh, RefreshPc
  <2>4. ASSUME NEW i \in Notes PROVE mails'[i].claim.owner # w
    <3>1. mails[i].claim.owner # w
      BY <2>1 DEF OwnsRows, OwnsMail, ClaimedPc, SendPc
    <3> QED BY <3>1, <1>11, AuthorizationAssumption
  <2> QED BY <2>2, <2>3, <2>4 DEF Free
<1>13. ASSUME NEW v \in Worker PROVE Keeps(v)
  BY <1>4, <1>8, <1>11, AuthorizationAssumption DEF Keeps
<1>14. wk[w].pc # "over" /\ "refresh" \in Between
  BY DEF Between
<1>15. Sends'
  BY <1>11, <1>14, OthersSend DEF outside
<1>16. FirstKnown' /\ Spaced'
  <2>1. FirstKnown /\ Spaced
    BY DEF RunnerInv, Notices
  <2> QED BY <1>1, <1>6, <1>7, <2>1, InsertNotices
<1>17. IncidentsAnnounced'
  <2>1. \A key : Known(key) => StillKnown(key)
    BY <1>7, KnownStays
  <2>2. ASSUME NEW d \in Connection, Invalidated(health'[d])
        PROVE  StillKnown(<<"required", d, health'[d].gen, 0>>)
    <3>1. CASE health'[d] = health[d]
      BY <2>1, <2>2, <3>1 DEF RunnerInv, Notices, IncidentsAnnounced
    <3>2. CASE d = c /\ health'[d] = obs
      <4>1. StillKnown(FirstNotice(c, obs.gen))
        BY <1>6, <1>7, <2>1, <2>2, <3>2
      <4> QED BY <3>2, <4>1 DEF FirstNotice
    <3> QED BY <1>9, <3>1, <3>2
  <2> QED BY <2>2 DEF IncidentsAnnounced, StillKnown, Known, Invalidated
<1>18. \/ FeedSame
       \/ \E x, t : /\ FeedGrows(x, t)
                    /\ x[1] \in Reminded => checks'[x[2]].owner = Nobody
  BY <1>6, <1>7, <1>8
<1> QED BY <1>10, <1>12, <1>13, <1>14, <1>15, <1>16, <1>17, <1>18, LeavesWithTransaction

LEMMA RunFinishCheck ==
    ASSUME RunnerInv, NEW w \in Worker, FinishCheck(w)
    PROVE  RunnerInv'
<1>1. wk[w].pc = "check done" /\ UNCHANGED <<host, outside>>
  BY DEF FinishCheck
<1>2. ASSUME NEW newest, NEW mailed,
             CompleteCheck(w, wk[w].row, wk[w].fence, wk[w].obs, newest, wk[w].draft,
                           mailed, wk[w].moment),
             Leave(w, "refresh")
      PROVE  RunnerInv'
  BY <1>1, <1>2, RunCompleteCheck
<1>3. CASE ~Holds(checks[wk[w].row], w, wk[w].fence) /\ Raise(w)
  BY <1>1, <1>3, Raises DEF outside, CheckPc
<1> QED BY <1>2, <1>3 DEF FinishCheck

\* A notice that is not about an authorization.
LEMMA OtherNotices ==
    ASSUME RunnerInv, NEW draft, NEW now \in Nat,
           FeedSame \/ \E x \in draft : FeedGrows(x, now),
           \A x \in draft : x[1] \notin Reminded, UNCHANGED health
    PROVE  /\ FirstKnown' /\ Spaced' /\ IncidentsAnnounced'
           /\ \/ FeedSame
              \/ \E x, t : /\ FeedGrows(x, t)
                           /\ x[1] \in Reminded => checks'[x[2]].owner = Nobody
<1>1. StoreTypes /\ FirstKnown /\ Spaced /\ IncidentsAnnounced
  BY DEF RunnerInv, Types, Notices
<1>2. \A x \in draft : x[1] # "required"
  BY DEF Reminded
<1>3. FirstKnown' /\ Spaced'
  BY <1>1, <1>2, InsertNotices
<1>4. IncidentsAnnounced'
  BY <1>1, AnnouncedStays
<1>5. \/ FeedSame
      \/ \E x, t : /\ FeedGrows(x, t)
                   /\ x[1] \in Reminded => checks'[x[2]].owner = Nobody
  OBVIOUS
<1> QED BY <1>3, <1>4, <1>5

LEMMA FingerprintIsNatural ==
    ASSUME NEW fp \in Fingerprint \cup {0}
    PROVE  fp \in Nat
  BY AuthorizationAssumption

\* The notification of a changed fingerprint is one cloud notice at most.
CloudNotice(c, fp) == IF fp = 0 THEN NoDraft ELSE CloudChange(c, fp)

LEMMA CloudDraft ==
    ASSUME StoreTypes, NEW c \in Connection, NEW fp \in Fingerprint \cup {0}
    PROVE  /\ CloudNotice(c, fp) \in SUBSET NoteKey
           /\ \A x, y \in CloudNotice(c, fp) : x = y
           /\ \A x \in CloudNotice(c, fp) : x[1] \notin Reminded
<1>1. PICK key : key = <<"cloud", c, clouds[c], fp>>
  OBVIOUS
<1>2. clouds[c] \in Nat /\ fp \in Nat
  <2>1. clouds[c] \in Fingerprint \cup {0}
    BY DEF StoreTypes
  <2> QED BY <2>1, FingerprintIsNatural
<1>3. key \in NoteKey /\ key[1] \notin Reminded
  BY <1>1, <1>2 DEF NoteKey, Stage, Reminded
<1>4. CloudNotice(c, fp) = {} \/ CloudNotice(c, fp) = {key}
  BY <1>1 DEF CloudNotice, CloudChange, NoDraft
<1> QED BY <1>3, <1>4

LEMMA RunCompleteRefresh ==
    ASSUME RunnerInv, NEW w \in Worker, wk[w].pc = "refresh done", NEW mailed,
           CompleteRefresh(w, wk[w].row, wk[w].fence, wk[w].out, wk[w].fp, mailed, wk[w].moment),
           Leave(w, "mail"), UNCHANGED <<host, outside>>
    PROVE  RunnerInv'
<1>1. /\ StoreTypes /\ wk[w] \in Local /\ wk[w].row \in RefreshKey
      /\ wk[w].out \in RefreshTerminal /\ wk[w].moment \in Nat
      /\ wk[w].fp \in Fingerprint \cup {0}
  BY DEF RunnerInv, Types, LocalTypes, LocalOK, RefreshPc, Local
<1>2. PICK k \in RefreshKey, st \in RefreshTerminal, fp \in Fingerprint \cup {0}, now \in Nat :
          k = wk[w].row /\ st = wk[w].out /\ fp = wk[w].fp /\ now = wk[w].moment
  BY <1>1
<1>3. PICK c \in Connection : c = refresh[k].on
  BY <1>1, RefreshRowFacts
<1>4. PICK draft : draft = CloudNotice(c, fp)
  OBVIOUS
<1>5. /\ draft \in SUBSET NoteKey
      /\ \A x, y \in draft : x = y
      /\ \A x \in draft : x[1] \notin Reminded
  BY <1>1, <1>4, CloudDraft
<1>6. /\ Holds(refresh[k].claim, w, wk[w].fence)
      /\ refresh' = [refresh EXCEPT ![k] = [st |-> st, on |-> c,
                                            claim |-> Released(refresh[k].claim)]]
      /\ clouds' = [clouds EXCEPT ![c] = IF fp = 0 THEN @ ELSE fp]
      /\ Insert(draft, now, mailed, mails)
      /\ UNCHANGED <<checks, health>>
  BY <1>2, <1>3, <1>4 DEF CompleteRefresh, CloudNotice
<1>7. /\ feed' \in Seq(Note) /\ Len(feed') <= MaxNotes
      /\ mails' \in [Notes -> MailRow]
      /\ \A i \in Notes : mails'[i].st # "NONE" => i <= Len(feed')
      /\ \A i \in Notes :
            mails'[i] = mails[i] \/ (mails[i].st = "NONE" /\ mails'[i] = NewMail)
      /\ FeedSame \/ \E x \in draft : FeedGrows(x, now)
  <2>1. mails \in [Notes -> MailRow] /\ \A i \in Notes : mails[i].st # "NONE" => i <= Len(feed)
    BY <1>1 DEF StoreTypes
  <2> QED BY <1>1, <1>5, <1>6, <2>1, Inserts
<1>8. /\ refresh'[k].claim.owner = Nobody
      /\ \A d \in RefreshKey : d # k => refresh'[d] = refresh[d]
      /\ refresh' \in [RefreshKey -> RefreshRow]
  <2>1. PICK cl \in Claim : cl = Released(refresh[k].claim) /\ cl.owner = Nobody
    BY <1>1, RefreshRowFacts, ClaimFacts
  <2>2. PICK q : q = [st |-> st, on |-> c, claim |-> cl]
    OBVIOUS
  <2>3. q \in RefreshRow /\ q.claim = cl
    BY <2>1, <2>2 DEF RefreshRow, RefreshState
  <2>4. refresh' = [refresh EXCEPT ![k] = q]
    BY <1>6, <2>1, <2>2
  <2> QED BY <1>1, <2>1, <2>3, <2>4 DEF StoreTypes
<1>9. clouds' \in [Connection -> Fingerprint \cup {0}]
  BY <1>1, <1>6 DEF StoreTypes
<1>10. StoreTypes'
  BY <1>1, <1>6, <1>7, <1>8, <1>9 DEF StoreTypes
<1>11. /\ \A i \in Notes : Settled(i) /\ Fenced(i)
       /\ \A i \in Notes : mails'[i].claim.owner = mails[i].claim.owner
                             \/ mails'[i].claim.owner = Nobody
       /\ \A v \in Worker, i \in Notes :
             mails'[i].claim.owner = v => mails'[i] = mails[i]
  BY <1>7, MailsGrow
<1>12. Free(w)'
  <2>1. OwnsRows(w)
    BY DEF RunnerInv, Owned, OwnsRows
  <2>2. ASSUME NEW d \in Connection PROVE checks'[d].owner # w
    BY <2>1, <1>6 DEF OwnsRows, OwnsCheck, CheckPc
  <2>3. ASSUME NEW d \in RefreshKey PROVE refresh'[d].claim.owner # w
    BY <2>1, <1>2, <1>8, AuthorizationAssumption DEF OwnsRows, OwnsRefresh
  <2>4. ASSUME NEW i \in Notes PROVE mails'[i].claim.owner # w
    <3>1. mails[i].claim.owner # w
      BY <2>1 DEF OwnsRows, OwnsMail, ClaimedPc, SendPc
    <3> QED BY <3>1, <1>11, AuthorizationAssumption
  <2> QED BY <2>2, <2>3, <2>4 DEF Free
<1>13. ASSUME NEW v \in Worker PROVE Keeps(v)
  BY <1>6, <1>8, <1>11, AuthorizationAssumption DEF Keeps
<1>14. wk[w].pc # "over" /\ "mail" \in Between
  BY DEF Between
<1>15. Sends'
  BY <1>11, <1>14, OthersSend DEF outside
<1>16. /\ FirstKnown' /\ Spaced' /\ IncidentsAnnounced'
       /\ \/ FeedSame
          \/ \E x, t : /\ FeedGrows(x, t)
                       /\ x[1] \in Reminded => checks'[x[2]].owner = Nobody
  BY <1>5, <1>6, <1>7, OtherNotices
<1> QED BY <1>10, <1>12, <1>13, <1>14, <1>15, <1>16, LeavesWithTransaction

LEMMA RunFinishRefresh ==
    ASSUME RunnerInv, NEW w \in Worker, FinishRefresh(w)
    PROVE  RunnerInv'
<1>1. wk[w].pc = "refresh done" /\ UNCHANGED <<host, outside>>
  BY DEF FinishRefresh, outside
<1>2. ASSUME NEW mailed,
             CompleteRefresh(w, wk[w].row, wk[w].fence, wk[w].out, wk[w].fp, mailed,
                             wk[w].moment),
             Leave(w, "mail")
      PROVE  RunnerInv'
  BY <1>1, <1>2, RunCompleteRefresh
<1>3. CASE ~Holds(refresh[wk[w].row].claim, w, wk[w].fence) /\ Raise(w)
  BY <1>1, <1>3, Raises DEF outside, RefreshPc
<1> QED BY <1>2, <1>3 DEF FinishRefresh

\* A mail belongs to a notice.
LEMMA MailHasNotice ==
    ASSUME StoreTypes, NEW m \in Notes, mails[m].st # "NONE"
    PROVE  m \in Nat /\ m \in DOMAIN feed /\ m <= Len(feed) /\ feed[m].key[2] \in Connection
<1>1. m <= Len(feed)
  BY DEF StoreTypes
<1>2. m \in Nat /\ 1 <= m
  BY AuthorizationAssumption DEF Notes
<1>3. m \in DOMAIN feed
  BY <1>1, <1>2, FeedTypes
<1> QED BY <1>1, <1>2, <1>3, FeedTypes

LEMMA RunFinishMail ==
    ASSUME RunnerInv, NEW w \in Worker, wk[w].pc = "mail done",
           FinishMail(wk[w].row, wk[w].fence, wk[w].out, wk[w].moment),
           Leave(w, "top"), UNCHANGED <<host, outside>>
    PROVE  RunnerInv'
<1>1. /\ StoreTypes /\ wk[w] \in Local /\ wk[w].row \in Notes
      /\ wk[w].out \in MailTerminal /\ wk[w].moment \in Nat
  BY DEF RunnerInv, Types, LocalTypes, LocalOK, MailPc, Local
<1>2. PICK m \in Notes, st \in MailTerminal, now \in Nat :
          m = wk[w].row /\ st = wk[w].out /\ now = wk[w].moment
  BY <1>1
<1>3. PICK cl \in Claim : /\ cl = Released(mails[m].claim) /\ cl.owner = Nobody
                          /\ cl.fence = mails[m].claim.fence
  BY <1>1, MailRowFacts, ClaimFacts
<1>4. PICK q : q = [st |-> st, claim |-> cl]
  OBVIOUS
<1>5. q \in MailRow /\ q.st = st /\ q.claim = cl
  BY <1>4 DEF MailRow, MailState
<1>6. PICK done, note : /\ done = [mails EXCEPT ![m] = q]
                        /\ note = IF st = "REJECTED" THEN "rejected" ELSE "unknown"
  OBVIOUS
<1>7. PICK draft : draft = IF st = "ACCEPTED" THEN NoDraft ELSE {<<note, feed[m].key[2], m, 0>>}
  OBVIOUS
<1>8. /\ MailHeld(m, "SENDING", wk[w].fence)
      /\ Insert(draft, now, FALSE, done)
      /\ UNCHANGED <<checks, health, refresh, clouds>>
  BY <1>2, <1>3, <1>4, <1>6, <1>7 DEF FinishMail
<1>9. /\ mails[m].st = "SENDING" /\ m <= Len(feed)
      /\ feed[m].key[2] \in Connection /\ m \in Nat
  <2>1. mails[m].st = "SENDING"
    BY <1>8 DEF MailHeld
  <2> QED BY <1>1, <2>1, MailHasNotice
<1>10. /\ draft \in SUBSET NoteKey
       /\ \A x, y \in draft : x = y
       /\ \A x \in draft : x[1] \notin Reminded
  <2>1. PICK key : key = <<note, feed[m].key[2], m, 0>>
    OBVIOUS
  <2>2. key \in NoteKey /\ key[1] \notin Reminded
    BY <1>6, <1>9, <2>1 DEF NoteKey, Stage, Reminded
  <2>3. draft = {} \/ draft = {key}
    BY <1>7, <2>1 DEF NoDraft
  <2> QED BY <2>2, <2>3
<1>11. /\ done \in [Notes -> MailRow] /\ done[m] = q
       /\ \A i \in Notes : i # m => done[i] = mails[i]
       /\ \A i \in Notes : done[i].st # "NONE" => i <= Len(feed)
  <2>1. /\ done \in [Notes -> MailRow] /\ done[m] = q
        /\ \A i \in Notes : i # m => done[i] = mails[i]
    BY <1>1, <1>5, <1>6 DEF StoreTypes
  <2>2. ASSUME NEW i \in Notes, done[i].st # "NONE" PROVE i <= Len(feed)
    BY <1>1, <1>9, <2>1, <2>2 DEF StoreTypes
  <2> QED BY <2>1, <2>2
<1>12. /\ feed' \in Seq(Note) /\ Len(feed') <= MaxNotes
       /\ mails' \in [Notes -> MailRow]
       /\ \A i \in Notes : mails'[i].st # "NONE" => i <= Len(feed')
       /\ \A i \in Notes :
             mails'[i] = done[i] \/ (done[i].st = "NONE" /\ mails'[i] = NewMail)
       /\ FeedSame \/ \E x \in draft : FeedGrows(x, now)
  BY <1>1, <1>8, <1>10, <1>11, Inserts
<1>13. StoreTypes'
  BY <1>1, <1>8, <1>12 DEF StoreTypes
<1>14. /\ mails'[m].st = st /\ mails'[m].claim.owner = Nobody
       /\ mails'[m].claim.fence = mails[m].claim.fence
  BY <1>3, <1>5, <1>11, <1>12 DEF MailTerminal
<1>15. ASSUME NEW i \in Notes, i # m
       PROVE  mails'[i] = mails[i] \/ (mails[i].st = "NONE" /\ mails'[i] = NewMail)
  BY <1>11, <1>12, <1>15
<1>16. ASSUME NEW i \in Notes, i # m
       PROVE  /\ Settled(i) /\ Fenced(i)
              /\ mails'[i] = mails[i] \/ mails'[i].claim.owner = Nobody
  BY <1>15, <1>16, NewMailFacts DEF Settled, Fenced, Calm
<1>17. Free(w)'
  <2>1. OwnsRows(w)
    BY DEF RunnerInv, Owned, OwnsRows
  <2>2. ASSUME NEW d \in Connection PROVE checks'[d].owner # w
    BY <2>1, <1>8 DEF OwnsRows, OwnsCheck, CheckPc
  <2>3. ASSUME NEW d \in RefreshKey PROVE refresh'[d].claim.owner # w
    BY <2>1, <1>8 DEF OwnsRows, OwnsRefresh, RefreshPc
  <2>4. ASSUME NEW i \in Notes PROVE mails'[i].claim.owner # w
    BY <2>1, <1>2, <1>14, <1>16, AuthorizationAssumption DEF OwnsRows, OwnsMail
  <2> QED BY <2>2, <2>3, <2>4 DEF Free
<1>18. ASSUME NEW v \in Worker PROVE Keeps(v)
  BY <1>8, <1>14, <1>16, AuthorizationAssumption DEF Keeps
<1>19. wk[w].pc # "over" /\ "top" \in Between
  BY DEF Between
<1>20. Sends'
  <2>1. Fenced(m)
    BY <1>14 DEF Fenced, MailTerminal
  <2>2. wk[w].pc \in SendPc /\ wk[w].pc \notin ClaimedPc
    BY DEF SendPc, ClaimedPc
  <2> QED BY <1>2, <1>14, <1>16, <1>19, <2>1, <2>2, SenderLeaves DEF outside
<1>21. /\ FirstKnown' /\ Spaced' /\ IncidentsAnnounced'
       /\ \/ FeedSame
          \/ \E x, t : /\ FeedGrows(x, t)
                       /\ x[1] \in Reminded => checks'[x[2]].owner = Nobody
  BY <1>8, <1>10, <1>12, OtherNotices
<1> QED BY <1>13, <1>17, <1>18, <1>19, <1>20, <1>21, LeavesWithTransaction

LEMMA RunFinishSending ==
    ASSUME RunnerInv, NEW w \in Worker, FinishSending(w)
    PROVE  RunnerInv'
<1>1. wk[w].pc = "mail done" /\ UNCHANGED <<host, outside>>
  BY DEF FinishSending
<1>2. CASE /\ FinishMail(wk[w].row, wk[w].fence, wk[w].out, wk[w].moment)
           /\ Leave(w, "top")
  BY <1>1, <1>2, RunFinishMail
<1>3. CASE ~MailHeld(wk[w].row, "SENDING", wk[w].fence) /\ Raise(w)
  BY <1>1, <1>3, Raises DEF outside, SendPc
<1> QED BY <1>2, <1>3 DEF FinishSending

-----------------------------------------------------------------------------
(* Steps of the users, of time and of the hosts.                            *)

\* The tables, the workers and the sends stay.
LEMMA QuietStep ==
    ASSUME RunnerInv, UNCHANGED <<storeVars, wk, scene, world, doubts>>,
           OtherTypes', Drained', clock <= clock'
    PROVE  RunnerInv'
<1>1. UNCHANGED <<checks, health, feed, mails, refresh, clouds>>
  BY DEF storeVars
<1>2. StoreTypes'
  BY <1>1 DEF RunnerInv, Types, StoreTypes
<1>3. LocalTypes'
  <2>1. clock \in Nat /\ clock' \in Nat
    BY DEF RunnerInv, Types, OtherTypes
  <2>2. ASSUME NEW w \in Worker PROVE LocalOK(wk[w]) /\ wk[w].moment <= clock'
    <3>1. LocalOK(wk[w]) /\ wk[w].moment <= clock /\ wk[w].moment \in Nat
      BY DEF RunnerInv, Types, LocalTypes, Local
    <3> QED BY <3>1, <2>1
  <2> QED BY <2>2 DEF RunnerInv, Types, LocalTypes
<1>4. Owned'
  <2>1. ASSUME NEW v \in Worker PROVE OwnsRows(v)'
    <3>1. Keeps(v)
      BY <1>1 DEF Keeps
    <3> QED BY <3>1, KeepsOwning DEF RunnerInv
  <2> QED BY <2>1 DEF Owned, OwnsRows
<1>5. Sends'
  <2>1. \A i \in Notes : Settled(i) /\ Fenced(i)
    BY <1>1 DEF Settled, Fenced
  <2> QED BY <2>1, SendsStay
<1>6. Notices'
  <2>1. FeedSame /\ FirstKnown' /\ Spaced' /\ IncidentsAnnounced'
    BY <1>1, NoticesStay
  <2>2. ASSUME NEW v \in Worker PROVE Drafted(v)'
    <3>1. Keeps(v) /\ Drafted(v) /\ Types
      BY <1>1 DEF Keeps, RunnerInv, Notices
    <3> QED BY <2>1, <3>1, DraftStays
  <2> QED BY <2>1, <2>2 DEF Notices
<1>7. Lone'
  BY <1>1 DEF RunnerInv, Lone, Grip, MailHeld
<1> QED BY <1>2, <1>3, <1>4, <1>5, <1>6, <1>7 DEF RunnerInv, Types

\* Every claim keeps its owner and fence.
SameClaims ==
    /\ \A c \in Connection : /\ checks'[c].owner = checks[c].owner
                             /\ checks'[c].fence = checks[c].fence
    /\ \A k \in RefreshKey : /\ refresh'[k].claim.owner = refresh[k].claim.owner
                             /\ refresh'[k].claim.fence = refresh[k].claim.fence
    /\ \A i \in Notes :
          \/ /\ mails'[i].st = mails[i].st
             /\ mails'[i].claim.owner = mails[i].claim.owner
             /\ mails'[i].claim.fence = mails[i].claim.fence
          \/ mails[i].st = "NONE" /\ mails'[i] = NewMail

LEMMA TableStep ==
    ASSUME RunnerInv, UNCHANGED <<wk, host, scene, clock, world, doubts>>,
           asked' \subseteq RefreshKey, StoreTypes', SameClaims, FeedSame, UNCHANGED health
    PROVE  RunnerInv'
<1>1. LocalTypes' /\ OtherTypes'
  <2>1. LocalTypes'
    BY DEF RunnerInv, Types, LocalTypes
  <2>2. OtherTypes'
    BY DEF RunnerInv, Types, OtherTypes
  <2> QED BY <2>1, <2>2
<1>2. ASSUME NEW v \in Worker PROVE Keeps(v)
  BY NewMailFacts, AuthorizationAssumption DEF Keeps, SameClaims
<1>3. Owned'
  <2>1. ASSUME NEW v \in Worker PROVE OwnsRows(v)'
    BY <1>2, KeepsOwning DEF RunnerInv
  <2> QED BY <2>1 DEF Owned, OwnsRows
<1>4. Sends'
  <2>1. ASSUME NEW i \in Notes PROVE Settled(i) /\ Fenced(i)
    BY NewMailFacts DEF SameClaims, Settled, Fenced, Calm
  <2> QED BY <2>1, SendsStay
<1>5. Drained'
  BY DEF RunnerInv, Drained
<1>6. Notices'
  <2>1. StoreTypes /\ FirstKnown /\ Spaced /\ IncidentsAnnounced
    BY DEF RunnerInv, Types, Notices
  <2>2. FirstKnown' /\ Spaced' /\ IncidentsAnnounced'
    BY <2>1, SameNotices, AnnouncedStays
  <2>3. ASSUME NEW v \in Worker PROVE Drafted(v)'
    <3>1. Keeps(v) /\ Drafted(v) /\ Types
      BY <1>2 DEF RunnerInv, Notices
    <3> QED BY <3>1, DraftStays
  <2> QED BY <2>2, <2>3 DEF Notices
<1>7. Lone'
  <2>1. ASSUME NEW v \in Worker, scene.workers = {v} PROVE wk[v].pc # "failed" /\ Grip(v)'
    <3>1. wk[v].pc # "failed" /\ Grip(v) /\ LocalOK(wk[v])
      BY <2>1 DEF RunnerInv, Lone, Types, LocalTypes
    <3>2. wk[v].pc \in CheckPc => Holds(checks'[wk[v].row], v, wk[v].fence)
      BY <3>1 DEF Grip, LocalOK, Holds, SameClaims
    <3>3. wk[v].pc \in RefreshPc => Holds(refresh'[wk[v].row].claim, v, wk[v].fence)
      BY <3>1 DEF Grip, LocalOK, Holds, SameClaims
    <3>4. ASSUME NEW i \in Notes, NEW st \in {"CLAIMED", "SENDING"}, MailHeld(i, st, wk[v].fence)
          PROVE  mails'[i].st = st /\ mails'[i].claim.fence = wk[v].fence
      BY <3>4 DEF MailHeld, SameClaims
    <3>5. wk[v].pc \in MailPc => wk[v].row \in Notes
      BY <3>1 DEF LocalOK
    <3>6. wk[v].pc \in ClaimedPc => MailHeld(wk[v].row, "CLAIMED", wk[v].fence)'
      BY <3>1, <3>4, <3>5, Phases DEF Grip, MailHeld
    <3>7. wk[v].pc \in SendPc => MailHeld(wk[v].row, "SENDING", wk[v].fence)'
      BY <3>1, <3>4, <3>5, Phases DEF Grip, MailHeld
    <3> QED BY <3>1, <3>2, <3>3, <3>6, <3>7 DEF Grip, MailHeld
  <2> QED BY <2>1 DEF RunnerInv, Lone
<1> QED BY <1>1, <1>3, <1>4, <1>5, <1>6, <1>7 DEF RunnerInv, Types

LEMMA ClaimExpires ==
    ASSUME NEW cl \in Claim, NEW n, n = [cl EXCEPT !.live = FALSE]
    PROVE  n \in Claim /\ n.owner = cl.owner /\ n.fence = cl.fence
  BY DEF Claim

LEMMA RunLeaseOver ==
    ASSUME RunnerInv, LeaseOver
    PROVE  RunnerInv'
<1>0. /\ StoreTypes /\ UNCHANGED <<wk, host, scene, clock, asked, world, doubts>>
      /\ asked' \subseteq RefreshKey
  BY DEF LeaseOver, outside, RunnerInv, Types, OtherTypes
<1>1. ASSUME NEW c \in Connection, checks' = [checks EXCEPT ![c].live = FALSE],
             UNCHANGED <<health, feed, mails, refresh, clouds>>
      PROVE  RunnerInv'
  <2>1. PICK n : n = [checks[c] EXCEPT !.live = FALSE]
    OBVIOUS
  <2>2. n \in Claim /\ n.owner = checks[c].owner /\ n.fence = checks[c].fence
    BY <1>0, <2>1, ClaimExpires DEF StoreTypes
  <2>3. checks' = [checks EXCEPT ![c] = n]
    BY <1>1, <2>1
  <2>4. StoreTypes'
    BY <1>0, <1>1, <2>2, <2>3 DEF StoreTypes
  <2>5. SameClaims /\ FeedSame
    BY <1>0, <1>1, <2>2, <2>3 DEF SameClaims, FeedSame, StoreTypes
  <2> QED BY <1>0, <1>1, <2>4, <2>5, TableStep
<1>2. ASSUME NEW k \in RefreshKey, refresh' = [refresh EXCEPT ![k].claim.live = FALSE],
             UNCHANGED <<checks, health, feed, mails, clouds>>
      PROVE  RunnerInv'
  <2>1. PICK n : n = [refresh[k].claim EXCEPT !.live = FALSE]
    OBVIOUS
  <2>2. n \in Claim /\ n.owner = refresh[k].claim.owner /\ n.fence = refresh[k].claim.fence
    BY <1>0, <2>1, ClaimExpires, RefreshRowFacts
  <2>3. PICK q : q = [refresh[k] EXCEPT !.claim = n]
    OBVIOUS
  <2>4. refresh' = [refresh EXCEPT ![k] = q]
    BY <1>2, <2>1, <2>3
  <2>5. q \in RefreshRow /\ q.claim = n
    BY <1>0, <2>2, <2>3 DEF StoreTypes, RefreshRow
  <2>6. StoreTypes'
    BY <1>0, <1>2, <2>4, <2>5 DEF StoreTypes
  <2>7. SameClaims /\ FeedSame
    BY <1>0, <1>2, <2>2, <2>4, <2>5 DEF SameClaims, FeedSame, StoreTypes
  <2> QED BY <1>0, <1>2, <2>6, <2>7, TableStep
<1>3. ASSUME NEW m \in Notes, mails' = [mails EXCEPT ![m].claim.live = FALSE],
             UNCHANGED <<checks, health, feed, refresh, clouds>>
      PROVE  RunnerInv'
  <2>1. PICK n : n = [mails[m].claim EXCEPT !.live = FALSE]
    OBVIOUS
  <2>2. n \in Claim /\ n.owner = mails[m].claim.owner /\ n.fence = mails[m].claim.fence
    BY <1>0, <2>1, ClaimExpires, MailRowFacts
  <2>3. PICK q : q = [mails[m] EXCEPT !.claim = n]
    OBVIOUS
  <2>4. mails' = [mails EXCEPT ![m] = q]
    BY <1>3, <2>1, <2>3
  <2>5. q \in MailRow /\ q.claim = n /\ q.st = mails[m].st
    BY <1>0, <2>2, <2>3 DEF StoreTypes, MailRow
  <2>6. /\ mails' \in [Notes -> MailRow] /\ mails'[m] = q
        /\ \A i \in Notes : i # m => mails'[i] = mails[i]
    BY <1>0, <2>4, <2>5 DEF StoreTypes
  <2>7. StoreTypes'
    <3>1. ASSUME NEW i \in Notes, mails'[i].st # "NONE" PROVE i <= Len(feed)
      BY <1>0, <2>5, <2>6, <3>1 DEF StoreTypes
    <3> QED BY <1>0, <1>3, <2>6, <3>1 DEF StoreTypes
  <2>8. SameClaims /\ FeedSame
    BY <1>3, <2>2, <2>5, <2>6 DEF SameClaims, FeedSame
  <2> QED BY <1>0, <1>3, <2>7, <2>8, TableStep
<1> QED BY <1>1, <1>2, <1>3 DEF LeaseOver, LeasePasses

LEMMA Acknowledged ==
    ASSUME StoreTypes, NEW i \in DOMAIN feed, feed' = [feed EXCEPT ![i].acked = TRUE]
    PROVE  feed' \in Seq(Note) /\ Len(feed') = Len(feed) /\ FeedSame
<1>1. feed \in Seq(Note) /\ DOMAIN feed = 1..Len(feed) /\ Len(feed) \in Nat
  BY FeedTypes DEF StoreTypes
<1>2. feed[i] \in Note
  BY <1>1
<1>3. PICK e : e = [feed[i] EXCEPT !.acked = TRUE]
  OBVIOUS
<1>4. feed' = [feed EXCEPT ![i] = e]
  BY <1>3
<1>5. e \in Note /\ e.key = feed[i].key /\ e.at = feed[i].at
  BY <1>2, <1>3 DEF Note
<1>6. feed' \in Seq(Note) /\ Len(feed') = Len(feed)
  <2>1. i \in 1..Len(feed)
    BY <1>1
  <2>2. /\ [feed EXCEPT ![i] = e] \in Seq(Note)
        /\ Len([feed EXCEPT ![i] = e]) = Len(feed)
    BY <1>1, <1>5, <2>1, ExceptSeq, Zenon
  <2> QED BY <1>4, <2>2, Zenon
<1>7. DOMAIN feed' = DOMAIN feed /\ feed'[i] = e /\ \A j \in DOMAIN feed : j # i => feed'[j] = feed[j]
  BY <1>4
<1>8. FeedSame
  BY <1>5, <1>7 DEF FeedSame
<1> QED BY <1>6, <1>8

LEMMA RunUserActs ==
    ASSUME RunnerInv, UserActs
    PROVE  RunnerInv'
<1>0. /\ StoreTypes /\ UNCHANGED <<wk, host, scene, clock, asked, world, doubts>>
      /\ asked' \subseteq RefreshKey
  BY DEF UserActs, outside, RunnerInv, Types, OtherTypes
<1>1. ASSUME NEW i \in Notes, AcknowledgeNotification(i) PROVE RunnerInv'
  <2>0. /\ i \in DOMAIN feed /\ feed' = [feed EXCEPT ![i].acked = TRUE]
        /\ UNCHANGED <<checks, health, mails, refresh, clouds>>
    BY <1>1 DEF AcknowledgeNotification
  <2>5. feed' \in Seq(Note) /\ Len(feed') = Len(feed) /\ FeedSame
    BY <1>0, <2>0, Acknowledged
  <2>7. StoreTypes'
    BY <1>0, <2>0, <2>5 DEF StoreTypes
  <2>8. SameClaims
    BY <2>0 DEF SameClaims
  <2> QED BY <1>0, <2>0, <2>5, <2>7, <2>8, TableStep
<1>2. ASSUME NEW m \in Notes, RequestDelivery(m) PROVE RunnerInv'
  <2>0. /\ m \in DOMAIN feed
        /\ mails' = [mails EXCEPT ![m] = IF mails[m].st = "NONE" THEN NewMail ELSE mails[m]]
        /\ UNCHANGED <<checks, health, feed, refresh, clouds>>
    BY <1>2 DEF RequestDelivery
  <2>1. PICK q : q = IF mails[m].st = "NONE" THEN NewMail ELSE mails[m]
    OBVIOUS
  <2>2. (mails[m].st = "NONE" /\ q = NewMail) \/ q = mails[m]
    BY <2>1
  <2>3. /\ mails' \in [Notes -> MailRow] /\ mails'[m] = q
        /\ \A i \in Notes : i # m => mails'[i] = mails[i]
    BY <1>0, <2>0, <2>1, <2>2, NewMailFacts DEF StoreTypes
  <2>4. m <= Len(feed)
    BY <1>0, <2>0, FeedTypes
  <2>5. StoreTypes'
    <3>1. ASSUME NEW i \in Notes, mails'[i].st # "NONE" PROVE i <= Len(feed)
      BY <1>0, <2>3, <2>4, <3>1 DEF StoreTypes
    <3> QED BY <1>0, <2>0, <2>3, <3>1 DEF StoreTypes
  <2>6. SameClaims /\ FeedSame
    BY <2>0, <2>2, <2>3 DEF SameClaims, FeedSame
  <2> QED BY <1>0, <2>0, <2>5, <2>6, TableStep
<1> QED BY <1>1, <1>2 DEF UserActs

LEMMA RunAskRefresh ==
    ASSUME RunnerInv, NEW k \in RefreshKey, AskRefresh(k)
    PROVE  RunnerInv'
<1>1. /\ UNCHANGED <<storeVars, wk, host, scene, clock, world, doubts>>
      /\ asked' = asked \cup {k}
  BY DEF AskRefresh
<1>2. OtherTypes' /\ Drained' /\ clock <= clock'
  <2>1. OtherTypes' /\ clock' = clock /\ clock \in Nat
    BY <1>1 DEF RunnerInv, Types, OtherTypes
  <2>2. Drained'
    BY <1>1 DEF RunnerInv, Drained
  <2> QED BY <2>1, <2>2
<1> QED BY <1>1, <1>2, QuietStep

LEMMA RunQueueRefresh ==
    ASSUME RunnerInv, NEW k \in RefreshKey, QueueRefresh(k)
    PROVE  RunnerInv'
<1>0. /\ StoreTypes /\ UNCHANGED <<wk, host, scene, clock, world, doubts>>
      /\ asked' \subseteq RefreshKey
      /\ refresh' = [refresh EXCEPT ![k].st = IF @ = "ABSENT" THEN "QUEUED" ELSE @]
      /\ UNCHANGED <<checks, health, feed, mails, clouds>>
  BY DEF QueueRefresh, EnqueueCloudRefresh, RunnerInv, Types, OtherTypes
<1>1. PICK st : st = IF refresh[k].st = "ABSENT" THEN "QUEUED" ELSE refresh[k].st
  OBVIOUS
<1>2. PICK q : q = [refresh[k] EXCEPT !.st = st]
  OBVIOUS
<1>3. refresh' = [refresh EXCEPT ![k] = q]
  BY <1>0, <1>1, <1>2
<1>4. st \in RefreshState
  BY <1>0, <1>1, RefreshRowFacts DEF RefreshState
<1>5. q \in RefreshRow /\ q.claim = refresh[k].claim
  BY <1>0, <1>2, <1>4 DEF StoreTypes, RefreshRow
<1>6. /\ refresh' \in [RefreshKey -> RefreshRow] /\ refresh'[k] = q
      /\ \A d \in RefreshKey : d # k => refresh'[d] = refresh[d]
  BY <1>0, <1>3, <1>5 DEF StoreTypes
<1>7. StoreTypes'
  BY <1>0, <1>6 DEF StoreTypes
<1>8. SameClaims /\ FeedSame
  BY <1>0, <1>5, <1>6 DEF SameClaims, FeedSame
<1> QED BY <1>0, <1>7, <1>8, TableStep

LEMMA RunTick ==
    ASSUME RunnerInv, Tick
    PROVE  RunnerInv'
<1>1. /\ UNCHANGED <<storeVars, wk, host, scene, asked, world, doubts>>
      /\ clock < scene.until /\ clock' = clock + 1 /\ clock \in Nat
  BY DEF Tick, RunnerInv, Types, OtherTypes
<1>2. scene.until \in Nat
  BY ScenesAssumption DEF RunnerInv, Types, OtherTypes
<1>3. clock' \in Nat /\ clock' <= scene.until /\ clock <= clock'
  BY <1>1, <1>2
<1>4. OtherTypes'
  BY <1>1, <1>3 DEF RunnerInv, Types, OtherTypes
<1>5. Drained'
  BY <1>1 DEF RunnerInv, Drained
<1> QED BY <1>1, <1>3, <1>4, <1>5, QuietStep

\* The host's record of its worker changes.
LEMMA HostMoves ==
    ASSUME RunnerInv, NEW w \in Worker, NEW h \in Host, host' = [host EXCEPT ![w] = h],
           UNCHANGED <<storeVars, wk, outside>>,
           h.drained => h.drain /\ h.stop /\ wk[w].pc \notin GatePc
    PROVE  RunnerInv'
<1>1. UNCHANGED <<storeVars, wk, scene, clock, asked, world, doubts>>
  BY DEF outside
<1>2. /\ host' \in [Worker -> Host] /\ host'[w] = h
      /\ \A v \in Worker : v # w => host'[v] = host[v]
  BY DEF RunnerInv, Types, OtherTypes
<1>3. OtherTypes' /\ clock' = clock /\ clock \in Nat
  BY <1>1, <1>2 DEF RunnerInv, Types, OtherTypes
<1>4. Drained'
  BY <1>1, <1>2 DEF RunnerInv, Drained
<1> QED BY <1>1, <1>3, <1>4, QuietStep

LEMMA RunHost ==
    ASSUME RunnerInv, NEW w \in Worker, BeginDrain(w) \/ DrainReturns(w) \/ Join(w)
    PROVE  RunnerInv'
<1>0. /\ host[w] \in Host /\ UNCHANGED <<storeVars, wk, outside>>
      /\ host[w].drained => host[w].drain /\ host[w].stop /\ wk[w].pc \notin GatePc
  BY DEF BeginDrain, DrainReturns, Join, RunnerInv, Types, OtherTypes, Drained
<1>1. CASE BeginDrain(w)
  <2>1. PICK h : h = [host[w] EXCEPT !.state = "stopping", !.drain = TRUE]
    OBVIOUS
  <2>2. h \in Host /\ h.drained = host[w].drained /\ h.drain = TRUE /\ h.stop = host[w].stop
    BY <1>0, <2>1 DEF Host, HostState
  <2>3. host' = [host EXCEPT ![w] = h]
    BY <1>1, <2>1 DEF BeginDrain
  <2> QED BY <1>0, <2>2, <2>3, HostMoves
<1>2. CASE DrainReturns(w)
  <2>1. PICK d \in BOOLEAN : d = (wk[w].pc \notin GatePc)
    OBVIOUS
  <2>2. PICK h : h = [host[w] EXCEPT !.stop = TRUE, !.drained = d]
    OBVIOUS
  <2>3. h \in Host /\ h.drained = d /\ h.drain = host[w].drain /\ h.stop = TRUE
    BY <1>0, <2>1, <2>2 DEF Host
  <2>4. host' = [host EXCEPT ![w] = h] /\ host[w].drain
    BY <1>2, <2>1, <2>2 DEF DrainReturns
  <2> QED BY <1>0, <2>1, <2>3, <2>4, HostMoves
<1>3. CASE Join(w)
  <2>1. PICK s : s = IF wk[w].pc # "over" THEN "shutdown_timeout"
                     ELSE IF host[w].state = "failed" THEN "failed" ELSE "stopped"
    OBVIOUS
  <2>2. PICK h : h = [host[w] EXCEPT !.joined = TRUE, !.state = s]
    OBVIOUS
  <2>3. s \in HostState
    BY <2>1 DEF HostState
  <2>4. /\ h \in Host /\ h.drained = host[w].drained /\ h.drain = host[w].drain
        /\ h.stop = host[w].stop
    BY <1>0, <2>2, <2>3 DEF Host
  <2>5. host' = [host EXCEPT ![w] = h]
    BY <1>3, <2>1, <2>2 DEF Join
  <2> QED BY <1>0, <2>4, <2>5, HostMoves
<1> QED BY <1>1, <1>2, <1>3

\* Claims of a dead process belong to nobody that lives.
BereftOf(cl, w) == IF cl.owner = w THEN [cl EXCEPT !.owner = Gone] ELSE cl

LEMMA BereftFacts ==
    ASSUME NEW cl \in Claim, NEW w \in Worker
    PROVE  /\ BereftOf(cl, w) \in Claim /\ BereftOf(cl, w).fence = cl.fence
           /\ BereftOf(cl, w).owner # w
           /\ BereftOf(cl, w).owner \in {cl.owner, Gone}
<1>1. CASE cl.owner = w
  <2>1. PICK n : n = [cl EXCEPT !.owner = Gone]
    OBVIOUS
  <2>2. BereftOf(cl, w) = n
    BY <1>1, <2>1 DEF BereftOf
  <2>3. n \in Claim /\ n.fence = cl.fence /\ n.owner = Gone
    BY <2>1 DEF Claim, Owner
  <2> QED BY <2>2, <2>3, AuthorizationAssumption
<1>2. CASE cl.owner # w
  BY <1>2 DEF BereftOf
<1> QED BY <1>1, <1>2

LEMMA OwnerGone ==
    ASSUME StoreTypes, NEW w \in Worker, OwnerDies(w)
    PROVE  /\ StoreTypes' /\ Free(w)' /\ UNCHANGED <<health, feed, clouds>>
           /\ \A v \in Worker : Keeps(v)
           /\ \A i \in Notes : Settled(i) /\ Fenced(i)
<1>0. /\ checks' = [c \in Connection |-> BereftOf(checks[c], w)]
      /\ refresh' = [k \in RefreshKey |->
                        [refresh[k] EXCEPT !.claim = BereftOf(refresh[k].claim, w)]]
      /\ mails' = [i \in Notes |-> [mails[i] EXCEPT !.claim = BereftOf(mails[i].claim, w)]]
      /\ UNCHANGED <<health, feed, clouds>>
  BY DEF OwnerDies, BereftOf
<1>1. ASSUME NEW c \in Connection
      PROVE  /\ checks'[c] \in Claim /\ checks'[c].fence = checks[c].fence
             /\ checks'[c].owner # w /\ checks'[c].owner \in {checks[c].owner, Gone}
  <2>1. checks[c] \in Claim /\ checks'[c] = BereftOf(checks[c], w)
    BY <1>0 DEF StoreTypes
  <2> QED BY <2>1, BereftFacts
<1>2. ASSUME NEW k \in RefreshKey
      PROVE  /\ refresh'[k] \in RefreshRow
             /\ refresh'[k].claim.fence = refresh[k].claim.fence
             /\ refresh'[k].claim.owner # w
             /\ refresh'[k].claim.owner \in {refresh[k].claim.owner, Gone}
  <2>1. refresh[k].claim \in Claim
    BY RefreshRowFacts
  <2>2. PICK cl \in Claim : /\ cl = BereftOf(refresh[k].claim, w)
                            /\ cl.fence = refresh[k].claim.fence
                            /\ cl.owner # w /\ cl.owner \in {refresh[k].claim.owner, Gone}
    BY <2>1, BereftFacts
  <2>3. refresh'[k] = [refresh[k] EXCEPT !.claim = cl]
    BY <1>0, <2>2
  <2>4. refresh[k] \in RefreshRow
    BY DEF StoreTypes
  <2>5. refresh'[k] \in RefreshRow /\ refresh'[k].claim = cl
    BY <2>3, <2>4 DEF RefreshRow
  <2> QED BY <2>2, <2>5
<1>3. ASSUME NEW i \in Notes
      PROVE  /\ mails'[i] \in MailRow /\ mails'[i].st = mails[i].st
             /\ mails'[i].claim.fence = mails[i].claim.fence
             /\ mails'[i].claim.owner # w
             /\ mails'[i].claim.owner \in {mails[i].claim.owner, Gone}
  <2>1. mails[i].claim \in Claim /\ mails[i] \in MailRow
    BY MailRowFacts
  <2>2. PICK cl \in Claim : /\ cl = BereftOf(mails[i].claim, w)
                            /\ cl.fence = mails[i].claim.fence
                            /\ cl.owner # w /\ cl.owner \in {mails[i].claim.owner, Gone}
    BY <2>1, BereftFacts
  <2>3. mails'[i] = [mails[i] EXCEPT !.claim = cl]
    BY <1>0, <2>2
  <2>4. mails'[i] \in MailRow /\ mails'[i].claim = cl /\ mails'[i].st = mails[i].st
    BY <2>1, <2>3 DEF MailRow
  <2> QED BY <2>2, <2>4
<1>4. checks' \in [Connection -> Claim]
  BY <1>0, <1>1
<1>5. refresh' \in [RefreshKey -> RefreshRow]
  BY <1>0, <1>2
<1>6. mails' \in [Notes -> MailRow]
  BY <1>0, <1>3
<1>7. StoreTypes'
  <2>1. ASSUME NEW i \in Notes, mails'[i].st # "NONE" PROVE i <= Len(feed)
    BY <1>3, <2>1 DEF StoreTypes
  <2> QED BY <1>0, <1>4, <1>5, <1>6, <2>1 DEF StoreTypes
<1>8. Free(w)'
  BY <1>1, <1>2, <1>3 DEF Free
<1>9. ASSUME NEW v \in Worker PROVE Keeps(v)
  BY <1>1, <1>2, <1>3, AuthorizationAssumption DEF Keeps
<1>10. ASSUME NEW i \in Notes PROVE Settled(i) /\ Fenced(i)
  BY <1>3 DEF Settled, Fenced
<1> QED BY <1>0, <1>7, <1>8, <1>9, <1>10

LEMMA RunRestart ==
    ASSUME RunnerInv, NEW w \in Worker, Restart(w)
    PROVE  RunnerInv'
<1>1. /\ w \in scene.dies /\ OwnerDies(w) /\ UNCHANGED <<scene, clock, asked, world, doubts>>
      /\ wk' = [wk EXCEPT ![w] = Idle("top", clock)]
      /\ host' = [host EXCEPT ![w] = FreshHost]
  BY DEF Restart, outside
<1>2. /\ StoreTypes' /\ Free(w)' /\ UNCHANGED <<health, feed, clouds>>
      /\ \A v \in Worker : Keeps(v)
      /\ \A i \in Notes : Settled(i) /\ Fenced(i)
  BY <1>1, OwnerGone DEF RunnerInv, Types
<1>3. clock \in Nat /\ clock <= clock
  <2>1. clock \in Nat
    BY DEF RunnerInv, Types, OtherTypes
  <2> QED BY <2>1, OwnFence
<1>4. PICK n : n = Idle("top", clock)
  OBVIOUS
<1>5. /\ n \in Local /\ LocalOK(n) /\ Empty(n) /\ n.pc = "top" /\ n.moment = clock
      /\ n.pc \notin GatePc
  BY <1>3, <1>4, IdleLocal DEF Between
<1>6. wk'[w] = n /\ \A v \in Worker : v # w => wk'[v] = wk[v]
  BY <1>1, <1>4 DEF RunnerInv, Types, LocalTypes
<1>7. /\ host' \in [Worker -> Host] /\ host'[w].drained = FALSE
      /\ \A v \in Worker : v # w => host'[v] = host[v]
  <2>1. FreshHost \in Host /\ FreshHost.drained = FALSE
    BY DEF FreshHost, Host, HostState
  <2> QED BY <1>1, <2>1 DEF RunnerInv, Types, OtherTypes
<1>8. Types'
  <2>1. OtherTypes'
    BY <1>1, <1>7 DEF RunnerInv, Types, OtherTypes
  <2>2. wk' \in [Worker -> Local]
    BY <1>1, <1>4, <1>5 DEF RunnerInv, Types, LocalTypes
  <2>3. ASSUME NEW v \in Worker PROVE LocalOK(wk'[v]) /\ wk'[v].moment <= clock'
    BY <1>1, <1>3, <1>5, <1>6 DEF RunnerInv, Types, LocalTypes
  <2> QED BY <1>2, <2>1, <2>2, <2>3 DEF Types, LocalTypes, LocalOK
<1>9. Owned'
  <2>1. ASSUME NEW v \in Worker PROVE OwnsRows(v)'
    BY <1>2, <1>6, KeepsOwning, FreeOwning DEF RunnerInv
  <2> QED BY <2>1 DEF Owned, OwnsRows
<1>10. Sends'
  <2>1. n.pc \notin SendPc /\ n.pc \notin ClaimedPc
    BY <1>5, Phases DEF Empty
  <2>2. \A v \in Worker : wk'[v] = wk[v] \/ (wk'[v].pc \notin SendPc /\ Claimant(v)')
    BY <2>1, <1>6 DEF Claimant
  <2> QED BY <1>1, <1>2, <2>2, SendsStay
<1>11. Drained'
  BY <1>6, <1>7 DEF RunnerInv, Drained
<1>12. Notices'
  <2>1. FeedSame /\ FirstKnown' /\ Spaced' /\ IncidentsAnnounced'
    BY <1>2, NoticesStay
  <2>2. ASSUME NEW v \in Worker PROVE Drafted(v)'
    <3>1. CASE v = w
      BY <3>1, <1>5, <1>6 DEF Drafted
    <3>2. CASE v # w
      <4>1. Drafted(v) /\ Types /\ Keeps(v) /\ wk'[v] = wk[v]
        BY <3>2, <1>2, <1>6 DEF RunnerInv, Notices
      <4> QED BY <2>1, <4>1, DraftStays
    <3> QED BY <3>1, <3>2
  <2> QED BY <2>1, <2>2 DEF Notices
<1>13. Lone'
  <2>1. w \in scene.workers
    BY <1>1, ScenesAssumption DEF RunnerInv, Types, OtherTypes
  <2>2. \A v \in Worker : v \notin scene'.workers => wk'[v].pc = "over"
    BY <1>1, <1>6, <2>1 DEF RunnerInv, Lone
  <2>3. Grip(w)'
    BY <1>5, <1>6, Phases DEF Empty, Grip
  <2>4. ASSUME NEW v \in Worker, scene'.workers = {v}
        PROVE  wk'[v].pc # "failed" /\ Grip(v)'
    <3>1. v = w
      BY <1>1, <2>1, <2>4
    <3> QED BY <3>1, <1>5, <1>6, <2>3
  <2> QED BY <2>2, <2>4 DEF Lone
<1> QED BY <1>8, <1>9, <1>10, <1>11, <1>12, <1>13 DEF RunnerInv

-----------------------------------------------------------------------------
(* The invariant.                                                           *)

LEMMA RunnerStarts ==
    ASSUME Init
    PROVE  RunnerInv
<1>0. FreeClaim \in Claim /\ FreeClaim.owner = Nobody
  BY DEF FreeClaim, Claim, Owner
<1>1. /\ checks = [c \in Connection |-> FreeClaim]
      /\ health = [c \in Connection |-> NotObserved]
      /\ feed = <<>>
      /\ mails = [i \in Notes |-> NoMail]
      /\ clouds = [c \in Connection |-> 0]
      /\ scene \in Scenes /\ clock = 0 /\ host = [w \in Worker |-> FreshHost]
      /\ asked = {} /\ world = [i \in Notes |-> 0] /\ doubts = [i \in Notes |-> 0]
  BY DEF Init, StoreInit
<1>2. ASSUME NEW w \in Worker
      PROVE  /\ wk[w] \in Local /\ LocalOK(wk[w]) /\ Empty(wk[w]) /\ wk[w].moment = 0
             /\ wk[w].pc \in {"top", "over"}
             /\ w \notin scene.workers => wk[w].pc = "over"
  <2>1. PICK pc \in Between : /\ pc = IF w \in scene.workers THEN "top" ELSE "over"
                              /\ pc \in {"top", "over"}
    BY DEF Between
  <2>2. wk[w] = Idle(pc, 0)
    BY <2>1 DEF Init
  <2>3. 0 \in Nat
    OBVIOUS
  <2>4. /\ Idle(pc, 0) \in Local /\ LocalOK(Idle(pc, 0)) /\ Empty(Idle(pc, 0))
        /\ Idle(pc, 0).pc = pc /\ Idle(pc, 0).moment = 0
    BY <2>3, IdleLocal
  <2> QED BY <2>1, <2>2, <2>4
<1>3. refresh \in [RefreshKey -> RefreshRow] /\ \A k \in RefreshKey : refresh[k].claim.owner = Nobody
  <2>1. ASSUME NEW k \in RefreshKey
        PROVE  refresh[k] \in RefreshRow /\ refresh[k].claim.owner = Nobody
    <3>1. PICK c \in Connection : refresh[k] = [st |-> "ABSENT", on |-> c, claim |-> FreeClaim]
      BY DEF Init, StoreInit
    <3> QED BY <3>1, <1>0 DEF RefreshRow, RefreshState
  <2>2. DOMAIN refresh = RefreshKey /\ refresh = [k \in RefreshKey |-> refresh[k]]
    BY DEF Init, StoreInit
  <2> QED BY <2>1, <2>2
<1>4. /\ mails \in [Notes -> MailRow]
      /\ \A i \in Notes : mails[i].st = "NONE" /\ mails[i].claim.owner = Nobody
  <2>1. NoMail \in MailRow /\ NoMail.st = "NONE" /\ NoMail.claim = FreeClaim
    BY <1>0 DEF NoMail, MailRow, MailState
  <2> QED BY <1>0, <1>1, <2>1
<1>5. feed \in Seq(Note) /\ Len(feed) = 0 /\ DOMAIN feed = {}
  BY <1>1
<1>6. StoreTypes
  <2>1. checks \in [Connection -> Claim]
    BY <1>0, <1>1
  <2>2. health \in [Connection -> Seen]
    BY <1>1 DEF Seen
  <2>3. clouds \in [Connection -> Fingerprint \cup {0}]
    BY <1>1
  <2>4. Len(feed) <= MaxNotes
    BY <1>5, AuthorizationAssumption
  <2> QED BY <1>3, <1>4, <1>5, <2>1, <2>2, <2>3, <2>4 DEF StoreTypes
<1>7. LocalTypes
  <2>1. DOMAIN wk = Worker /\ wk = [w \in Worker |-> wk[w]]
    BY DEF Init
  <2>2. wk \in [Worker -> Local]
    BY <1>2, <2>1
  <2> QED BY <1>1, <1>2, <2>2 DEF LocalTypes
<1>8. OtherTypes
  <2>1. FreshHost \in Host
    BY DEF FreshHost, Host, HostState
  <2>2. scene.until \in Nat
    BY <1>1, ScenesAssumption
  <2> QED BY <1>1, <2>1, <2>2 DEF OtherTypes
<1>9. Owned
  BY <1>0, <1>1, <1>3, <1>4, AuthorizationAssumption
     DEF Owned, OwnsCheck, OwnsRefresh, OwnsMail
<1>10. Sends
  <2>1. ASSUME NEW w \in Worker PROVE wk[w].pc \notin SendPc /\ wk[w].pc \notin ClaimedPc
    BY <1>2, Phases DEF Empty
  <2>2. \A i \in Notes : MailCount(i)
    <3>1. \A i \in Notes : world[i] = 0 /\ doubts[i] = 0
      BY <1>1
    <3> QED BY <3>1 DEF MailCount
  <2> QED BY <2>1, <2>2 DEF Sends, Sender, Claimant, OneSender
<1>11. Drained
  BY <1>1 DEF Drained, FreshHost
<1>12. Notices
  <2>1. FirstKnown /\ Spaced
    BY <1>5 DEF FirstKnown, Spaced
  <2>2. IncidentsAnnounced
    BY <1>1 DEF IncidentsAnnounced, Invalidated, NotObserved
  <2>3. \A w \in Worker : Drafted(w)
    BY <1>2 DEF Drafted
  <2> QED BY <2>1, <2>2, <2>3 DEF Notices
<1>13. Lone
  <2>1. ASSUME NEW w \in Worker PROVE wk[w].pc # "failed" /\ Grip(w)
    BY <1>2, Phases DEF Empty, Grip
  <2> QED BY <1>2, <2>1 DEF Lone
<1> QED BY <1>6, <1>7, <1>8, <1>9, <1>10, <1>11, <1>12, <1>13 DEF RunnerInv, Types

LEMMA RunWorker ==
    ASSUME RunnerInv, NEW w \in Worker, WorkerStep(w)
    PROVE  RunnerInv'
<1>0. /\ "check" \in Between /\ "refresh" \in Between /\ "mail" \in Between /\ "top" \in Between
      /\ "check gate" \in GatePc /\ "refresh gate" \in GatePc /\ "mail gate" \in GatePc
  BY DEF Between, GatePc
<1>1. CASE CheckStep(w)
  <2>1. CASE EnterGate(w, "check", "check gate", "refresh")
    BY <1>0, <2>1, RunEnterGate
  <2> QED BY <1>1, <2>1, RunTakeCheck, RunGiveCheckBack, RunReadPrevious, RunCheckAuthority,
             RunAdmit, RunCheckAnswers, RunDraftCheck, RunFinishCheck
          DEF CheckStep
<1>2. CASE RefreshStep(w)
  <2>1. CASE EnterGate(w, "refresh", "refresh gate", "mail")
    BY <1>0, <2>1, RunEnterGate
  <2> QED BY <1>2, <2>1, RunTakeRefresh, RunGiveRefreshBack, RunRefreshQuietly, RunAdmit,
             RunFinishRefresh
          DEF RefreshStep
<1>3. CASE MailStep(w)
  <2>1. CASE EnterGate(w, "mail", "mail gate", "top")
    BY <1>0, <2>1, RunEnterGate
  <2> QED BY <1>3, <2>1, RunTakeMail, RunMailBack, RunStartSending, RunAdmit, RunVerify,
             RunMailAnswers, RunFinishSending
          DEF MailStep
<1> QED BY <1>1, <1>2, <1>3, RunStartCycle, RunThreadEnds DEF WorkerStep

LEMMA RunNext ==
    ASSUME RunnerInv, Next
    PROVE  RunnerInv'
<1>1. ASSUME NEW w \in Worker, WorkerStep(w) \/ HostStep(w) \/ BeginDrain(w) \/ Restart(w)
      PROVE  RunnerInv'
  BY <1>1, RunWorker, RunHost, RunRestart DEF HostStep
<1>2. ASSUME NEW k \in RefreshKey, AskRefresh(k) \/ QueueRefresh(k)
      PROVE  RunnerInv'
  BY <1>2, RunAskRefresh, RunQueueRefresh
<1> QED BY <1>1, <1>2, RunUserActs, RunTick, RunLeaseOver DEF Next

LEMMA RunNothing ==
    ASSUME RunnerInv, UNCHANGED vars
    PROVE  RunnerInv'
<1>1. UNCHANGED <<storeVars, wk, host, scene, clock, asked, world, doubts>>
  BY DEF vars
<1>2. OtherTypes' /\ clock \in Nat /\ clock' = clock
  BY <1>1 DEF RunnerInv, Types, OtherTypes
<1>3. Drained'
  BY <1>1 DEF RunnerInv, Drained
<1> QED BY <1>1, <1>2, <1>3, QuietStep

-----------------------------------------------------------------------------
(* The theorems.                                                            *)

\* RunnerInv holds in every reachable state of the runner, its hosts and the
\* handlers that meet it.
THEOREM RunnerInvariant == Spec => []RunnerInv
<1>1. Init => RunnerInv
  BY RunnerStarts
<1>2. RunnerInv /\ [Next]_vars => RunnerInv'
  BY RunNext, RunNothing
<1> QED BY <1>1, <1>2, PTL DEF Spec

\* The tables of store.py and the locals of every worker keep their types.
THEOREM RunnerTypes == Spec => []TypeOK
<1>1. RunnerInv => TypeOK
  <2> SUFFICES ASSUME RunnerInv PROVE TypeOK
    OBVIOUS
  <2>1. StoreTypeOK
    BY DEF RunnerInv, Types, StoreTypes, StoreTypeOK, Seen, MailRow, RefreshRow
  <2>2. clock \in 0..scene.until
    <3>1. scene.until \in Nat /\ clock \in Nat /\ clock <= scene.until
      BY ScenesAssumption DEF RunnerInv, Types, OtherTypes
    <3> QED BY <3>1
  <2>3. ASSUME NEW w \in Worker
        PROVE  /\ wk[w].pc \in Pc
               /\ wk[w].moment \in 0..clock
               /\ wk[w].row \in Connection \cup RefreshKey \cup Notes \cup {NoRow}
               /\ wk[w].draft \subseteq NoteKey
    <3>1. wk[w] \in Local /\ wk[w].moment <= clock /\ clock \in Nat
      BY DEF RunnerInv, Types, LocalTypes, OtherTypes
    <3>2. /\ wk[w].pc \in Pc /\ wk[w].moment \in Nat /\ wk[w].row \in Row
          /\ wk[w].draft \in SUBSET NoteKey
      BY <3>1 DEF Local
    <3> QED BY <3>1, <3>2 DEF Row
  <2> QED BY <2>1, <2>2, <2>3 DEF RunnerInv, Types, OtherTypes, TypeOK, Host
<1> QED BY <1>1, RunnerInvariant, PTL

\* complete_authorization_check never stores an unusable authorization whose
\* incident is not in the feed.
THEOREM RunnerAnnouncesIncidents == Spec => []IncidentsAnnounced
<1>1. RunnerInv => IncidentsAnnounced
  BY DEF RunnerInv, Notices
<1> QED BY <1>1, RunnerInvariant, PTL

\* _authorization_notifications: whatever workers draft at the same time, the
\* notices of a stage are a reminder interval apart.
THEOREM RunnerSpacesReminders == Spec => []RemindersSpaced
<1>1. RunnerInv => RemindersSpaced
  <2> SUFFICES ASSUME RunnerInv, NEW i \in DOMAIN feed, NEW j \in DOMAIN feed,
                      i < j, feed[i].key[1] \in {"required", "24h", "1h"},
                      \A n \in 1..3 : feed[i].key[n] = feed[j].key[n]
               PROVE  feed[j].at - feed[i].at >= 1
    BY DEF RemindersSpaced
  <2>1. 1 \in 1..3 /\ 2 \in 1..3 /\ 3 \in 1..3
    OBVIOUS
  <2>2. SameStage(feed[i].key, feed[j].key)
    BY <2>1 DEF SameStage
  <2>3. feed[i].key[1] \in Reminded
    BY DEF Reminded
  <2> QED BY <2>2, <2>3 DEF RunnerInv, Notices, Spaced
<1> QED BY <1>1, RunnerInvariant, PTL

\* SENDING before the call, UNKNOWN after a lost lease: a mail is sent again
\* only after an answer that left its outcome open.
THEOREM RunnerRepeatsNoMail == Spec => []MailNotRepeated
<1>1. RunnerInv => MailNotRepeated
  BY DEF RunnerInv, Sends, MailCount, MailNotRepeated
<1> QED BY <1>1, RunnerInvariant, PTL

\* run_runner: a thread that is over owns no claim of any table.
THEOREM RunnerLeavesNothing == Spec => []ThreadLeavesNothing
<1>1. RunnerInv => ThreadLeavesNothing
  <2> SUFFICES ASSUME RunnerInv, NEW w \in Worker, wk[w].pc = "over"
               PROVE  Free(w)
    BY DEF ThreadLeavesNothing, Free
  <2>1. Empty(wk[w])
    BY Phases DEF Empty, Between
  <2> QED BY <2>1, EmptyIsFree DEF RunnerInv
<1> QED BY <1>1, RunnerInvariant, PTL

\* The only worker of a process never meets a claim that is not its own.
THEOREM RunnerSurvivesAlone == Spec => []LoneRunnerSurvives
<1>1. RunnerInv => LoneRunnerSurvives
  BY DEF RunnerInv, Lone, LoneRunnerSurvives
<1> QED BY <1>1, RunnerInvariant, PTL

-----------------------------------------------------------------------------
(* After the drain.                                                         *)

\* Worker v takes no claim in this step.
NoGain(v) ==
    /\ \A c \in Connection : checks'[c].owner = v => checks[c].owner = v
    /\ \A k \in RefreshKey : refresh'[k].claim.owner = v => refresh[k].claim.owner = v
    /\ \A i \in Notes : mails'[i].claim.owner = v => mails[i].claim.owner = v
NotAdmitted(v) == wk'[v].pc = "mail admitted" => wk[v].pc = "mail admitted"

LEMMA NoGainNothing ==
    ASSUME NEW v, UNCHANGED storeVars
    PROVE  NoGain(v)
  BY DEF NoGain, storeVars

\* Where the mails go in a transaction that may add a notice.
LEMMA NoGainInsert ==
    ASSUME NEW v \in Worker, NEW draft, NEW now, NEW mailed, NEW table \in [Notes -> MailRow],
           Insert(draft, now, mailed, table), NEW i \in Notes, mails'[i].claim.owner = v
    PROVE  table[i].claim.owner = v
<1>1. mails' = table \/ mails' = [table EXCEPT ![Len(feed) + 1] = NewMail]
  BY DEF Insert
<1>2. NewMail.claim.owner # v
  BY NewMailFacts, AuthorizationAssumption
<1>3. mails'[i] = table[i] \/ mails'[i] = NewMail
  BY <1>1
<1> QED BY <1>2, <1>3

LEMMA NoGainCheck ==
    ASSUME StoreTypes, NEW v \in Worker, NEW c \in Connection,
           checks' = [checks EXCEPT ![c] = Released(@)], UNCHANGED refresh,
           \A i \in Notes : mails'[i].claim.owner = v => mails[i].claim.owner = v
    PROVE  NoGain(v)
<1>1. Released(checks[c]).owner # v
  BY ClaimFacts, AuthorizationAssumption DEF StoreTypes
<1>2. \A d \in Connection : checks'[d] = checks[d] \/ checks'[d] = Released(checks[c])
  BY DEF StoreTypes
<1> QED BY <1>1, <1>2 DEF NoGain

LEMMA NoGainRefresh ==
    ASSUME StoreTypes, NEW v \in Worker, NEW k \in RefreshKey, NEW st, NEW on,
           refresh' = [refresh EXCEPT ![k] = [st |-> st, on |-> on,
                                              claim |-> Released(refresh[k].claim)]],
           UNCHANGED checks,
           \A i \in Notes : mails'[i].claim.owner = v => mails[i].claim.owner = v
    PROVE  NoGain(v)
<1>1. Released(refresh[k].claim).owner # v
  BY RefreshRowFacts, ClaimFacts, AuthorizationAssumption
<1>2. \A d \in RefreshKey : refresh'[d] = refresh[d] \/ refresh'[d].claim = Released(refresh[k].claim)
  BY DEF StoreTypes
<1> QED BY <1>1, <1>2 DEF NoGain

LEMMA NoGainReleaseMail ==
    ASSUME StoreTypes, NEW v \in Worker, NEW m \in Notes, NEW st, NEW fence,
           ReleaseMail(m, st, fence) \/ MarkSending(m, fence)
    PROVE  NoGain(v)
<1>1. CASE ReleaseMail(m, st, fence)
  <2>1. Released(mails[m].claim).owner # v
    BY MailRowFacts, ClaimFacts, AuthorizationAssumption
  <2>2. PICK q : q = [st |-> "READY", claim |-> Released(mails[m].claim)]
    OBVIOUS
  <2>3. mails' = [mails EXCEPT ![m] = q] /\ UNCHANGED <<checks, refresh>>
    BY <1>1, <2>2 DEF ReleaseMail
  <2>4. q.claim.owner # v
    BY <2>1, <2>2
  <2>5. \A i \in Notes : mails'[i] = mails[i] \/ mails'[i] = q
    BY <2>3 DEF StoreTypes
  <2> QED BY <2>3, <2>4, <2>5 DEF NoGain
<1>2. CASE MarkSending(m, fence)
  <2>1. mails' = [mails EXCEPT ![m].st = "SENDING"] /\ UNCHANGED <<checks, refresh>>
    BY <1>2 DEF MarkSending
  <2>2. \A i \in Notes : mails'[i].claim = mails[i].claim
    BY <2>1 DEF StoreTypes, MailRow
  <2> QED BY <2>1, <2>2 DEF NoGain
<1> QED BY <1>1, <1>2

LEMMA NoGainFinishMail ==
    ASSUME StoreTypes, NEW v \in Worker, NEW m \in Notes, NEW fence, NEW st \in MailTerminal,
           NEW now, FinishMail(m, fence, st, now)
    PROVE  NoGain(v)
<1>1. PICK q : q = [st |-> st, claim |-> Released(mails[m].claim)]
  OBVIOUS
<1>2. Released(mails[m].claim) \in Claim /\ Released(mails[m].claim).owner # v
  BY MailRowFacts, ClaimFacts, AuthorizationAssumption
<1>3. q \in MailRow /\ q.claim.owner # v
  BY <1>1, <1>2 DEF MailRow, MailState
<1>4. PICK done : done = [mails EXCEPT ![m] = q]
  OBVIOUS
<1>5. PICK draft : draft = IF st = "ACCEPTED" THEN NoDraft
                           ELSE {<<IF st = "REJECTED" THEN "rejected" ELSE "unknown",
                                   feed[m].key[2], m, 0>>}
  OBVIOUS
<1>6. Insert(draft, now, FALSE, done) /\ UNCHANGED <<checks, refresh>>
  BY <1>1, <1>4, <1>5 DEF FinishMail
<1>7. done \in [Notes -> MailRow] /\ \A i \in Notes : done[i] = mails[i] \/ done[i] = q
  BY <1>3, <1>4 DEF StoreTypes
<1>8. ASSUME NEW i \in Notes, mails'[i].claim.owner = v PROVE mails[i].claim.owner = v
  <2>1. done[i].claim.owner = v
    BY <1>6, <1>7, <1>8, NoGainInsert
  <2> QED BY <2>1, <1>3, <1>7
<1> QED BY <1>6, <1>8 DEF NoGain

\* The claims of one worker are no gain to another.
LEMMA NoGainClaim ==
    ASSUME StoreTypes, NEW v \in Worker, NEW w \in Worker, w # v,
           \/ \E c \in Connection : ClaimCheck(w, c)
           \/ \E k \in RefreshKey : ClaimRefresh(w, k)
           \/ \E i \in Notes : ClaimMail(w, i)
    PROVE  NoGain(v)
<1>1. ASSUME NEW c \in Connection, ClaimCheck(w, c) PROVE NoGain(v)
  <2>1. Claimed(checks[c], w).owner = w
    BY DEF Claimed
  <2>2. PICK cl : cl = Claimed(checks[c], w) /\ cl.owner # v
    BY <2>1
  <2>3. checks' = [checks EXCEPT ![c] = cl] /\ UNCHANGED <<refresh, mails>>
    BY <1>1, <2>2 DEF ClaimCheck
  <2>4. \A d \in Connection : checks'[d] = checks[d] \/ checks'[d] = cl
    BY <2>3 DEF StoreTypes
  <2> QED BY <2>2, <2>3, <2>4 DEF NoGain
<1>2. ASSUME NEW k \in RefreshKey, ClaimRefresh(w, k) PROVE NoGain(v)
  <2>1. Claimed(refresh[k].claim, w).owner = w
    BY DEF Claimed
  <2>2. PICK cl : cl = Claimed(refresh[k].claim, w) /\ cl.owner # v
    BY <2>1
  <2>3. PICK q : q = [st |-> "RUNNING", on |-> refresh[k].on, claim |-> cl]
    OBVIOUS
  <2>4. refresh' = [refresh EXCEPT ![k] = q] /\ UNCHANGED <<checks, mails>>
    BY <1>2, <2>2, <2>3 DEF ClaimRefresh
  <2>5. q.claim.owner # v
    BY <2>2, <2>3
  <2>6. \A d \in RefreshKey : refresh'[d] = refresh[d] \/ refresh'[d] = q
    BY <2>4 DEF StoreTypes
  <2> QED BY <2>4, <2>5, <2>6 DEF NoGain
<1>3. ASSUME NEW m \in Notes, ClaimMail(w, m) PROVE NoGain(v)
  <2>1. Claimed(Recovered[m].claim, w).owner = w
    BY DEF Claimed
  <2>2. PICK cl : cl = Claimed(Recovered[m].claim, w) /\ cl.owner # v
    BY <2>1
  <2>3. PICK q : q = [st |-> "CLAIMED", claim |-> cl]
    OBVIOUS
  <2>4. mails' = [Recovered EXCEPT ![m] = q] /\ UNCHANGED <<checks, refresh>>
    BY <1>3, <2>2, <2>3 DEF ClaimMail
  <2>5. q.claim.owner # v
    BY <2>2, <2>3
  <2>6. \A i \in Notes : mails'[i] = Recovered[i] \/ mails'[i] = q
    BY <2>4 DEF Recovered
  <2>7. \A i \in Notes : Recovered[i] = mails[i] \/ Recovered[i].claim.owner = Nobody
    BY RecoveredFacts
  <2> QED BY <2>4, <2>5, <2>6, <2>7, AuthorizationAssumption DEF NoGain
<1> QED BY <1>1, <1>2, <1>3

LEMMA NoGainNoMail ==
    ASSUME StoreTypes, NEW v \in Worker, ClaimNoMail
    PROVE  NoGain(v)
<1>1. mails' = Recovered /\ UNCHANGED <<checks, refresh>>
  BY DEF ClaimNoMail
<1>2. \A i \in Notes : Recovered[i] = mails[i] \/ Recovered[i].claim.owner = Nobody
  BY RecoveredFacts
<1> QED BY <1>1, <1>2, AuthorizationAssumption DEF NoGain

\* A worker goes on to another place than the admitted send.
LEMMA ElsewhereNext ==
    ASSUME RunnerInv, NEW w \in Worker, NEW n, wk' = [wk EXCEPT ![w] = n],
           n.pc # "mail admitted", NEW v \in Worker
    PROVE  NotAdmitted(v)
  BY DEF RunnerInv, Types, LocalTypes, NotAdmitted

LEMMA GoesElsewhere ==
    ASSUME RunnerInv, NEW w \in Worker, NEW pc, Goto(w, pc) \/ Leave(w, pc),
           pc # "mail admitted", NEW v \in Worker
    PROVE  NotAdmitted(v)
<1>1. wk[w] \in Local
  BY DEF RunnerInv, Types, LocalTypes
<1>2. CASE Goto(w, pc)
  <2>1. PICK n : n = [wk[w] EXCEPT !.pc = pc]
    OBVIOUS
  <2>2. n.pc = pc
    BY <1>1, <2>1 DEF Local
  <2>3. wk' = [wk EXCEPT ![w] = n]
    BY <1>2, <2>1 DEF Goto
  <2> QED BY <2>2, <2>3, ElsewhereNext
<1>3. CASE Leave(w, pc)
  <2>1. Idle(pc, wk[w].moment).pc = pc
    BY DEF Idle
  <2>2. wk' = [wk EXCEPT ![w] = Idle(pc, wk[w].moment)]
    BY <1>3 DEF Leave
  <2> QED BY <2>1, <2>2, ElsewhereNext
<1> QED BY <1>2, <1>3

LEMMA RaiseElsewhere ==
    ASSUME RunnerInv, NEW w \in Worker, Raise(w), NEW v \in Worker
    PROVE  NoGain(v) /\ NotAdmitted(v)
<1>1. Leave(w, "failed") /\ UNCHANGED storeVars
  BY DEF Raise, Leave
<1> QED BY <1>1, NoGainNothing, GoesElsewhere

\* The steps of a worker that do not touch the tables.
LEMMA QuietLocally ==
    ASSUME RunnerInv, NEW w \in Worker, NEW v \in Worker,
           \/ StartCycle(w) \/ ReadPrevious(w) \/ CheckAuthority(w) \/ CheckAnswers(w)
           \/ DraftCheck(w) \/ RefreshAuthority(w) \/ RefreshHealth(w) \/ RefreshAnswers(w)
           \/ VerifySending(w) \/ VerifyJob(w) \/ ThreadEnds(w)
           \/ EnterGate(w, "check", "check gate", "refresh")
           \/ EnterGate(w, "refresh", "refresh gate", "mail")
           \/ EnterGate(w, "mail", "mail gate", "top")
           \/ Admit(w, "check admit", "check call")
           \/ Admit(w, "refresh admit", "refresh call")
    PROVE  NoGain(v) /\ NotAdmitted(v)
<1>0. wk[w] \in Local
  BY DEF RunnerInv, Types, LocalTypes
<1>1. UNCHANGED storeVars
  BY DEF StartCycle, ReadPrevious, CheckAuthority, CheckAnswers, DraftCheck, RefreshAuthority,
         RefreshHealth, RefreshAnswers, VerifySending, VerifyJob, ThreadEnds, EnterGate, Admit
<1>2. NoGain(v)
  BY <1>1, NoGainNothing
<1>3. ASSUME NEW n, wk' = [wk EXCEPT ![w] = n], n.pc # "mail admitted" PROVE NotAdmitted(v)
  BY <1>3, ElsewhereNext
<1>4. ASSUME NEW pc, Goto(w, pc) \/ Leave(w, pc), pc # "mail admitted" PROVE NotAdmitted(v)
  BY <1>4, GoesElsewhere
<1> SUFFICES NotAdmitted(v)
  BY <1>2
<1>5. CASE StartCycle(w)
  <2>1. \A pc : Idle(pc, clock).pc = pc
    BY DEF Idle
  <2>2. \E n : wk' = [wk EXCEPT ![w] = n] /\ n.pc # "mail admitted"
    BY <1>5, <2>1 DEF StartCycle
  <2> QED BY <2>2, <1>3
<1>6. CASE ReadPrevious(w)
  <2>1. PICK n : n = [wk[w] EXCEPT !.pc = "check read", !.prev = health[wk[w].row]]
    OBVIOUS
  <2>2. wk' = [wk EXCEPT ![w] = n]
    BY <1>6, <2>1 DEF ReadPrevious
  <2>3. n.pc = "check read"
    BY <1>0, <2>1 DEF Local
  <2> QED BY <2>2, <2>3, <1>3
<1>7. CASE CheckAuthority(w) \/ CheckAnswers(w)
  <2>1. ASSUME NEW o, wk' = [wk EXCEPT ![w] = [@ EXCEPT !.pc = "check draft", !.obs = o]]
        PROVE  NotAdmitted(v)
    <3>1. PICK n : n = [wk[w] EXCEPT !.pc = "check draft", !.obs = o]
      OBVIOUS
    <3>2. wk' = [wk EXCEPT ![w] = n]
      BY <2>1, <3>1
    <3>3. n.pc = "check draft"
      BY <1>0, <3>1 DEF Local
    <3> QED BY <3>2, <3>3, <1>3
  <2> QED BY <1>4, <1>7, <2>1 DEF CheckAuthority, CheckAnswers
<1>8. CASE DraftCheck(w)
  <2>1. PICK d : d = Draft(wk[w].row, wk[w].prev, wk[w].obs, wk[w].moment)
    OBVIOUS
  <2>2. PICK n : n = [wk[w] EXCEPT !.pc = "check done", !.draft = d]
    OBVIOUS
  <2>3. wk' = [wk EXCEPT ![w] = n]
    BY <1>8, <2>1, <2>2 DEF DraftCheck
  <2>4. n.pc = "check done"
    BY <1>0, <2>2 DEF Local
  <2> QED BY <2>3, <2>4, <1>3
<1>9. CASE RefreshAuthority(w) \/ RefreshHealth(w) \/ RefreshAnswers(w)
  <2>1. ASSUME NEW st, NEW fp, Conclude(w, st, fp) PROVE NotAdmitted(v)
    <3>1. PICK n : n = [wk[w] EXCEPT !.pc = "refresh done", !.out = st, !.fp = fp]
      OBVIOUS
    <3>2. wk' = [wk EXCEPT ![w] = n]
      BY <2>1, <3>1 DEF Conclude
    <3>3. n.pc = "refresh done"
      BY <1>0, <3>1 DEF Local
    <3> QED BY <3>2, <3>3, <1>3
  <2> QED BY <1>4, <1>9, <2>1 DEF RefreshAuthority, RefreshHealth, RefreshAnswers
<1>10. CASE VerifySending(w) \/ VerifyJob(w)
  <2>1. ASSUME wk' = [wk EXCEPT ![w] = [@ EXCEPT !.pc = "mail done", !.out = "UNKNOWN"]]
        PROVE  NotAdmitted(v)
    <3>1. PICK n : n = [wk[w] EXCEPT !.pc = "mail done", !.out = "UNKNOWN"]
      OBVIOUS
    <3>2. wk' = [wk EXCEPT ![w] = n]
      BY <2>1, <3>1
    <3>3. n.pc = "mail done"
      BY <1>0, <3>1 DEF Local
    <3> QED BY <3>2, <3>3, <1>3
  <2> QED BY <1>4, <1>10, <2>1 DEF VerifySending, VerifyJob
<1>11. CASE ThreadEnds(w)
  BY <1>4, <1>11 DEF ThreadEnds
<1>12. CASE \/ EnterGate(w, "check", "check gate", "refresh")
            \/ EnterGate(w, "refresh", "refresh gate", "mail")
            \/ EnterGate(w, "mail", "mail gate", "top")
            \/ Admit(w, "check admit", "check call")
            \/ Admit(w, "refresh admit", "refresh call")
  BY <1>4, <1>12 DEF EnterGate, Admit
<1> QED BY <1>5, <1>6, <1>7, <1>8, <1>9, <1>10, <1>11, <1>12

LEMMA QuietAnswer ==
    ASSUME RunnerInv, NEW w \in Worker, NEW v \in Worker, MailAnswers(w)
    PROVE  NoGain(v) /\ NotAdmitted(v)
<1>1. NoGain(v)
  BY NoGainNothing DEF MailAnswers
<1>2. PICK o \in MailOutcome :
          wk' = [wk EXCEPT ![w] = [@ EXCEPT !.pc = AfterMail(o.answer)[1],
                                            !.out = AfterMail(o.answer)[2]]]
  BY DEF MailAnswers
<1>3. PICK pc, st : AfterMail(o.answer) = <<pc, st>> /\ pc \in {"mail back", "mail done"}
  BY MailAnswer
<1>4. <<pc, st>>[1] = pc
  OBVIOUS
<1>5. PICK to, out : to = AfterMail(o.answer)[1] /\ out = AfterMail(o.answer)[2]
  OBVIOUS
<1>6. to = pc
  <2> HIDE DEF AfterMail
  <2> QED BY <1>3, <1>4, <1>5, Zenon
<1>7. PICK n : n = [wk[w] EXCEPT !.pc = to, !.out = out]
  OBVIOUS
<1>8. wk' = [wk EXCEPT ![w] = n]
  BY <1>2, <1>5, <1>7
<1>9. n.pc = to
  BY <1>7 DEF RunnerInv, Types, LocalTypes, Local
<1>10. n.pc # "mail admitted"
  BY <1>3, <1>6, <1>9
<1> QED BY <1>1, <1>8, <1>10, ElsewhereNext

\* The locals of a worker that takes a claim.
LEMMA TakesElsewhere ==
    ASSUME RunnerInv, NEW w \in Worker, NEW v \in Worker, NEW pc, NEW r, NEW f,
           wk' = [wk EXCEPT ![w] = TakenLocal(@, pc, r, f)], pc # "mail admitted"
    PROVE  NotAdmitted(v)
<1>1. wk[w] \in Local
  BY DEF RunnerInv, Types, LocalTypes
<1>2. TakenLocal(wk[w], pc, r, f).pc = pc
  BY <1>1 DEF TakenLocal, Local
<1> QED BY <1>2, ElsewhereNext

LEMMA QuietTake ==
    ASSUME RunnerInv, NEW w \in Worker, NEW v \in Worker, wk[v].pc \notin GatePc,
           TakeCheck(w) \/ TakeRefresh(w) \/ TakeMail(w)
    PROVE  NoGain(v) /\ NotAdmitted(v)
<1>0. w # v /\ StoreTypes
  BY DEF TakeCheck, TakeRefresh, TakeMail, GatePc, RunnerInv, Types
<1>1. CASE TakeCheck(w)
  <2>1. ASSUME NEW c \in Connection, ClaimCheck(w, c),
               wk' = [wk EXCEPT ![w] = TakenLocal(@, "check claimed", c, checks[c].fence + 1)]
        PROVE  NoGain(v) /\ NotAdmitted(v)
    BY <1>0, <2>1, NoGainClaim, TakesElsewhere
  <2>2. CASE Leave(w, "refresh") /\ UNCHANGED storeVars
    BY <2>2, NoGainNothing, GoesElsewhere
  <2> QED BY <1>1, <2>1, <2>2 DEF TakeCheck, TakenLocal
<1>2. CASE TakeRefresh(w)
  <2>1. ASSUME NEW k \in RefreshKey, ClaimRefresh(w, k),
               wk' = [wk EXCEPT ![w] = TakenLocal(@, "refresh claimed", k,
                                                  refresh[k].claim.fence + 1)]
        PROVE  NoGain(v) /\ NotAdmitted(v)
    BY <1>0, <2>1, NoGainClaim, TakesElsewhere
  <2>2. CASE Leave(w, "mail") /\ UNCHANGED storeVars
    BY <2>2, NoGainNothing, GoesElsewhere
  <2> QED BY <1>2, <2>1, <2>2 DEF TakeRefresh, TakenLocal
<1>3. CASE TakeMail(w)
  <2>1. ASSUME NEW i \in Notes, ClaimMail(w, i),
               wk' = [wk EXCEPT ![w] = TakenLocal(@, "mail claimed", i,
                                                  mails[i].claim.fence + 1)]
        PROVE  NoGain(v) /\ NotAdmitted(v)
    BY <1>0, <2>1, NoGainClaim, TakesElsewhere
  <2>2. CASE ClaimNoMail /\ Leave(w, "top")
    BY <1>0, <2>2, NoGainNoMail, GoesElsewhere
  <2> QED BY <1>3, <2>1, <2>2 DEF TakeMail, TakenLocal
<1> QED BY <1>1, <1>2, <1>3

LEMMA QuietCheck ==
    ASSUME RunnerInv, NEW w \in Worker, NEW v \in Worker, GiveCheckBack(w) \/ FinishCheck(w)
    PROVE  NoGain(v) /\ NotAdmitted(v)
<1>0. StoreTypes /\ wk[w].row \in Connection /\ mails \in [Notes -> MailRow]
  BY DEF GiveCheckBack, FinishCheck, RunnerInv, Types, StoreTypes, LocalTypes, LocalOK, CheckPc
<1>1. CASE Raise(w)
  BY <1>1, RaiseElsewhere
<1>2. CASE ReleaseCheck(w, wk[w].row, wk[w].fence) /\ Leave(w, "refresh")
  BY <1>0, <1>2, NoGainCheck, GoesElsewhere DEF ReleaseCheck
<1>3. ASSUME NEW newest, NEW mailed, Leave(w, "refresh"),
             CompleteCheck(w, wk[w].row, wk[w].fence, wk[w].obs, newest, wk[w].draft,
                           mailed, wk[w].moment)
      PROVE  NoGain(v) /\ NotAdmitted(v)
  <2>1. /\ checks' = [checks EXCEPT ![wk[w].row] = Released(@)] /\ UNCHANGED refresh
        /\ Insert(wk[w].draft, wk[w].moment, mailed, mails)
    BY <1>3 DEF CompleteCheck
  <2>2. \A i \in Notes : mails'[i].claim.owner = v => mails[i].claim.owner = v
    BY <1>0, <2>1, NoGainInsert
  <2> QED BY <1>0, <1>3, <2>1, <2>2, NoGainCheck, GoesElsewhere
<1> QED BY <1>1, <1>2, <1>3 DEF GiveCheckBack, FinishCheck

LEMMA QuietRefresh ==
    ASSUME RunnerInv, NEW w \in Worker, NEW v \in Worker, GiveRefreshBack(w) \/ FinishRefresh(w)
    PROVE  NoGain(v) /\ NotAdmitted(v)
<1>0. StoreTypes /\ wk[w].row \in RefreshKey /\ mails \in [Notes -> MailRow]
  BY DEF GiveRefreshBack, FinishRefresh, RunnerInv, Types, StoreTypes, LocalTypes, LocalOK, RefreshPc
<1>1. CASE Raise(w)
  BY <1>1, RaiseElsewhere
<1>2. PICK k \in RefreshKey : k = wk[w].row
  BY <1>0
<1>3. CASE ReleaseRefresh(w, wk[w].row, wk[w].fence) /\ Leave(w, "mail")
  <2>1. /\ refresh' = [refresh EXCEPT ![k] = [st |-> "QUEUED", on |-> refresh[k].on,
                                              claim |-> Released(refresh[k].claim)]]
        /\ UNCHANGED <<checks, mails>>
    BY <1>2, <1>3 DEF ReleaseRefresh
  <2> QED BY <1>0, <1>3, <2>1, NoGainRefresh, GoesElsewhere
<1>4. ASSUME NEW mailed, Leave(w, "mail"),
             CompleteRefresh(w, wk[w].row, wk[w].fence, wk[w].out, wk[w].fp, mailed,
                             wk[w].moment)
      PROVE  NoGain(v) /\ NotAdmitted(v)
  <2>1. PICK draft : draft = IF wk[w].fp = 0 THEN NoDraft ELSE CloudChange(refresh[k].on, wk[w].fp)
    OBVIOUS
  <2>2. /\ refresh' = [refresh EXCEPT ![k] = [st |-> wk[w].out, on |-> refresh[k].on,
                                              claim |-> Released(refresh[k].claim)]]
        /\ UNCHANGED checks
        /\ Insert(draft, wk[w].moment, mailed, mails)
    BY <1>2, <1>4, <2>1 DEF CompleteRefresh
  <2>3. \A i \in Notes : mails'[i].claim.owner = v => mails[i].claim.owner = v
    BY <1>0, <2>2, NoGainInsert
  <2> QED BY <1>0, <1>4, <2>2, <2>3, NoGainRefresh, GoesElsewhere
<1> QED BY <1>1, <1>3, <1>4 DEF GiveRefreshBack, FinishRefresh

LEMMA QuietMail ==
    ASSUME RunnerInv, NEW w \in Worker, NEW v \in Worker,
           \/ MailAuthority(w) \/ StartSending(w) \/ SendingStopped(w)
           \/ ReturnMail(w) \/ FinishSending(w)
    PROVE  NoGain(v) /\ NotAdmitted(v)
<1>0. StoreTypes /\ wk[w].row \in Notes
  BY DEF MailAuthority, StartSending, SendingStopped, ReturnMail, FinishSending,
         RunnerInv, Types, LocalTypes, LocalOK, MailPc
<1>1. CASE Raise(w)
  BY <1>1, RaiseElsewhere
<1>2. ASSUME NEW st, ReleaseMail(wk[w].row, st, wk[w].fence), Leave(w, "top")
      PROVE  NoGain(v) /\ NotAdmitted(v)
  BY <1>0, <1>2, NoGainReleaseMail, GoesElsewhere
<1>3. CASE MarkSending(wk[w].row, wk[w].fence) /\ Goto(w, "mail sending")
  BY <1>0, <1>3, NoGainReleaseMail, GoesElsewhere
<1>4. CASE UNCHANGED storeVars /\ (Goto(w, "mail granted") \/ Leave(w, "top"))
  BY <1>4, NoGainNothing, GoesElsewhere
<1>5. CASE FinishSending(w)
  <2>1. wk[w].out \in MailTerminal
    BY <1>5 DEF FinishSending, RunnerInv, Types, LocalTypes, LocalOK
  <2>2. CASE /\ FinishMail(wk[w].row, wk[w].fence, wk[w].out, wk[w].moment)
             /\ Leave(w, "top")
    BY <1>0, <2>1, <2>2, NoGainFinishMail, GoesElsewhere
  <2> QED BY <1>1, <1>5, <2>2 DEF FinishSending
<1> QED BY <1>1, <1>2, <1>3, <1>4, <1>5
        DEF MailAuthority, StartSending, SendingStopped, ReturnMail, GiveMailBack

LEMMA QuietElse ==
    ASSUME RunnerInv, NEW v \in Worker,
           \/ \E w \in Worker : HostStep(w) \/ BeginDrain(w) \/ Restart(w)
           \/ \E k \in RefreshKey : AskRefresh(k) \/ QueueRefresh(k)
           \/ UserActs \/ Tick \/ LeaseOver \/ UNCHANGED vars
    PROVE  NoGain(v) /\ NotAdmitted(v)
<1>0. StoreTypes
  BY DEF RunnerInv, Types
<1>1. CASE UNCHANGED <<storeVars, wk>>
  BY <1>1, NoGainNothing DEF NotAdmitted
<1>2. ASSUME NEW w \in Worker, Restart(w) PROVE NoGain(v) /\ NotAdmitted(v)
  <2>1. NoGain(v)
    <3>1. Keeps(v)
      BY <1>0, <1>2, OwnerGone DEF Restart
    <3> QED BY <3>1 DEF Keeps, NoGain
  <2>2. Idle("top", clock).pc = "top" /\ wk' = [wk EXCEPT ![w] = Idle("top", clock)]
    BY <1>2 DEF Restart, Idle
  <2> QED BY <2>1, <2>2, ElsewhereNext
<1>3. ASSUME NEW k \in RefreshKey, QueueRefresh(k) PROVE NoGain(v) /\ NotAdmitted(v)
  <2>1. /\ refresh' = [refresh EXCEPT ![k].st = IF @ = "ABSENT" THEN "QUEUED" ELSE @]
        /\ UNCHANGED <<checks, mails, wk>>
    BY <1>3 DEF QueueRefresh, EnqueueCloudRefresh
  <2>2. \A d \in RefreshKey : refresh'[d].claim = refresh[d].claim
    BY <1>0, <2>1 DEF StoreTypes, RefreshRow
  <2> QED BY <2>1, <2>2 DEF NoGain, NotAdmitted
<1>4. CASE UserActs
  <2>1. ASSUME NEW i \in Notes, AcknowledgeNotification(i) PROVE NoGain(v)
    BY <2>1 DEF AcknowledgeNotification, NoGain
  <2>2. ASSUME NEW m \in Notes, RequestDelivery(m) PROVE NoGain(v)
    <3>1. PICK q : q = IF mails[m].st = "NONE" THEN NewMail ELSE mails[m]
      OBVIOUS
    <3>2. mails' = [mails EXCEPT ![m] = q] /\ UNCHANGED <<checks, refresh>>
      BY <2>2, <3>1 DEF RequestDelivery
    <3>3. \A i \in Notes : mails'[i] = mails[i] \/ mails'[i] = NewMail
      BY <1>0, <3>1, <3>2 DEF StoreTypes
    <3> QED BY <3>2, <3>3, NewMailFacts, AuthorizationAssumption DEF NoGain
  <2>3. NotAdmitted(v)
    BY <1>4 DEF UserActs, NotAdmitted
  <2> QED BY <1>4, <2>1, <2>2, <2>3 DEF UserActs
<1>5. CASE LeaseOver
  <2>1. \A cl \in Claim : [cl EXCEPT !.live = FALSE].owner = cl.owner
    BY DEF Claim
  <2>2. ASSUME NEW c \in Connection, checks' = [checks EXCEPT ![c].live = FALSE],
               UNCHANGED <<refresh, mails>>
        PROVE  NoGain(v)
    <3>1. \A d \in Connection : checks'[d].owner = checks[d].owner
      BY <1>0, <2>1, <2>2 DEF StoreTypes
    <3> QED BY <2>2, <3>1 DEF NoGain
  <2>3. ASSUME NEW k \in RefreshKey, refresh' = [refresh EXCEPT ![k].claim.live = FALSE],
               UNCHANGED <<checks, mails>>
        PROVE  NoGain(v)
    <3>1. \A d \in RefreshKey : refresh'[d].claim.owner = refresh[d].claim.owner
      BY <1>0, <2>1, <2>3 DEF StoreTypes, RefreshRow
    <3> QED BY <2>3, <3>1 DEF NoGain
  <2>4. ASSUME NEW m \in Notes, mails' = [mails EXCEPT ![m].claim.live = FALSE],
               UNCHANGED <<checks, refresh>>
        PROVE  NoGain(v)
    <3>1. \A i \in Notes : mails'[i].claim.owner = mails[i].claim.owner
      BY <1>0, <2>1, <2>4 DEF StoreTypes, MailRow
    <3> QED BY <2>4, <3>1 DEF NoGain
  <2>5. NoGain(v)
    BY <1>5, <2>2, <2>3, <2>4 DEF LeaseOver, LeasePasses
  <2>6. NotAdmitted(v)
    BY <1>5 DEF LeaseOver, NotAdmitted
  <2> QED BY <2>5, <2>6
<1>6. CASE \/ \E w \in Worker : HostStep(w) \/ BeginDrain(w)
           \/ \E k \in RefreshKey : AskRefresh(k)
           \/ Tick \/ UNCHANGED vars
  <2>1. UNCHANGED <<storeVars, wk>>
    BY <1>6 DEF HostStep, DrainReturns, Join, BeginDrain, AskRefresh, Tick, vars
  <2> QED BY <1>1, <2>1
<1> QED BY <1>2, <1>3, <1>4, <1>5, <1>6

LEMMA DrainedStaysQuiet ==
    ASSUME RunnerInv, [Next]_vars, NEW v \in Worker, host[v].drained
    PROVE  NoGain(v) /\ NotAdmitted(v)
<1>1. Draining(v) /\ wk[v].pc \notin GatePc
  BY DEF RunnerInv, Drained, Draining
<1>2. ASSUME NEW w \in Worker, WorkerStep(w) PROVE NoGain(v) /\ NotAdmitted(v)
  <2>1. CASE Admit(w, "mail sending", "mail admitted")
    <3>1. UNCHANGED storeVars /\ w # v /\ Goto(w, "mail admitted")
      BY <1>1, <2>1 DEF Admit
    <3>2. wk'[v] = wk[v]
      BY <3>1 DEF Goto, RunnerInv, Types, LocalTypes
    <3> QED BY <3>1, <3>2, NoGainNothing DEF NotAdmitted
  <2>2. CASE CheckStep(w)
    BY <1>1, <2>2, QuietLocally, QuietTake, QuietCheck DEF CheckStep
  <2>3. CASE RefreshStep(w)
    BY <1>1, <2>3, QuietLocally, QuietTake, QuietRefresh DEF RefreshStep
  <2>4. CASE MailStep(w)
    BY <1>1, <2>1, <2>4, QuietLocally, QuietTake, QuietAnswer, QuietMail DEF MailStep
  <2> QED BY <1>2, <2>2, <2>3, <2>4, QuietLocally DEF WorkerStep
<1> QED BY <1>2, QuietElse DEF Next

\* begin_drain: a worker that was drained takes no claim and admits no
\* provider call, whatever else happens.
THEOREM RunnerQuietAfterDrain == Spec => QuietAfterDrain
<1>1. RunnerInv /\ [Next]_vars =>
        [\A w \in Worker : host[w].drained /\ host'[w].drained =>
            /\ \A c \in Connection : checks'[c].owner = w => checks[c].owner = w
            /\ \A k \in RefreshKey : refresh'[k].claim.owner = w => refresh[k].claim.owner = w
            /\ \A i \in Notes : mails'[i].claim.owner = w => mails[i].claim.owner = w
            /\ wk'[w].pc = "mail admitted" => wk[w].pc = "mail admitted"]_vars
  BY DrainedStaysQuiet DEF NoGain, NotAdmitted
<1> QED BY <1>1, RunnerInvariant, PTL DEF Spec, QuietAfterDrain
=============================================================================
