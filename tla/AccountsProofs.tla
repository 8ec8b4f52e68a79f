--------------------------- MODULE AccountsProofs ---------------------------
(***************************************************************************)
(* Proofs about the parts that work on provider accounts, each for every   *)
(* set of actors, profiles, sessions, processes and keys: renewal          *)
(* sessions, health checks, connector calls, linking and connections.      *)
(***************************************************************************)
EXTENDS AccountRenewal, ProviderHealth, ConnectorCall, AccountLinks, IntegrationConnections,
        FiniteSetTheorems, TLAPS

-----------------------------------------------------------------------------
(* Renewal sessions.                                                        *)

Final == {"succeeded", "failed", "expired", "cancelled"}

\* A request being handled, by its program counter.
RenewalOp ==
    {Idle} \cup [pc : {"start", "deny", "lost"}, s : Session]
           \cup [pc : {"started", "polled"}, s : Session, ref : ProviderRef, state : RenewalState]
           \cup [pc : {"poll", "blind"}, s : Session, seen : Document]

RenewalTypes ==
    /\ stored \in [Session -> Document \cup {Nothing}]
    /\ vendor \in [Session -> SUBSET ProviderRef]
    /\ shown \in [ProviderRef -> SUBSET VendorState]
    /\ granted \in BOOLEAN
    /\ bound \in BOOLEAN
    /\ op \in [Process -> RenewalOp]

\* The vendor knows a Product session by its own reference only.
OneRequestId == \A s \in Session : vendor[s] \subseteq {<<s, "same">>}

\* A provider session ends once, and never names a state it does not have.
EndsOnce ==
    \A x \in ProviderRef :
        /\ "unknown" \notin shown[x]
        /\ \A v, w \in shown[x] \cap Final : v = w

\* What a vendor answer says of a provider session that is over.
Told(x, state) == state \notin Open => \E v \in shown[x] \cap Final : ToRenewalState(v) = state

\* A stored session that is bound names a provider session that was started,
\* and what it says of its end is true.
StoredIsTold ==
    \A s \in Session : stored[s] # Nothing /\ stored[s].ref # Nothing =>
        stored[s].ref \in vendor[s] /\ Told(stored[s].ref, stored[s].state)

\* The same of an answer on its way; a poll has read an open session.
RequestTold(o) ==
    /\ stored[o.s] # Nothing
    /\ o.pc \in {"started", "polled"} => o.ref \in vendor[o.s] /\ Told(o.ref, o.state)
    /\ o.pc \in {"poll", "blind"} => o.seen.state \in Open /\ o.seen.ref \in vendor[o.s] \cup {Nothing}
OpIsTold == \A p \in Process : op[p] # Idle => RequestTold(op[p])

RenewalInv == RenewalTypes /\ OneRequestId /\ EndsOnce /\ StoredIsTold /\ OpIsTold

\* A provider session is over when it has shown a final state, and then that
\* is its latest; the Product's closed states are the images of those.
LEMMA LatestState ==
    ASSUME RenewalTypes, EndsOnce, NEW x \in ProviderRef
    PROVE  /\ Now(x) \in VendorState \ {"unknown"}
           /\ Now(x) \in Final <=> shown[x] \cap Final # {}
           /\ Told(x, ToRenewalState(Now(x)))
           /\ \A state : Told(x, state) /\ state \notin Open => ToRenewalState(Now(x)) = state
  <1> DEFINE F == shown[x] \ {"starting", "waiting_user", "unknown"}
  <1>1. F = shown[x] \cap Final
    BY DEF RenewalTypes, VendorState, Final
  <1>2. F # {} => (CHOOSE v \in F : TRUE) \in F
    OBVIOUS
  <1>3. /\ F # {} => Now(x) \in F
        /\ F = {} => Now(x) \in {"waiting_user", "starting"}
    BY <1>2 DEF Now
  <1>4. \A v \in VendorState \ {"unknown"} : ToRenewalState(v) \notin Open <=> v \in Final
    BY DEF ToRenewalState, Open, Final, VendorState
  <1>5. Now(x) \in VendorState \ {"unknown"}
    BY <1>1, <1>3 DEF VendorState, Final
  <1>6. Now(x) \in Final <=> shown[x] \cap Final # {}
    BY <1>1, <1>3 DEF Final
  <1>7. Told(x, ToRenewalState(Now(x)))
    BY <1>1, <1>3, <1>4, <1>5, <1>6 DEF Told
  <1>8. ASSUME NEW state, Told(x, state), state \notin Open
        PROVE  ToRenewalState(Now(x)) = state
    BY <1>1, <1>3, <1>6, <1>8 DEF Told, EndsOnce
  <1> QED
    BY <1>5, <1>6, <1>7, <1>8

\* The Product has a state for every state of a vendor.
LEMMA RenewalStates == \A v : ToRenewalState(v) \in RenewalState
  BY DEF ToRenewalState, RenewalState

\* The fields of a request, by its program counter.
LEMMA OpFields ==
    ASSUME RenewalTypes, NEW p \in Process
    PROVE  /\ op[p] # Idle <=> op[p].pc # "idle"
           /\ op[p] # Idle => op[p].s \in Session
           /\ op[p].pc \in {"started", "polled"} => op[p].ref \in ProviderRef /\ op[p].state \in RenewalState
           /\ op[p].pc \in {"poll", "blind"} => op[p].seen \in Document
           /\ op[p].pc \in {"poll", "blind"} => op[p] \in [pc : {"poll", "blind"}, s : Session, seen : Document]
  <1>1. op[p] \in RenewalOp
    BY DEF RenewalTypes
  <1> QED
    BY <1>1 DEF RenewalOp, Idle

LEMMA RenewalInitial == RenewalInit => RenewalInv
  BY DEF RenewalInit, RenewalInv, RenewalTypes, RenewalOp, OneRequestId, EndsOnce,
         StoredIsTold, OpIsTold

\* The vendor's own moves.
LEMMA VendorMovesInv ==
    ASSUME RenewalInv, NEW x \in ProviderRef, NEW to \in VendorState, VendorMoves(x, to)
    PROVE  RenewalInv'
  <1> USE DEF RenewalInv
  <1>1. RenewalTypes'
    BY DEF RenewalTypes, VendorMoves
  <1>2. OneRequestId'
    BY DEF OneRequestId, VendorMoves
  <1>3. Now(x) \notin Final /\ to # "unknown"
    BY DEF VendorMoves, Final
  <1>4. shown[x] \cap Final = {}
    BY <1>3, LatestState
  <1>5. EndsOnce'
    BY <1>3, <1>4 DEF EndsOnce, VendorMoves, RenewalTypes
  <1>6. ASSUME NEW y \in ProviderRef, NEW state, Told(y, state)
        PROVE  Told(y, state)'
    BY <1>6 DEF Told, VendorMoves, RenewalTypes
  <1>7. StoredIsTold'
    BY <1>6 DEF StoredIsTold, VendorMoves, RenewalTypes
  <1>8. OpIsTold'
    BY <1>6, OpFields DEF OpIsTold, RequestTold, VendorMoves, RenewalTypes
  <1> QED
    BY <1>1, <1>2, <1>5, <1>7, <1>8

\* A start reaches the vendor, or is refused or lost on its way.
LEMMA StartRenewalInv ==
    ASSUME RenewalInv, NEW p \in Process, StartRenewal(p)
    PROVE  RenewalInv'
  <1> USE DEF RenewalInv
  <1> DEFINE s == op[p].s
             x == StartRequest(p)
             new == IF x \in vendor[s] THEN Now(x) ELSE "starting"
  <1>1. op[p].pc = "start" /\ s \in Session /\ x = <<s, "same">> /\ x \in ProviderRef /\ stored[s] # Nothing
    BY OpFields DEF StartRenewal, StartRequest, ProviderRef, OpIsTold, RequestTold
  <1>2. UNCHANGED <<stored, granted, bound>>
    BY DEF StartRenewal
  <1>3. \/ /\ UNCHANGED <<vendor, shown>>
           /\ \E pc \in {"deny", "lost"} : op' = [op EXCEPT ![p] = [pc |-> pc, s |-> s]]
        \/ /\ vendor' = [vendor EXCEPT ![s] = @ \cup {x}]
           /\ shown' = IF x \in vendor[s] THEN shown ELSE [shown EXCEPT ![x] = {"starting"}]
           /\ \/ op' = [op EXCEPT ![p] = [pc |-> "lost", s |-> s]]
              \/ op' = [op EXCEPT ![p] = [pc |-> "started", s |-> s, ref |-> x, state |-> ToRenewalState(new)]]
    BY DEF StartRenewal
  <1>4. /\ vendor' \in [Session -> SUBSET ProviderRef]
        /\ \A q \in Session : vendor[q] \subseteq vendor'[q] /\ vendor'[q] \subseteq {<<q, "same">>}
    BY <1>1, <1>3 DEF RenewalTypes, OneRequestId
  <1>5. shown' \in [ProviderRef -> SUBSET VendorState] /\ EndsOnce'
    BY <1>1, <1>3 DEF RenewalTypes, EndsOnce, VendorState, Final
  <1>6. RenewalTypes'
    <2>1. op' \in [Process -> RenewalOp]
      BY <1>1, <1>3, RenewalStates DEF RenewalTypes, RenewalOp
    <2> QED
      BY <1>2, <1>4, <1>5, <2>1 DEF RenewalTypes
  <1>7. ASSUME NEW q \in Session, NEW y \in vendor[q], NEW state, Told(y, state)
        PROVE  Told(y, state)'
    <2>1. y = <<q, "same">> /\ y \in ProviderRef
      BY <1>7 DEF OneRequestId, RenewalTypes
    <2>2. shown'[y] = shown[y]
      BY <1>1, <1>3, <1>7, <2>1 DEF RenewalTypes
    <2> QED
      BY <1>7, <2>1, <2>2 DEF Told
  <1>8. OneRequestId'
    BY <1>4 DEF OneRequestId
  <1>9. StoredIsTold'
    BY <1>2, <1>4, <1>7 DEF StoredIsTold
  <1>10. ASSUME NEW r \in Process, r # p, op'[r] # Idle
         PROVE  RequestTold(op[r])'
    <2>1. op'[r] = op[r] /\ op[r].s \in Session /\ RequestTold(op[r])
      BY <1>3, <1>10, OpFields DEF OpIsTold, RenewalTypes
    <2> QED
      BY <1>2, <1>4, <1>7, <2>1 DEF RequestTold
  <1>11. RequestTold(op[p])'
    <2>1. CASE op'[p].pc # "started"
      BY <1>1, <1>2, <1>3, <2>1 DEF RequestTold, RenewalTypes
    <2>2. CASE op'[p].pc = "started"
      <3>0. PICK y, state : y = x /\ state = ToRenewalState(new)
        OBVIOUS
      <3>1. op'[p] = [pc |-> "started", s |-> s, ref |-> y, state |-> state] /\ y \in vendor'[s]
        BY <1>1, <1>3, <2>2, <3>0 DEF RenewalTypes
      <3>2. CASE x \in vendor[s]
        <4>1. Told(y, state)
          BY <1>1, <3>0, <3>2, LatestState
        <4>2. Told(y, state)'
          BY <1>1, <1>7, <3>0, <3>2, <4>1
        <4> QED
          BY <1>1, <1>2, <3>1, <4>2 DEF RequestTold
      <3>3. CASE x \notin vendor[s]
        <4>1. state \in Open
          BY <3>0, <3>3 DEF ToRenewalState, Open
        <4> QED
          BY <1>1, <1>2, <3>1, <4>1 DEF RequestTold, Told
      <3> QED
        BY <3>2, <3>3
    <2> QED
      BY <2>1, <2>2
  <1> QED
    BY <1>5, <1>6, <1>8, <1>9, <1>10, <1>11 DEF OpIsTold

\* The steps that leave the vendor alone: what they store, and what they
\* leave in the process, must be told.
LEMMA HandlerInv ==
    ASSUME RenewalInv, UNCHANGED <<vendor, shown, granted>>,
           NEW p \in Process, NEW o \in RenewalOp, op' = [op EXCEPT ![p] = o],
           NEW s \in Session, NEW d \in Document \cup {Nothing}, stored' = [stored EXCEPT ![s] = d],
           bound' \in BOOLEAN,
           stored[s] # Nothing => d # Nothing,
           d # Nothing /\ d.ref # Nothing => d.ref \in vendor[s] /\ Told(d.ref, d.state),
           o # Idle => RequestTold(o)'
    PROVE  RenewalInv'
  <1> USE DEF RenewalInv
  <1>1. RenewalTypes' /\ OneRequestId' /\ EndsOnce'
    BY DEF RenewalTypes, OneRequestId, EndsOnce
  <1>2. StoredIsTold'
    BY DEF StoredIsTold, Told, RenewalTypes
  <1>3. ASSUME NEW r \in Process, r # p, op'[r] # Idle
        PROVE  RequestTold(op[r])'
    <2>1. op'[r] = op[r] /\ op[r].s \in Session /\ RequestTold(op[r])
      BY <1>3, OpFields DEF OpIsTold, RenewalTypes
    <2> QED
      BY <2>1 DEF RequestTold, Told, RenewalTypes
  <1>4. op'[p] = o
    BY DEF RenewalTypes
  <1> QED
    BY <1>1, <1>2, <1>3, <1>4 DEF OpIsTold

\* POST: the intent is stored, or found.
LEMMA BeginSessionInv ==
    ASSUME RenewalInv, NEW p \in Process, NEW s \in Session, BeginSession(p, s)
    PROVE  RenewalInv'
  <1> USE DEF RenewalInv
  <1> DEFINE begun == [pc |-> "start", s |-> s]
  <1>1. Idle \in RenewalOp /\ begun \in RenewalOp /\ Intent \in Document
    BY DEF RenewalOp, Intent, Document, RenewalState, Reason
  <1>2. CASE stored[s] = Nothing
    <2>1. stored' = [stored EXCEPT ![s] = Intent] /\ op' = [op EXCEPT ![p] = begun]
      BY <1>2 DEF BeginSession, Put
    <2>2. RequestTold(begun)'
      BY <1>1, <2>1, RenewalAssumption DEF RequestTold, RenewalTypes
    <2> QED
      BY <1>1, <2>1, <2>2, HandlerInv, RenewalAssumption DEF BeginSession, Intent, RenewalTypes
  <1>3. CASE stored[s] # Nothing
    <2>1. PICK o \in {begun, Idle} : op' = [op EXCEPT ![p] = o]
      BY <1>3 DEF BeginSession
    <2>2. stored' = [stored EXCEPT ![s] = stored[s]]
      BY <1>3 DEF BeginSession, RenewalTypes
    <2>3. o # Idle => RequestTold(o)'
      BY <1>3, <2>1, <2>2 DEF RequestTold, RenewalTypes
    <2> QED
      BY <1>1, <1>3, <2>1, <2>2, <2>3, HandlerInv DEF BeginSession, RenewalTypes, StoredIsTold
  <1> QED
    BY <1>2, <1>3

\* The handlers that end a request: an unbound session's document changes
\* without a word about the vendor, a bound one takes what was told.
LEMMA AnsweredInv ==
    ASSUME RenewalInv, NEW p \in Process, UNCHANGED <<vendor, shown, granted, bound>>,
           op[p] # Idle, op' = [op EXCEPT ![p] = Idle],
           NEW d \in Document, stored' = [stored EXCEPT ![op[p].s] = d],
           d.ref # Nothing => d.ref \in vendor[op[p].s] /\ Told(d.ref, d.state)
    PROVE  RenewalInv'
  <1>1. Idle \in RenewalOp /\ op[p].s \in Session /\ bound \in BOOLEAN
    BY OpFields DEF RenewalOp, RenewalInv, RenewalTypes
  <1> QED
    BY <1>1, HandlerInv, RenewalAssumption

LEMMA StartHandlersInv ==
    ASSUME RenewalInv, NEW p \in Process,
           NoBinding(p) \/ StartAnswered(p) \/ StartDenied(p) \/ StartLost(p)
    PROVE  RenewalInv'
  <1> USE DEF RenewalInv
  <1> DEFINE s == op[p].s
  <1>1. op[p] # Idle /\ s \in Session /\ op' = [op EXCEPT ![p] = Idle] /\ UNCHANGED <<vendor, shown, granted, bound>>
    BY OpFields DEF NoBinding, StartAnswered, StartDenied, StartLost
  <1>2. stored[s] \in Document /\ RequestTold(op[p])
    BY <1>1 DEF OpIsTold, RequestTold, RenewalTypes
  <1>3. stored[s].ref # Nothing => stored[s].ref \in vendor[s] /\ Told(stored[s].ref, stored[s].state)
    BY <1>1, <1>2, RenewalAssumption DEF StoredIsTold
  <1>4. ASSUME NEW reason \in Reason, MarkStartUnknown(s, reason)
        PROVE  RenewalInv'
    <2> DEFINE d == IF stored[s].ref # Nothing THEN stored[s] ELSE [stored[s] EXCEPT !.reason = reason]
    <2>1. d \in Document /\ (d.ref # Nothing => d = stored[s])
      BY <1>2 DEF Document
    <2> QED
      BY <1>1, <1>3, <1>4, <2>1, AnsweredInv DEF MarkStartUnknown, Put
  <1>5. CASE NoBinding(p)
    BY <1>4, <1>5 DEF NoBinding, Reason
  <1>6. CASE StartLost(p)
    BY <1>4, <1>6 DEF StartLost, Reason
  <1>7. CASE StartDenied(p)
    <2> DEFINE d == IF stored[s].ref # Nothing \/ stored[s].state = "FAILED" THEN stored[s]
                    ELSE [stored[s] EXCEPT !.state = "FAILED", !.reason = "start_rejected"]
    <2>1. d \in Document /\ (d.ref # Nothing => d = stored[s])
      BY <1>2 DEF Document, RenewalState, Reason
    <2> QED
      BY <1>1, <1>3, <1>7, <2>1, AnsweredInv DEF StartDenied, FailStart, Put
  <1>8. CASE StartAnswered(p)
    <2> DEFINE d == [state |-> op[p].state, ref |-> op[p].ref, reason |-> "none"]
    <2>1. op[p].ref \in ProviderRef /\ op[p].state \in RenewalState
      BY <1>8, OpFields DEF StartAnswered
    <2>2. op[p].ref \in vendor[s] /\ Told(op[p].ref, op[p].state)
      BY <1>2, <1>8 DEF StartAnswered, RequestTold
    <2>3. d \in Document
      BY <2>1 DEF Document, Reason
    <2> QED
      BY <1>1, <1>8, <2>2, <2>3, AnsweredInv DEF StartAnswered, CompleteStart, Put
  <1> QED
    BY <1>5, <1>6, <1>7, <1>8

\* GET: the stored session is read, the vendor asked, the answer stored.
LEMMA PollInv ==
    ASSUME RenewalInv, NEW p \in Process,
           (\E s \in Session : GetSession(p, s)) \/ PollStatus(p)
    PROVE  RenewalInv'
  <1> USE DEF RenewalInv
  <1>1. CASE \E s \in Session : GetSession(p, s)
    <2>1. PICK s \in Session : GetSession(p, s)
      BY <1>1
    <2> DEFINE o == [pc |-> "poll", s |-> s, seen |-> stored[s]]
    <2>2. stored[s] \in Document /\ stored[s].state \in Open /\ stored[s] # Nothing
      BY <2>1 DEF GetSession, Pollable, RenewalTypes
    <2>3. stored[s].ref \in vendor[s] \cup {Nothing}
      BY <2>2 DEF StoredIsTold
    <2>4. PICK c : c = o
      OBVIOUS
    <2>5. c \in RenewalOp /\ RequestTold(c)'
      BY <2>1, <2>2, <2>3, <2>4 DEF RenewalOp, RequestTold, GetSession
    <2>6. stored' = [stored EXCEPT ![s] = stored[s]]
      BY <2>1 DEF GetSession, RenewalTypes
    <2> QED
      BY <2>1, <2>2, <2>4, <2>5, <2>6, HandlerInv DEF GetSession, RenewalTypes, StoredIsTold
  <1>2. CASE PollStatus(p)
    <2>1. op[p].pc = "poll" /\ op[p] # Idle /\ op[p].s \in Session /\ UNCHANGED <<stored, vendor, shown, granted, bound>>
      BY <1>2, OpFields DEF PollStatus
    <2>2. RequestTold(op[p]) /\ stored[op[p].s] # Nothing /\ stored[op[p].s] \in Document
      BY <2>1 DEF OpIsTold, RequestTold, RenewalTypes
    <2>3. \E o \in RenewalOp : op' = [op EXCEPT ![p] = o] /\ RequestTold(o)'
      <3>1. CASE op' = [op EXCEPT ![p].pc = "blind"]
        <4>1. PICK o : o = [op[p] EXCEPT !.pc = "blind"]
          OBVIOUS
        <4>2. o \in [pc : {"poll", "blind"}, s : Session, seen : Document] /\ o.s = op[p].s /\ o.seen = op[p].seen
          BY <2>1, <4>1, OpFields
        <4>3. RequestTold(o)'
          BY <2>1, <2>2, <4>2 DEF RequestTold
        <4> QED
          BY <3>1, <4>1, <4>2, <4>3 DEF RenewalOp, RenewalTypes
      <3>2. CASE op' # [op EXCEPT ![p].pc = "blind"]
        <4>1. PICK v \in {Now(Polled(p)), "unknown"} :
                /\ Polled(p) \in vendor[op[p].s]
                /\ op' = [op EXCEPT ![p] = [pc |-> "polled", s |-> op[p].s, ref |-> Polled(p),
                                            state |-> ToRenewalState(v)]]
          BY <1>2, <3>2 DEF PollStatus
        <4>2. PICK x, state, o : /\ x = Polled(p) /\ state = ToRenewalState(v)
                                 /\ o = [pc |-> "polled", s |-> op[p].s, ref |-> x, state |-> state]
          OBVIOUS
        <4>3. x \in ProviderRef /\ state \in RenewalState /\ o \in RenewalOp
          BY <2>1, <4>1, <4>2, RenewalStates DEF RenewalTypes, RenewalOp
        <4>4. Told(x, state)
          <5>1. CASE v = "unknown"
            BY <4>2, <5>1 DEF Told, ToRenewalState, Open
          <5>2. CASE v = Now(x)
            BY <4>2, <4>3, <5>2, LatestState
          <5> QED
            BY <4>1, <4>2, <5>1, <5>2
        <4>5. RequestTold(o)'
          BY <2>1, <2>2, <4>1, <4>2, <4>4 DEF RequestTold, Told
        <4> QED
          BY <4>1, <4>2, <4>3, <4>5
      <3> QED
        BY <3>1, <3>2
    <2>4. stored' = [stored EXCEPT ![op[p].s] = stored[op[p].s]]
      BY <2>1 DEF RenewalTypes
    <2> QED
      BY <2>1, <2>2, <2>3, <2>4, HandlerInv DEF RenewalTypes, StoredIsTold
  <1> QED
    BY <1>1, <1>2

LEMMA PollHandlersInv ==
    ASSUME RenewalInv, NEW p \in Process, PollAnswered(p) \/ PollFailed(p)
    PROVE  RenewalInv'
  <1> USE DEF RenewalInv
  <1> DEFINE s == op[p].s
  <1>1. op[p] # Idle /\ s \in Session /\ op' = [op EXCEPT ![p] = Idle] /\ UNCHANGED <<vendor, shown, granted, bound>>
    BY OpFields DEF PollAnswered, PollFailed
  <1>2. stored[s] \in Document /\ RequestTold(op[p])
    BY <1>1 DEF OpIsTold, RequestTold, RenewalTypes
  <1>3. stored[s].ref # Nothing => stored[s].ref \in vendor[s] /\ Told(stored[s].ref, stored[s].state)
    BY <1>1, <1>2, RenewalAssumption DEF StoredIsTold
  <1>4. CASE PollAnswered(p)
    <2> DEFINE d == [state |-> op[p].state, ref |-> op[p].ref, reason |-> "none"]
    <2>1. op[p].ref \in ProviderRef /\ op[p].state \in RenewalState
      BY <1>4, OpFields DEF PollAnswered
    <2>2. op[p].ref \in vendor[s] /\ Told(op[p].ref, op[p].state)
      BY <1>2, <1>4 DEF PollAnswered, RequestTold
    <2>3. d \in Document
      BY <2>1 DEF Document, Reason
    <2>4. stored' = [stored EXCEPT ![s] = d]
      BY <1>4, <2>1, RenewalAssumption DEF PollAnswered, UpdateStatus, Put
    <2> QED
      BY <1>1, <2>2, <2>3, <2>4, AnsweredInv
  <1>5. CASE PollFailed(p) /\ op[p].seen.ref = Nothing
    <2> DEFINE d == [stored[s] EXCEPT !.reason = "status_lookup_unavailable"]
    <2>1. d \in Document /\ d.ref = stored[s].ref /\ d.state = stored[s].state
      BY <1>2 DEF Document, Reason
    <2> QED
      BY <1>1, <1>3, <1>5, <2>1, AnsweredInv DEF PollFailed, MarkStatusUnavailable, Put
  <1>6. CASE PollFailed(p) /\ op[p].seen.ref # Nothing
    <2> DEFINE d == [state |-> op[p].seen.state, ref |-> stored[s].ref, reason |-> "status_unavailable"]
    <2>1. op[p].seen \in Document /\ op[p].seen.state \in Open
      BY <1>2, <1>6, OpFields DEF PollFailed, RequestTold
    <2>2. d \in Document /\ Told(d.ref, d.state)
      BY <1>2, <2>1 DEF Document, Reason, Told
    <2>3. stored' = [stored EXCEPT ![s] = d]
      BY <1>6 DEF PollFailed, UpdateStatus, Put
    <2> QED
      BY <1>1, <1>3, <2>2, <2>3, AnsweredInv
  <1> QED
    BY <1>4, <1>5, <1>6

\* The steps around the handlers.
LEMMA AroundInv ==
    ASSUME RenewalInv,
           (\E p \in Process : ProcessDies(p)) \/ GrantChanges \/ BindingChanges \/ UNCHANGED renewalVars
    PROVE  RenewalInv'
  <1> USE DEF RenewalInv
  <1>1. UNCHANGED <<stored, vendor, shown>> /\ granted' \in BOOLEAN /\ bound' \in BOOLEAN
    BY DEF ProcessDies, GrantChanges, BindingChanges, renewalVars, RenewalTypes
  <1>2. op' \in [Process -> RenewalOp] /\ \A r \in Process : op'[r] # Idle => op'[r] = op[r]
    BY DEF ProcessDies, GrantChanges, BindingChanges, renewalVars, RenewalTypes, RenewalOp
  <1>3. OpIsTold'
    BY <1>1, <1>2 DEF OpIsTold, RequestTold, Told
  <1> QED
    BY <1>1, <1>2, <1>3 DEF RenewalTypes, OneRequestId, EndsOnce, StoredIsTold, Told

\* What holds of renewal sessions: the vendor is asked for one provider session
\* by one request id, and a stored or answered end is one the vendor has shown
\* (RenewalInv, for api.py's start and status handlers in any number of
\* processes).
THEOREM RenewalInvariant == RenewalSpec => []RenewalInv
  <1>1. RenewalInv /\ [RenewalNext]_renewalVars => RenewalInv'
    <2> SUFFICES ASSUME RenewalInv, [RenewalNext]_renewalVars
                 PROVE  RenewalInv'
      OBVIOUS
    <2>1. CASE \E p \in Process, s \in Session : BeginSession(p, s) \/ GetSession(p, s)
      BY <2>1, BeginSessionInv, PollInv
    <2>2. CASE \E p \in Process : Renew(p)
      BY <2>2, StartRenewalInv, StartHandlersInv, PollInv, PollHandlersInv DEF Renew
    <2>3. CASE \E x \in ProviderRef, v \in VendorState : VendorMoves(x, v)
      BY <2>3, VendorMovesInv
    <2>4. CASE (\E p \in Process : ProcessDies(p)) \/ GrantChanges \/ BindingChanges \/ UNCHANGED renewalVars
      BY <2>4, AroundInv
    <2> QED
      BY <2>1, <2>2, <2>3, <2>4 DEF RenewalNext
  <1> QED
    BY <1>1, RenewalInitial, PTL DEF RenewalSpec

\* However often a start is repeated, after lost answers, crashes or beside
\* another process, the vendor has at most one session for a Product session.
THEOREM RenewalHasOneProviderSession == RenewalSpec => []OneProviderSession
  <1>1. RenewalInv => OneProviderSession
    <2> SUFFICES ASSUME RenewalInv, NEW s \in Session
                 PROVE  Cardinality(vendor[s]) <= 1
      BY DEF OneProviderSession
    <2>1. vendor[s] = {} \/ vendor[s] = {<<s, "same">>}
      BY DEF RenewalInv, OneRequestId
    <2>2. Cardinality({}) = 0 /\ Cardinality({<<s, "same">>}) = 1
      BY FS_EmptySet, FS_Singleton
    <2> QED
      BY <2>1, <2>2
  <1> QED
    BY <1>1, RenewalInvariant, PTL

\* A bound session that is stored as over is over at its vendor, in the same
\* way, whatever answers were late, out of order or missing.
THEOREM RenewalOutcomeWasReached == RenewalSpec => []OutcomeWasReached
  <1>1. RenewalInv => OutcomeWasReached
    <2> SUFFICES ASSUME RenewalInv, NEW s \in Session, stored[s] # Nothing, stored[s].ref # Nothing,
                        stored[s].state \notin Open
                 PROVE  ToRenewalState(Now(stored[s].ref)) = stored[s].state
      BY DEF OutcomeWasReached
    <2>1. stored[s].ref \in ProviderRef /\ Told(stored[s].ref, stored[s].state)
      BY DEF RenewalInv, StoredIsTold, RenewalTypes
    <2> QED
      BY <2>1, LatestState DEF RenewalInv
  <1> QED
    BY <1>1, RenewalInvariant, PTL

-----------------------------------------------------------------------------
(* Connector calls.                                                         *)

ResultState == {"SUCCEEDED", "ACCEPTED", "PENDING", "FAILED", "UNKNOWN", "UNKNOWN_RESULT", "COMMAND_FAILED",
                "unlisted", "none"}
Result == [state : ResultState, ref : BOOLEAN, proof : BOOLEAN, error : BOOLEAN]

CallRow ==
    [pc : {"reserved", "granted", "leased", "answered", "done"},
     actor : Actor, ref : Profile, provider : Leased \cup Unleased,
     kind : {"read", "write", "mail", "mail_send", "command"}, target : Target,
     lease : Target \cup {Nothing}, answer : Wire \cup {Nothing}, result : Result \cup {Nothing},
     receipt : ReceiptState \cup {Nothing}]

CallTypes ==
    /\ call \in {NoCall} \cup CallRow /\ effect \in BOOLEAN
    /\ call.pc # "idle" => call.kind \in KindsOf(call.provider)

\* The request was admitted for a target of the host's, and what is sent is
\* sent under a lease for it.
SentUnderLease ==
    /\ call.pc \in {"idle", "reserved", "granted", "leased"} => ~effect
    /\ call.pc # "idle" /\ call.provider \in Leased \ {"bilibili"} => call.target \in HostScope
    /\ call.pc = "leased" \/ (call.pc # "idle" /\ effect) =>
          (call.provider \in Leased => call.lease = call.target)

\* What a result says of a write before it is read.
ResultTrue(res) ==
    /\ res \in Result
    /\ call.kind # "read" =>
          /\ res.state = "FAILED" \/ (res.error /\ res.state \notin {"UNKNOWN_RESULT", "COMMAND_FAILED"}) =>
                ~effect \/ TakenAsFailure
          /\ res.state \in {"SUCCEEDED", "unlisted"} /\ call.provider # "bilibili" => effect \/ TakenOnTrust
          /\ res.state = "SUCCEEDED" /\ res.proof => effect
          /\ res.state = "ACCEPTED" => effect
          /\ res.state = "COMMAND_FAILED" => call.kind = "command"

CallInv ==
    /\ CallTypes /\ SentUnderLease /\ ReceiptIsTrue
    /\ call.pc = "answered" => ResultTrue(call.result)
    /\ call.pc = "done" => call.receipt \in ReceiptState

\* The kinds of operation a provider has.
LEMMA Kinds ==
    ASSUME NEW p \in Leased \cup Unleased
    PROVE  KindsOf(p) \subseteq {"read", "write", "mail", "mail_send", "command"}
  BY DEF KindsOf, Leased, Unleased

\* What the admission checks require of the target.
LEMMA AdmittedTarget ==
    ASSUME NEW a, NEW r, NEW p \in Leased \ {"bilibili"}, NEW kind, NEW t, NEW keyed,
           Admissible(a, r, p, kind, t, keyed)
    PROVE  t \in HostScope
  <1>1. CASE p = "github"
    BY <1>1 DEF Admissible, GitHubTarget
  <1>2. CASE p = "huggingface"
    BY <1>2 DEF Admissible, HuggingFaceTarget
  <1>3. CASE p = "microsoft_graph"
    BY <1>3 DEF Admissible, GraphScope
  <1>4. CASE p = "azure_devops"
    BY <1>4 DEF Admissible, AzureDevOpsScope
  <1> QED
    BY <1>1, <1>2, <1>3, <1>4 DEF Leased

LEMMA PrepareInv ==
    ASSUME CallInv, NEW a \in Actor, NEW r \in Profile, NEW p \in Leased \cup Unleased,
           NEW kind \in KindsOf(p), NEW t \in Target, NEW keyed \in BOOLEAN,
           Prepare(a, r, p, kind, t, keyed)
    PROVE  CallInv'
  <1>1. /\ call' = [pc |-> "reserved", actor |-> a, ref |-> r, provider |-> p, kind |-> kind,
                    target |-> t, lease |-> Nothing, answer |-> Nothing,
                    result |-> Nothing, receipt |-> Nothing]
        /\ effect' = FALSE
    BY DEF Prepare
  <1>2. p \in Leased \ {"bilibili"} => t \in HostScope
    BY AdmittedTarget DEF Prepare
  <1>3. CallTypes'
    BY <1>1, Kinds DEF CallTypes, CallRow
  <1> QED
    BY <1>1, <1>2, <1>3 DEF CallInv, SentUnderLease, ReceiptIsTrue, FailedMeansNotDone, VerifiedMeansDone

\* An exception leaves no definite word of a write, unless it is a refusal.
LEMMA ExceptionInv ==
    ASSUME CallInv, call \in CallRow, call.pc \in {"granted", "leased"},
           NEW class, NEW answer \in Wire \cup {Nothing},
           call' = [call EXCEPT !.pc = "answered", !.answer = answer, !.result = ExceptionResult(class)],
           effect' \in BOOLEAN, class = "4xx" => ~effect' \/ TakenAsFailure',
           effect' => call.pc = "leased"
    PROVE  CallInv'
  <1> DEFINE res == [state |-> ExceptionState(Written, class), ref |-> FALSE, proof |-> FALSE, error |-> TRUE]
  <1>2. call' = [call EXCEPT !.pc = "answered", !.answer = answer, !.result = res]
    BY DEF ExceptionResult
  <1>3. /\ res \in Result /\ res.error /\ ~res.proof /\ res.state \in {"FAILED", "UNKNOWN_RESULT"}
        /\ res.state = "FAILED" /\ call.kind # "read" => class = "4xx"
    BY DEF Result, ResultState, ExceptionState, Written
  <1>4. /\ call' \in CallRow /\ call'.pc = "answered" /\ call'.result = res
        /\ call'.kind = call.kind /\ call'.provider = call.provider
        /\ call'.target = call.target /\ call'.lease = call.lease
    BY <1>2, <1>3 DEF CallRow
  <1>5. ResultTrue(call.result)'
    BY <1>3, <1>4 DEF ResultTrue
  <1>6. SentUnderLease' /\ CallTypes'
    BY <1>4 DEF CallInv, SentUnderLease, CallTypes
  <1> QED
    BY <1>4, <1>5, <1>6 DEF CallInv, ReceiptIsTrue, FailedMeansNotDone, VerifiedMeansDone

LEMMA FailInv ==
    ASSUME CallInv, call \in CallRow, call.pc \in {"granted", "leased"}, NEW class, Fail(class),
           effect' = FALSE
    PROVE  CallInv'
  <1>1. call' = [call EXCEPT !.pc = "answered", !.answer = call.answer, !.result = ExceptionResult(class)]
    BY DEF Fail, CallRow
  <1>2. call.answer \in Wire \cup {Nothing}
    BY DEF CallRow
  <1> QED
    BY <1>1, <1>2, ExceptionInv

LEMMA GrantInv ==
    ASSUME CallInv, ConsumeGrant \/ NoLease
    PROVE  CallInv'
  <1> USE DEF CallInv
  <1>1. call \in CallRow /\ effect' = effect /\ ~effect
    BY DEF CallTypes, NoCall, ConsumeGrant, NoLease, SentUnderLease
  <1>2. CASE call' = NoCall
    BY <1>1, <1>2 DEF CallTypes, NoCall, SentUnderLease, ReceiptIsTrue, FailedMeansNotDone, VerifiedMeansDone
  <1>3. CASE call' # NoCall
    <2>1. PICK pc \in {"granted", "leased"} :
             /\ call' = [call EXCEPT !.pc = pc]
             /\ pc = "leased" => call.provider \in Unleased
      BY <1>3 DEF ConsumeGrant, NoLease, Goto
    <2>2. CallTypes'
      BY <1>1, <2>1 DEF CallRow, CallTypes
    <2>3. SentUnderLease'
      BY <1>1, <2>1 DEF CallRow, SentUnderLease, ConsumeGrant, NoLease, Leased, Unleased
    <2> QED
      BY <1>1, <2>1, <2>2, <2>3 DEF CallRow, ReceiptIsTrue, FailedMeansNotDone, VerifiedMeansDone
  <1> QED
    BY <1>2, <1>3

LEMMA LeaseInv ==
    ASSUME CallInv, LeaseCredential
    PROVE  CallInv'
  <1> USE DEF CallInv
  <1>1. call.pc = "granted"
    BY DEF LeaseCredential
  <1>2. call \in CallRow /\ call.pc = "granted"
    BY <1>1 DEF CallTypes, NoCall
  <1>3. effect' = FALSE
    BY <1>2 DEF CallTypes, LeaseCredential, SentUnderLease
  <1>4. CASE \E class : Fail(class)
    BY <1>2, <1>3, <1>4, FailInv
  <1>5. CASE ~\E class : Fail(class)
    <2>1. PICK lease \in Target : LeaseMatches(lease) /\ call' = [call EXCEPT !.pc = "leased", !.lease = lease]
      BY <1>5 DEF LeaseCredential
    <2>2. CallTypes'
      BY <1>2, <1>3, <2>1 DEF CallRow, CallTypes
    <2>3. SentUnderLease'
      BY <1>2, <1>3, <2>1 DEF CallRow, SentUnderLease, LeaseMatches
    <2> QED
      BY <1>2, <1>3, <2>1, <2>2, <2>3 DEF CallRow, ReceiptIsTrue, FailedMeansNotDone, VerifiedMeansDone
  <1> QED
    BY <1>4, <1>5

\* A refusal is all that an adapter reads as definite, with two exceptions, and
\* only an answer with a result is read further: a mail send's only when it
\* names its message, and one without a listed state not everywhere.
LEMMA Decoded ==
    ASSUME NEW p \in (Leased \cup Unleased) \ {"msteams"}, NEW kind \in KindsOf(p), NEW wire \in Wire,
           NEW class \in Decode(p, kind, wire)
    PROVE  /\ class = "4xx" => \/ wire \in {"refused", "expired", "throttled"}
                               \/ p = "huggingface" /\ wire = "unresolved"
                               \/ p = "microsoft_graph" /\ wire = "unsure_expired"
           /\ class = "result" => wire \notin Errors \cup {"lost", "garbled"}
           /\ class = "result" /\ kind = "mail_send" => wire \in {"ok", "unknown", "unsafe"}
           /\ class = "result" /\ wire = "named" /\ kind # "read" =>
                 p \in {"github", "huggingface", "cloud", "microsoft_graph", "bilibili"}
  <1> USE DEF Errors, Unsettled, ProviderError
  <1>1. CASE p = "github"
    BY <1>1 DEF Decode, GitHubAnswer, KindsOf
  <1>2. CASE p = "computer"
    BY <1>2 DEF Decode, ComputerAnswer, KindsOf
  <1>3. CASE p \in {"cloud", "bilibili"}
    BY <1>3 DEF Decode, SignedAnswer, KindsOf
  <1>4. CASE p = "huggingface"
    BY <1>4 DEF Decode, HuggingFaceAnswer, KindsOf
  <1>5. CASE p = "microsoft_graph"
    BY <1>5 DEF Decode, GraphAnswer, MailAnswer
  <1>6. CASE p = "azure_devops"
    BY <1>6 DEF Decode, AzureDevOpsAnswer, KindsOf
  <1> QED
    BY <1>1, <1>2, <1>3, <1>4, <1>5, <1>6 DEF Leased, Unleased

\* The state a result names.
LEMMA NamedStates ==
    ASSUME NEW kind, NEW wire \in Wire
    PROVE  /\ NamedState(kind, wire) \in ResultState \ {"UNKNOWN_RESULT"}
           /\ NamedState(kind, wire) = "FAILED" => wire = "failed"
           /\ NamedState(kind, wire) = "COMMAND_FAILED" <=> wire = "exit"
           /\ NamedState(kind, wire) = "SUCCEEDED" => wire \in {"ok", "unproved", "other"} /\ kind # "mail_send"
           /\ NamedState(kind, wire) = "ACCEPTED" => wire \in {"ok", "unproved", "other"} /\ kind = "mail_send"
           /\ NamedState(kind, wire) = "unlisted" => wire = "named"
  BY DEF NamedState, ResultState, Wire, Errors, Unsettled

LEMMA SendInv ==
    ASSUME CallInv, Send
    PROVE  CallInv'
  <1> USE DEF CallInv
  <1>1. /\ call \in CallRow /\ call.pc = "leased" /\ call.provider # "msteams" /\ ~effect
        /\ call.kind \in KindsOf(call.provider)
    BY DEF CallTypes, NoCall, Send, SentUnderLease
  <1>2. CASE Fail("raised") /\ UNCHANGED effect
    BY <1>1, <1>2, FailInv DEF CallTypes
  <1>3. CASE ~(Fail("raised") /\ UNCHANGED effect)
    <2>1. PICK done \in BOOLEAN, wire \in Wire :
             Possible(wire) /\ Truthful(call.provider, wire, done) /\ effect' = done /\ Answer(wire)
      BY <1>3 DEF Send
    <2>2. PICK class, res :
             /\ class \in Decode(call.provider, call.kind, wire)
             /\ res = (IF class # "result" THEN ExceptionResult(class)
                       ELSE IF wire = "unsafe" THEN ExceptionResult("5xx")
                       ELSE ProviderResult(call.kind, wire))
             /\ call' = [call EXCEPT !.pc = "answered", !.answer = wire, !.result = res]
      BY <2>1 DEF Answer
    <2>3. call.provider \in (Leased \cup Unleased) \ {"msteams"}
      BY <1>1 DEF CallRow
    <2>4. /\ call'.pc = "answered" /\ call'.answer = wire /\ call'.result = res
          /\ call'.kind = call.kind /\ call'.provider = call.provider
          /\ call'.target = call.target /\ call'.lease = call.lease
      BY <1>1, <2>2 DEF CallRow
    <2>5. CASE class # "result" \/ wire = "unsafe"
      <3>1. PICK c : /\ c = IF class # "result" THEN class ELSE "5xx"
                     /\ res = ExceptionResult(c)
        BY <2>2, <2>5
      <3>2. c = "4xx" => ~done \/ TakenAsFailure'
        <4>1. c = "4xx" => \/ wire \in {"refused", "expired", "throttled"}
                           \/ call.provider = "huggingface" /\ wire = "unresolved"
                           \/ call.provider = "microsoft_graph" /\ wire = "unsure_expired"
          BY <1>1, <2>2, <2>3, <3>1, Decoded
        <4>2. wire \in {"refused", "expired", "throttled"} => ~done
          BY <2>1 DEF Truthful
        <4> QED
          BY <2>4, <4>1, <4>2 DEF TakenAsFailure
      <3> QED
        BY <1>1, <2>1, <2>2, <3>1, <3>2, ExceptionInv
    <2>6. CASE class = "result" /\ wire # "unsafe"
      <3>1. /\ res.state = NamedState(call.kind, wire)
            /\ res.proof = (wire = "ok") /\ res.error = (wire \in {"exit", "flagged"})
            /\ res \in Result
        BY <2>2, <2>6, NamedStates DEF ProviderResult, Result
      <3>2. call' \in CallRow /\ CallTypes'
        BY <1>1, <2>1, <2>2, <2>4, <3>1 DEF CallRow, CallTypes
      <3>3. /\ wire \notin Errors \cup {"lost", "garbled"}
            /\ call.kind = "mail_send" => wire \in {"ok", "unknown", "unsafe"}
            /\ wire = "named" /\ call.kind # "read" =>
                 call.provider \in {"github", "huggingface", "cloud", "microsoft_graph", "bilibili"}
        BY <1>1, <2>2, <2>3, <2>6, Decoded
      <3>4. res.state = "FAILED" => ~done
        BY <2>1, <3>1, NamedStates DEF Truthful
      <3>5. res.error /\ res.state # "COMMAND_FAILED" => TakenAsFailure'
        <4>1. res.error /\ res.state # "COMMAND_FAILED" => wire = "flagged"
          BY <3>1, NamedStates
        <4> QED
          BY <2>4, <4>1 DEF TakenAsFailure
      <3>6. ASSUME call.kind # "read", res.state \in {"SUCCEEDED", "unlisted"}, call.provider # "bilibili"
            PROVE  done \/ TakenOnTrust'
        <4>1. CASE wire \in {"ok", "unproved"}
          BY <2>1, <3>6, <4>1 DEF Truthful
        <4>2. CASE wire = "other"
          <5>1. call.kind # "mail_send" BY <3>3, <4>2
          <5> QED BY <2>4, <3>6, <4>2, <5>1 DEF TakenOnTrust
        <4>3. CASE wire = "named"
          <5>1. /\ call.kind # "mail_send"
                /\ call.provider \in {"github", "huggingface", "cloud", "microsoft_graph"}
            BY <3>3, <3>6, <4>3
          <5> QED BY <2>4, <3>6, <4>3, <5>1 DEF TakenOnTrust
        <4> QED BY <3>1, <3>6, <4>1, <4>2, <4>3, NamedStates
      <3>7. /\ res.state = "SUCCEEDED" /\ res.proof => done
            /\ res.state = "ACCEPTED" => done
        BY <2>1, <3>1, <3>3, NamedStates DEF Truthful
      <3>8. res.state = "COMMAND_FAILED" => call.kind = "command"
        BY <2>1, <3>1, NamedStates DEF Possible
      <3>9. ResultTrue(call.result)'
        BY <2>1, <2>4, <3>1, <3>4, <3>5, <3>6, <3>7, <3>8 DEF ResultTrue
      <3>10. SentUnderLease'
        BY <1>1, <2>4 DEF SentUnderLease
      <3> QED
        BY <2>4, <3>2, <3>9, <3>10 DEF ReceiptIsTrue, FailedMeansNotDone, VerifiedMeansDone
    <2> QED
      BY <2>5, <2>6
  <1> QED
    BY <1>2, <1>3

\* How a result becomes the state of a receipt.
LEMMA Responses ==
    ASSUME NEW p, NEW kind, NEW res \in Result, NEW out, out = OperationResponse(p, kind, res)
    PROVE  /\ out \in {"verified", "pending", "uncertain", "failed"}
           /\ kind # "read" /\ out = "verified" =>
                 \/ res.state \in {"SUCCEEDED", "unlisted"} /\ p # "bilibili"
                 \/ res.state = "SUCCEEDED" /\ res.proof
                 \/ res.state = "ACCEPTED"
           /\ kind # "read" /\ out = "failed" =>
                 \/ res.state \in {"FAILED", "COMMAND_FAILED"}
                 \/ res.error /\ res.state \notin {"UNKNOWN_RESULT", "COMMAND_FAILED"}
  <1>1. CASE kind # "read" /\ p = "bilibili"
    BY <1>1 DEF OperationResponse
  <1>2. CASE kind # "read" /\ p # "bilibili"
    <2>1. CASE res.state \in {"UNKNOWN", "UNKNOWN_RESULT"}
      BY <1>2, <2>1 DEF OperationResponse
    <2>2. CASE res.state \in {"SUCCEEDED", "unlisted"}
      BY <1>2, <2>2 DEF OperationResponse
    <2>3. CASE res.state \in {"ACCEPTED", "PENDING"}
      BY <1>2, <2>3 DEF OperationResponse
    <2>4. CASE res.state \in {"FAILED", "COMMAND_FAILED", "none"}
      BY <1>2, <2>4 DEF OperationResponse
    <2> QED
      BY <2>1, <2>2, <2>3, <2>4 DEF Result, ResultState
  <1>3. CASE kind = "read"
    BY <1>3 DEF OperationResponse
  <1> QED
    BY <1>1, <1>2, <1>3

LEMMA StoreInv ==
    ASSUME CallInv, Store
    PROVE  CallInv'
  <1> USE DEF CallInv
  <1>1. call \in CallRow /\ call.pc = "answered" /\ ResultTrue(call.result)
    BY DEF CallTypes, NoCall, Store
  <1>2. PICK p, kind, res, out : /\ p = call.provider /\ kind = call.kind /\ res = call.result
                                 /\ out = OperationResponse(p, kind, res)
    OBVIOUS
  <1> DEFINE rec == CASE out = "verified" -> "SUCCEEDED" [] out = "pending" -> "PENDING"
                      [] out = "uncertain" -> "UNKNOWN_RESULT" [] out = "failed" -> "FAILED"
  <1>3. call' = [call EXCEPT !.pc = "done", !.receipt = rec] /\ effect' = effect
    BY <1>2 DEF Store, Receipt
  <1>4. /\ out \in {"verified", "pending", "uncertain", "failed"}
        /\ kind # "read" /\ out = "verified" =>
              \/ res.state \in {"SUCCEEDED", "unlisted"} /\ p # "bilibili"
              \/ res.state = "SUCCEEDED" /\ res.proof
              \/ res.state = "ACCEPTED"
        /\ kind # "read" /\ out = "failed" =>
              \/ res.state \in {"FAILED", "COMMAND_FAILED"}
              \/ res.error /\ res.state \notin {"UNKNOWN_RESULT", "COMMAND_FAILED"}
    BY <1>1, <1>2, Responses DEF ResultTrue
  <1>5. rec \in ReceiptState \ {"REJECTED"} /\ (rec = "SUCCEEDED" <=> out = "verified") /\ (rec = "FAILED" <=> out = "failed")
    BY <1>4 DEF ReceiptState
  <1>6. kind # "read" /\ out = "verified" => effect \/ TakenOnTrust
    BY <1>1, <1>2, <1>4 DEF ResultTrue
  <1>7. kind \notin {"read", "command"} /\ out = "failed" => ~effect \/ TakenAsFailure
    BY <1>1, <1>2, <1>4 DEF ResultTrue
  <1>8. call' \in CallRow /\ CallTypes'
    BY <1>1, <1>3, <1>5 DEF CallRow, CallTypes
  <1>9. SentUnderLease'
    BY <1>1, <1>3 DEF CallRow, SentUnderLease
  <1>10. /\ call'.pc = "done" /\ call'.receipt = rec /\ call'.kind = kind
         /\ TakenOnTrust' = TakenOnTrust /\ TakenAsFailure' = TakenAsFailure
    BY <1>1, <1>2, <1>3 DEF CallRow, TakenOnTrust, TakenAsFailure
  <1>11. ReceiptIsTrue'
    BY <1>3, <1>5, <1>6, <1>7, <1>10 DEF ReceiptIsTrue, FailedMeansNotDone, VerifiedMeansDone, Written
  <1> QED
    BY <1>5, <1>8, <1>9, <1>10, <1>11

LEMMA TeamsInv ==
    ASSUME CallInv, TeamsReply
    PROVE  CallInv'
  <1> USE DEF CallInv
  <1>1. call \in CallRow /\ call.pc = "leased" /\ call.provider = "msteams"
    BY DEF CallTypes, NoCall, TeamsReply
  <1>2. PICK done \in BOOLEAN, wire \in Wire :
          /\ Truthful("msteams", wire, done) /\ effect' = done
          /\ call' = [call EXCEPT !.pc = "done", !.answer = wire, !.receipt = TeamsAnswer(wire)]
    BY DEF TeamsReply
  <1>3. /\ TeamsAnswer(wire) \in {"REJECTED", "SUCCEEDED", "UNKNOWN_RESULT"}
        /\ TeamsAnswer(wire) = "REJECTED" => ~done \/ wire = "flagged"
        /\ TeamsAnswer(wire) = "SUCCEEDED" => done \/ wire = "other"
    BY <1>2 DEF TeamsAnswer, Truthful
  <1>4. call' \in CallRow /\ CallTypes'
    BY <1>1, <1>2, <1>3 DEF CallRow, CallTypes, ReceiptState
  <1>5. SentUnderLease'
    BY <1>1, <1>2 DEF CallRow, SentUnderLease, Leased
  <1>6. /\ call'.pc = "done" /\ call'.answer = wire /\ call'.receipt = TeamsAnswer(wire)
        /\ call'.provider = "msteams" /\ call'.kind = "write"
    BY <1>1, <1>2 DEF CallRow, CallTypes, KindsOf
  <1>7. ReceiptIsTrue'
    BY <1>2, <1>3, <1>6 DEF ReceiptIsTrue, FailedMeansNotDone, VerifiedMeansDone, TakenAsFailure, TakenOnTrust
  <1> QED
    BY <1>3, <1>4, <1>5, <1>6, <1>7 DEF ReceiptState

\* What holds of an invocation from its admission to its receipt (CallInv).
THEOREM ConnectorCallInvariant == CallSpec => []CallInv
  <1>1. CallInit => CallInv
    <2> SUFFICES ASSUME CallInit
                 PROVE  CallInv
      OBVIOUS
    <2>1. call = NoCall /\ call.pc = "idle" /\ effect = FALSE
      BY DEF CallInit, NoCall
    <2> QED
      BY <2>1 DEF CallInit, CallInv, CallTypes, NoCall, SentUnderLease, ReceiptIsTrue,
           FailedMeansNotDone, VerifiedMeansDone
  <1>2. CallInv /\ [CallNext]_callVars => CallInv'
    <2> SUFFICES ASSUME CallInv, [CallNext]_callVars
                 PROVE  CallInv'
      OBVIOUS
    <2>1. CASE CallStep
      BY <2>1, GrantInv, LeaseInv, SendInv, StoreInv, TeamsInv DEF CallStep
    <2>2. CASE \E a \in Actor, r \in Profile, p \in Leased \cup Unleased, t \in Target, keyed \in BOOLEAN :
                 \E kind \in KindsOf(p) : Prepare(a, r, p, kind, t, keyed)
      BY <2>2, PrepareInv
    <2>3. CASE UNCHANGED <<call, effect>>
      BY <2>3 DEF CallInv, CallTypes, SentUnderLease, ReceiptIsTrue, FailedMeansNotDone,
                  VerifiedMeansDone, Written, ResultTrue, TakenAsFailure, TakenOnTrust
    <2> QED
      BY <2>1, <2>2, <2>3 DEF CallNext, CallOn, callVars
  <1> QED
    BY <1>1, <1>2, PTL DEF CallSpec

\* The definite receipts of a write are true of it, for every adapter and every
\* loss on the way, whatever the answer but the ones TakenAsFailure and
\* TakenOnTrust list.
THEOREM CallReceiptIsTrue == CallSpec => []ReceiptIsTrue
  BY ConnectorCallInvariant, PTL DEF CallInv

\* What is done with an account is done under a lease for the target asked
\* for, inside what the host configured.
THEOREM CallDoneUnderLease == CallSpec => []DoneUnderLease
  <1>1. CallInv => DoneUnderLease
    BY DEF CallInv, SentUnderLease, DoneUnderLease
  <1> QED
    BY <1>1, ConnectorCallInvariant, PTL

-----------------------------------------------------------------------------
(* Health checks.                                                           *)

CheckRow ==
    [pc : {"begun", "listed", "leased", "probed", "done"}, actor : Actor, ref : Profile,
     provider : ListedProvider \cup VendorProvider, state : AuthorizationState \cup {Nothing}]

CheckTypes == check \in {NoCheck} \cup CheckRow

\* While a check is made, what the account shows now has been remembered; past
\* the first listing it was in order, and past the probe the vendor accepted it.
HealthInv ==
    /\ CheckTypes
    /\ check.pc \notin {"idle", "done"} => Signs(check, profiles[check.ref], accepts) \subseteq was
    /\ check.pc \in {"listed", "leased", "probed"} => check.provider = "huggingface" /\ "in order" \in was
    /\ check.pc = "probed" => "accepted" \in was
    /\ VerdictWasTrue

\* The signs, one by one.
LEMMA SignMembers ==
    ASSUME NEW c, NEW row, NEW ok
    PROVE  /\ row # Nothing /\ row.status = "healthy" /\ row.scope = HostScope => "in order" \in Signs(c, row, ok)
           /\ ok => "accepted" \in Signs(c, row, ok)
           /\ ~ok => "refused" \in Signs(c, row, ok)
           /\ ~Theirs(c, row) \/ NeedsConsent(row) => "consent needed" \in Signs(c, row, ok)
  BY DEF Signs

LEMMA CheckMade ==
    ASSUME CheckTypes, check.pc \notin {"idle", "done"}
    PROVE  check \in CheckRow
  <1>1. NoCheck.pc = "idle"
    BY DEF NoCheck
  <1> QED
    BY <1>1 DEF CheckTypes

\* A check that ends leaves a verdict its signs support.
LEMMA VerdictInv ==
    ASSUME HealthInv, check.pc \notin {"idle", "done"}, NEW state \in AuthorizationState \cup {Nothing},
           Done(state), UNCHANGED <<profiles, accepts>>,
           state = "VALID" =>
              /\ check.provider \in ListedProvider => "in order" \in was'
              /\ check.provider \notin {"microsoft_graph", "azure_devops"} => "accepted" \in was',
           state = "REAUTHORIZATION_REQUIRED" =>
              \/ "refused" \in was'
              \/ check.provider \in ListedProvider /\ "consent needed" \in was'
              \/ check.provider = "huggingface" /\ "unlisted" \in was'
    PROVE  HealthInv'
  <1>1. check \in CheckRow
    BY CheckMade DEF HealthInv
  <1>2. check' = [check EXCEPT !.pc = "done", !.state = state]
    BY DEF Done
  <1>3. /\ check' \in CheckRow /\ check'.pc = "done" /\ check'.state = state
        /\ check'.provider = check.provider
    BY <1>1, <1>2 DEF CheckRow
  <1> QED
    BY <1>3 DEF HealthInv, CheckTypes, VerdictWasTrue, ValidWasHealthy, ReauthWasNeeded

\* A check that goes on.
LEMMA GoesOnInv ==
    ASSUME HealthInv, check.pc \notin {"idle", "done"}, NEW pc \in {"listed", "leased", "probed"},
           check' = [check EXCEPT !.pc = pc], UNCHANGED <<profiles, accepts, was>>,
           check.provider = "huggingface", "in order" \in was, pc = "probed" => "accepted" \in was
    PROVE  HealthInv'
  <1>1. check \in CheckRow
    BY CheckMade DEF HealthInv
  <1>2. /\ check' \in CheckRow /\ check'.pc = pc /\ check'.provider = check.provider
        /\ check'.actor = check.actor /\ check'.ref = check.ref
    BY <1>1 DEF CheckRow
  <1>3. Signs(check', profiles'[check'.ref], accepts') = Signs(check, profiles[check.ref], accepts)
    BY <1>2 DEF Signs, Theirs
  <1> QED
    BY <1>2, <1>3 DEF HealthInv, CheckTypes, VerdictWasTrue, ValidWasHealthy, ReauthWasNeeded

LEMMA BeginCheckInv ==
    ASSUME HealthInv, NEW a \in Actor, NEW r \in Profile, NEW p \in ListedProvider \cup VendorProvider,
           BeginCheck(a, r, p)
    PROVE  HealthInv'
  <1>1. CASE check' = NoCheck
    BY <1>1 DEF HealthInv, CheckTypes, NoCheck, VerdictWasTrue, ValidWasHealthy, ReauthWasNeeded
  <1>2. CASE check' # NoCheck
    <2>1. /\ check' = [pc |-> "begun", actor |-> a, ref |-> r, provider |-> p, state |-> Nothing]
          /\ was' = Signs(check', profiles[r], accepts) /\ UNCHANGED <<profiles, accepts>>
      BY <1>2 DEF BeginCheck
    <2>2. check' \in CheckRow
      BY <2>1 DEF CheckRow
    <2> QED
      BY <2>1, <2>2 DEF HealthInv, CheckTypes, VerdictWasTrue, ValidWasHealthy, ReauthWasNeeded
  <1> QED
    BY <1>1, <1>2

LEMMA AccountMovesInv ==
    ASSUME HealthInv, NEW r \in Profile, AccountMoves(r)
    PROVE  HealthInv'
  <1>1. check' = check /\ Remember
    BY DEF AccountMoves
  <1>2. CASE check.pc \in {"idle", "done"}
    BY <1>1, <1>2 DEF Remember, HealthInv, CheckTypes, VerdictWasTrue, ValidWasHealthy, ReauthWasNeeded
  <1>3. CASE check.pc \notin {"idle", "done"}
    BY <1>1, <1>3 DEF Remember, HealthInv, CheckTypes, VerdictWasTrue, ValidWasHealthy, ReauthWasNeeded
  <1> QED
    BY <1>2, <1>3

\* The states of a row Account Center lists.
LEMMA ListedState ==
    ASSUME NEW row
    PROVE  /\ AccountState(row) \in AuthorizationState
           /\ AccountState(row) = "VALID" => row.status = "healthy"
           /\ AccountState(row) = "REAUTHORIZATION_REQUIRED" => NeedsConsent(row)
  BY DEF AccountState, AuthorizationState, NeedsConsent

LEMMA ListedHealthInv ==
    ASSUME HealthInv, GraphHealth \/ AzureDevOpsHealth
    PROVE  HealthInv'
  <1>1. /\ check.pc = "begun" /\ check.provider \in {"microsoft_graph", "azure_devops"}
        /\ UNCHANGED <<profiles, accepts, was>>
    BY DEF GraphHealth, AzureDevOpsHealth
  <1>2. Signs(check, profiles[check.ref], accepts) \subseteq was
    BY <1>1 DEF HealthInv
  <1>3. CASE Raise
    BY <1>1, <1>3, VerdictInv, HealthAssumption DEF Raise, AuthorizationState
  <1>4. CASE ~Raise
    <2>1. PICK row : /\ row # Nothing /\ row = profiles[check.ref]
                     /\ row.scope = HostScope /\ Done(AccountState(row))
      BY <1>4 DEF GraphHealth, AzureDevOpsHealth, OwnedRow
    <2>2. AccountState(row) = "VALID" => "in order" \in was
      BY <1>2, <2>1, ListedState, SignMembers
    <2>3. AccountState(row) = "REAUTHORIZATION_REQUIRED" => "consent needed" \in was
      BY <1>2, <2>1, ListedState, SignMembers
    <2> QED
      BY <1>1, <2>1, <2>2, <2>3, ListedState, VerdictInv DEF ListedProvider
  <1> QED
    BY <1>3, <1>4

LEMMA VendorHealthInv ==
    ASSUME HealthInv, CloudHealth \/ DirectHealth
    PROVE  HealthInv'
  <1>1. check.pc = "begun" /\ check.provider \in VendorProvider /\ UNCHANGED <<profiles, accepts, was>>
    BY DEF CloudHealth, DirectHealth, VendorProvider
  <1>2. (accepts => "accepted" \in was) /\ (~accepts => "refused" \in was)
    BY <1>1, SignMembers DEF HealthInv
  <1>3. PICK state \in AuthorizationState \cup {Nothing} :
           Done(state) /\ (state = "VALID" => accepts) /\ (state = "REAUTHORIZATION_REQUIRED" => ~accepts)
    <2>1. CASE CloudHealth
      <3>1. CASE Raise
        BY <3>1, HealthAssumption DEF Raise, AuthorizationState
      <3>2. CASE ~Raise
        <4>1. PICK report \in CloudReport : Done(CloudState(report))
          BY <2>1, <3>2 DEF CloudHealth
        <4> QED
          BY <4>1 DEF CloudReport, CloudState, AuthorizationState
      <3> QED
        BY <3>1, <3>2
    <2>2. CASE DirectHealth
      BY <2>2, HealthAssumption DEF DirectHealth, Raise, AuthorizationState
    <2> QED
      BY <2>1, <2>2
  <1> QED
    BY <1>1, <1>2, <1>3, VerdictInv DEF ListedProvider, VendorProvider

LEMMA UnlistedInv ==
    ASSUME HealthInv, HuggingFaceUnlisted
    PROVE  HealthInv'
  <1>1. /\ check.pc \notin {"idle", "done"} /\ check.provider = "huggingface"
        /\ Done("REAUTHORIZATION_REQUIRED") /\ "unlisted" \in was' /\ UNCHANGED <<profiles, accepts>>
    BY DEF HuggingFaceUnlisted
  <1>2. "REAUTHORIZATION_REQUIRED" \in AuthorizationState \cup {Nothing}
    BY DEF AuthorizationState
  <1> QED
    BY <1>1, <1>2, VerdictInv

LEMMA HuggingFaceHealthInv ==
    ASSUME HealthInv, HuggingFaceList \/ HuggingFaceLease \/ HuggingFaceProbe \/ HuggingFaceRelist
    PROVE  HealthInv'
  <1>1. /\ check.pc \in {"begun", "listed", "leased", "probed"} /\ check.provider = "huggingface"
        /\ UNCHANGED <<profiles, accepts, was>>
    BY DEF HealthInv, HuggingFaceList, HuggingFaceLease, HuggingFaceProbe, HuggingFaceRelist
  <1>2. Signs(check, profiles[check.ref], accepts) \subseteq was
    BY <1>1 DEF HealthInv
  <1>3. ASSUME NEW state \in {"UNAVAILABLE", "UNKNOWN", "PERMISSION_DENIED"}, Done(state)
        PROVE  HealthInv'
    BY <1>1, <1>3, VerdictInv DEF AuthorizationState
  <1>4. CASE HuggingFaceList
    <2> DEFINE row == OwnedRow(check.actor, check.ref, "huggingface")
    <2>1. CASE Done("REAUTHORIZATION_REQUIRED")
                 /\ (row = Nothing \/ row.status \in {"reauthorization_required", "revoked"})
      <3>1. row = Nothing => ~Theirs(check, profiles[check.ref])
        BY <1>1 DEF OwnedRow, VisibleTo, Theirs
      <3>2. row # Nothing => row = profiles[check.ref]
        BY DEF OwnedRow
      <3>3. "consent needed" \in was
        BY <1>2, <2>1, <3>1, <3>2, SignMembers DEF NeedsConsent
      <3> QED
        BY <1>1, <2>1, <3>3, VerdictInv DEF AuthorizationState, ListedProvider
    <2>2. CASE /\ row # Nothing /\ row.scope = HostScope /\ row.status = "healthy"
               /\ check' = [check EXCEPT !.pc = "listed"]
      <3>1. row = profiles[check.ref]
        BY <2>2 DEF OwnedRow
      <3>2. "in order" \in was
        BY <1>2, <2>2, <3>1, SignMembers
      <3> QED
        BY <1>1, <2>2, <3>2, GoesOnInv
    <2> QED
      BY <1>3, <1>4, <2>1, <2>2 DEF HuggingFaceList
  <1>5. CASE HuggingFaceLease
    <2>1. CASE check' = [check EXCEPT !.pc = "leased"]
      BY <1>1, <1>5, <2>1, GoesOnInv DEF HuggingFaceLease, HealthInv
    <2> QED
      BY <1>3, <1>5, <2>1 DEF HuggingFaceLease
  <1>6. CASE HuggingFaceProbe
    <2>1. CASE ~accepts /\ Done("REAUTHORIZATION_REQUIRED")
      BY <1>1, <1>2, <2>1, SignMembers, VerdictInv DEF AuthorizationState
    <2>2. CASE accepts /\ check' = [check EXCEPT !.pc = "probed"]
      <3>1. "accepted" \in was /\ "in order" \in was
        BY <1>2, <1>6, <2>2, SignMembers DEF HuggingFaceProbe, HealthInv
      <3> QED
        BY <1>1, <2>2, <3>1, GoesOnInv
    <2> QED
      BY <1>3, <1>6, <2>1, <2>2 DEF HuggingFaceProbe
  <1>7. CASE HuggingFaceRelist
    <2>1. Done("VALID") /\ "accepted" \in was /\ "in order" \in was
      BY <1>7 DEF HuggingFaceRelist, HealthInv
    <2> QED
      BY <1>1, <2>1, VerdictInv DEF AuthorizationState
  <1> QED
    BY <1>4, <1>5, <1>6, <1>7

\* What holds of a check from its first read to its verdict (HealthInv).
THEOREM HealthInvariant == HealthSpec => []HealthInv
  <1>1. HealthInit => HealthInv
    BY DEF HealthInit, HealthInv, CheckTypes, NoCheck, VerdictWasTrue, ValidWasHealthy, ReauthWasNeeded
  <1>2. HealthInv /\ [HealthNext]_healthVars => HealthInv'
    <2> SUFFICES ASSUME HealthInv, [HealthNext]_healthVars
                 PROVE  HealthInv'
      OBVIOUS
    <2>1. CASE HealthStep
      BY <2>1, ListedHealthInv, VendorHealthInv, UnlistedInv, HuggingFaceHealthInv DEF HealthStep
    <2>2. CASE \E a \in Actor, r \in Profile : HealthOf(a, r)
      BY <2>2, BeginCheckInv, AccountMovesInv DEF HealthOf
    <2>3. CASE UNCHANGED healthVars
      BY <2>3 DEF healthVars, HealthInv, CheckTypes, VerdictWasTrue, ValidWasHealthy, ReauthWasNeeded
    <2> QED
      BY <2>1, <2>2, <2>3 DEF HealthNext
  <1> QED
    BY <1>1, <1>2, PTL DEF HealthSpec

\* VALID and REAUTHORIZATION_REQUIRED were true of the account at a moment of
\* the check, however it changed between the check's reads; the one exception
\* is a Hugging Face listing that could not be read.
THEOREM HealthVerdictWasTrue == HealthSpec => []VerdictWasTrue
  BY HealthInvariant, PTL DEF HealthInv

-----------------------------------------------------------------------------
(* Linking.                                                                 *)

\* The references a row of its own is made under.
Named == (Actor \X Key \X {"same"}) \cup {SourceRef}
LinkProvider == ActorBound \cup {"github", "huggingface"}

LinkRequest ==
    {NoRequest} \cup [pc : {"listed", "answered", "shown"}, ref : Profile, provider : LinkProvider, held : BOOLEAN]

LinkTypes ==
    /\ profiles \in [Profile -> Row \cup {Nothing}]
    /\ session \subseteq [owner : Actor, ref : Named, provider : ActorBound]
    /\ flow \in [Actor \X Key -> [state : QrState, ref : Named] \cup {Nothing}]
    /\ made \subseteq Named

\* A row is one that was made, and an actor-bound account is never shared.
RowsMade ==
    \A r \in Profile : profiles[r] # Nothing =>
        r \in made /\ (profiles[r].provider \in ActorBound => profiles[r].mode = "actor_owned")

\* What the requests req have come to: a profile is shown when it was held, a
\* rotation is of Hugging Face, a QR answer of Bilibili.
Linking(req) ==
    /\ req \in [Actor -> LinkRequest]
    /\ \A a \in Actor :
          /\ req[a].pc = "shown" => req[a].held
          /\ req[a].pc = "listed" => req[a].provider = "huggingface"
          /\ req[a].pc = "answered" => req[a].provider = "bilibili"

LinkInv == LinkTypes /\ RowsMade /\ Linking(linking)

LEMMA NamedProfiles == Named \subseteq Profile /\ ActorBound \subseteq LinkProvider
  BY LinkRefs DEF Named, LinkProvider

LEMMA HoldsBoolean == \A a, r, p, rows : Holds(a, r, p, rows) \in BOOLEAN
  BY DEF Holds

\* Noticing a change shows nobody anything.
LEMMA Noticed ==
    ASSUME NEW req, Linking(req)
    PROVE  Linking(Noticing(req))
  <1>1. ASSUME NEW a \in Actor
        PROVE  /\ Noticing(req)[a] \in LinkRequest
               /\ Noticing(req)[a].pc = req[a].pc
               /\ req[a].pc # "idle" => Noticing(req)[a].provider = req[a].provider
               /\ req[a].pc = "shown" => Noticing(req)[a] = req[a]
    <2>1. req[a] \in LinkRequest
      BY DEF Linking
    <2>2. CASE req[a].pc \in {"listed", "answered"}
      <3>1. PICK h \in BOOLEAN : Noticing(req)[a] = [req[a] EXCEPT !.held = h]
        BY <2>1, <2>2, HoldsBoolean DEF Noticing, LinkRequest, NoRequest
      <3> QED
        BY <2>1, <2>2, <3>1 DEF LinkRequest, NoRequest
    <2>3. CASE req[a].pc \notin {"listed", "answered"}
      BY <2>1, <2>3 DEF Noticing
    <2> QED
      BY <2>2, <2>3
  <1>2. Noticing(req) = [a \in Actor |-> Noticing(req)[a]]
    BY DEF Noticing
  <1>3. Noticing(req) \in [Actor -> LinkRequest]
    BY <1>1, <1>2
  <1> QED
    BY <1>1, <1>3 DEF Linking

\* A profile shown was held when it was shown, or before.
LEMMA Shown ==
    ASSUME Linking(linking), NEW a \in Actor, NEW r \in Profile, NEW p \in LinkProvider,
           Holds(a, r, p, profiles')
    PROVE  Linking(Show(a, r, p))
  <1>1. [pc |-> "shown", ref |-> r, provider |-> p, held |-> TRUE] \in LinkRequest
    BY DEF LinkRequest
  <1>2. Show(a, r, p) = [linking EXCEPT ![a] = [pc |-> "shown", ref |-> r, provider |-> p, held |-> TRUE]]
    BY DEF Show
  <1> QED
    BY <1>1, <1>2 DEF Linking

LEMMA EndedLinking ==
    ASSUME Linking(linking), NEW a \in Actor
    PROVE  Linking(Ended(a))
  BY DEF Linking, Ended, LinkRequest, NoRequest

\* A row that is linked: the tables keep their types, and the answer may name it.
LEMMA LinkedRow ==
    ASSUME LinkTypes, RowsMade, NEW a \in Actor, NEW r \in Named, NEW p \in LinkProvider,
           NEW status \in AuthStatus, LinkRow(a, r, p, status)
    PROVE  /\ profiles' \in [Profile -> Row \cup {Nothing}] /\ made' \subseteq Named
           /\ RowsMade'
           /\ p \notin ActorBound => Holds(a, r, p, profiles')
  <1> DEFINE row == [owner |-> a, provider |-> p, mode |-> "actor_owned",
                     status |-> status, scope |-> HostScope, expired |-> FALSE]
  <1>1. row \in Row
    <2>1. p \in AccountProvider
      BY DEF LinkProvider, ActorBound, AccountProvider
    <2>2. "actor_owned" \in AccessMode /\ HostScope \in SUBSET Target
      BY DEF AccessMode, HostScope, Target
    <2> QED
      BY <2>1, <2>2 DEF Row
  <1>2. profiles' = [profiles EXCEPT ![r] = row] /\ made' = made \cup {r} /\ r \in Profile
    BY NamedProfiles DEF LinkRow
  <1>3. profiles'[r] = row /\ row # Nothing
    BY <1>1, <1>2, ProfileAssumption DEF LinkTypes
  <1> QED
    BY <1>1, <1>2, <1>3 DEF LinkTypes, RowsMade, Holds

LEMMA DirectLinkInv ==
    ASSUME LinkInv, NEW a \in Actor, NEW k \in Key, LinkGitHub(a, k) \/ LinkHuggingFace(a, k)
    PROVE  LinkInv'
  <1> USE DEF LinkInv
  <1>1. PICK p \in {"github", "huggingface"}, status \in AuthStatus, r \in Named :
           LinkRow(a, r, p, status) /\ LinkAnswer(a, r, p) /\ UNCHANGED <<session, flow>>
    BY DEF LinkGitHub, LinkHuggingFace, ProviderProfileRef, Named, AuthStatus
  <1>2. p \in LinkProvider /\ p \notin ActorBound /\ r \in Profile
    BY NamedProfiles DEF LinkProvider, ActorBound
  <1>3. /\ profiles' \in [Profile -> Row \cup {Nothing}] /\ made' \subseteq Named
        /\ RowsMade' /\ Holds(a, r, p, profiles')
    BY <1>1, <1>2, LinkedRow
  <1>4. Linking(Show(a, r, p)) /\ Linking(Ended(a))
    BY <1>2, <1>3, Shown, EndedLinking
  <1>5. Linking(linking')
    BY <1>1, <1>4, Noticed DEF LinkAnswer
  <1> QED
    BY <1>1, <1>3, <1>5 DEF LinkTypes

\* The requests that only begin something.
LEMMA BeginInv ==
    ASSUME LinkInv, NEW a \in Actor,
           \/ \E k \in Key : BeginGraph(a, k) \/ BeginQr(a, k)
           \/ \E r \in Profile : UpgradeGraph(a, r)
           \/ BeginAzureDevOps(a)
    PROVE  LinkInv'
  <1> USE DEF LinkInv
  <1>1. linking' = Ended(a) /\ UNCHANGED <<profiles, made>>
    BY DEF BeginGraph, BeginQr, UpgradeGraph, BeginAzureDevOps
  <1>2. Linking(linking')
    BY <1>1, EndedLinking
  <1>3. session' \subseteq [owner : Actor, ref : Named, provider : ActorBound]
    <2>1. CASE \E k \in Key : BeginGraph(a, k)
      BY <2>1 DEF BeginGraph, ProviderProfileRef, LinkTypes, Named, ActorBound
    <2>2. CASE \E k \in Key : BeginQr(a, k)
      BY <2>2 DEF BeginQr, LinkTypes
    <2>3. CASE \E r \in Profile : UpgradeGraph(a, r)
      <3>1. PICK r \in Profile : UpgradeGraph(a, r)
        BY <2>3
      <3>2. r \in Named
        BY <3>1 DEF UpgradeGraph, OwnedRow, VisibleTo, RowsMade, LinkTypes
      <3> QED
        BY <3>1, <3>2 DEF UpgradeGraph, LinkTypes, ActorBound
    <2>4. CASE BeginAzureDevOps(a)
      BY <2>4 DEF BeginAzureDevOps, LinkTypes, Named, ActorBound
    <2> QED
      BY <2>1, <2>2, <2>3, <2>4
  <1>4. flow' \in [Actor \X Key -> [state : QrState, ref : Named] \cup {Nothing}]
    <2>1. CASE \E k \in Key : BeginQr(a, k)
      <3>1. PICK k \in Key : BeginQr(a, k)
        BY <2>1
      <3>2. [state |-> "PENDING", ref |-> ProviderProfileRef(a, k)] \in [state : QrState, ref : Named]
        BY DEF ProviderProfileRef, Named, QrState
      <3> QED
        BY <3>1, <3>2 DEF BeginQr, LinkTypes
    <2>2. CASE UNCHANGED flow
      BY <2>2 DEF LinkTypes
    <2> QED
      BY <2>1, <2>2 DEF BeginGraph, UpgradeGraph, BeginAzureDevOps
  <1> QED
    BY <1>1, <1>2, <1>3, <1>4 DEF LinkTypes, RowsMade

\* A rotation is of a listed profile, which the actor still sees.
LEMMA RotateInv ==
    ASSUME LinkInv, NEW a \in Actor, Rotate(a) \/ \E r \in Profile : RotateList(a, r)
    PROVE  LinkInv'
  <1> USE DEF LinkInv
  <1>1. CASE \E r \in Profile : RotateList(a, r)
    <2>1. PICK r \in Profile : RotateList(a, r)
      BY <1>1
    <2>2. Request(a, "listed", r, "huggingface") \in LinkRequest
      BY HoldsBoolean DEF Request, LinkRequest, LinkProvider
    <2>3. Linking(linking')
      BY <2>1, <2>2 DEF RotateList, Linking, Request
    <2> QED
      BY <2>1, <2>3 DEF RotateList, LinkTypes, RowsMade
  <1>2. CASE Rotate(a) /\ UNCHANGED profiles /\ linking' = Ended(a)
    BY <1>2, EndedLinking DEF Rotate, LinkTypes, RowsMade
  <1>3. CASE Rotate(a) /\ ~(UNCHANGED profiles /\ linking' = Ended(a))
    <2> DEFINE r == linking[a].ref
    <2>1. /\ linking[a].pc = "listed" /\ OwnedRow(a, r, "huggingface") # Nothing
          /\ profiles' = [profiles EXCEPT ![r].status = "healthy"]
          /\ LinkAnswer(a, r, "huggingface")
          /\ UNCHANGED <<session, flow, made>>
      BY <1>3 DEF Rotate
    <2>2. r \in Profile
      BY <2>1 DEF Linking, LinkRequest, NoRequest
    <2>3. profiles[r] \in Row /\ VisibleTo(a, r) /\ profiles[r].provider = "huggingface"
      BY <2>1, <2>2 DEF OwnedRow, VisibleTo, LinkTypes
    <2>4. /\ profiles' \in [Profile -> Row \cup {Nothing}]
          /\ profiles'[r].owner = profiles[r].owner /\ profiles'[r].mode = profiles[r].mode
          /\ profiles'[r].provider = "huggingface" /\ profiles'[r] \in Row
      BY <2>1, <2>2, <2>3 DEF LinkTypes, Row, AuthStatus
    <2>5. RowsMade'
      BY <2>1, <2>2, <2>3, <2>4 DEF RowsMade, VisibleTo, LinkTypes
    <2>6. PICK q : q = r
      OBVIOUS
    <2>7. Holds(a, q, "huggingface", profiles')
      BY <2>3, <2>4, <2>6, ProfileAssumption DEF Holds, VisibleTo, ActorBound
    <2>8. Linking(Show(a, q, "huggingface")) /\ Linking(Ended(a))
      BY <2>2, <2>6, <2>7, Shown, EndedLinking DEF LinkProvider
    <2>9. Linking(linking')
      BY <2>1, <2>6, <2>8, Noticed DEF LinkAnswer
    <2> QED
      BY <2>1, <2>4, <2>5, <2>9 DEF LinkTypes
  <1> QED
    BY <1>1, <1>2, <1>3

\* A QR login is shown as Account Center has it.
LEMMA QrInv ==
    ASSUME LinkInv, NEW a \in Actor, QrReadBack(a) \/ \E x \in Actor \X Key : PollQr(a, x)
    PROVE  LinkInv'
  <1> USE DEF LinkInv
  <1>1. UNCHANGED <<profiles, session, flow, made>>
    BY DEF QrReadBack, PollQr
  <1>2. CASE \E x \in Actor \X Key : PollQr(a, x)
    <2>1. PICK x \in Actor \X Key : PollQr(a, x)
      BY <1>2
    <2>2. CASE linking' = [linking EXCEPT ![a] = NoRequest]
      BY <1>1, <2>2, EndedLinking DEF Ended, LinkTypes, RowsMade
    <2>3. CASE linking' = [linking EXCEPT ![a] = Request(a, "answered", flow[x].ref, "bilibili")]
      <3>1. flow[x].ref \in Profile
        BY <2>1, NamedProfiles DEF PollQr, LinkTypes
      <3>2. Request(a, "answered", flow[x].ref, "bilibili") \in LinkRequest
        BY <3>1, HoldsBoolean DEF Request, LinkRequest, LinkProvider, ActorBound
      <3>3. Linking(linking')
        BY <2>3, <3>2 DEF Linking, Request
      <3> QED
        BY <1>1, <3>3 DEF LinkTypes, RowsMade
    <2> QED
      BY <2>1, <2>2, <2>3 DEF PollQr
  <1>3. CASE QrReadBack(a)
    <2>1. CASE linking' = Ended(a)
      BY <1>1, <2>1, EndedLinking DEF LinkTypes, RowsMade
    <2>2. CASE linking' # Ended(a)
      <3>1. PICK r : /\ r = linking[a].ref /\ linking[a].pc = "answered"
                     /\ OwnedRow(a, r, "bilibili") # Nothing /\ OwnedRow(a, r, "bilibili").status = "healthy"
                     /\ linking' = Show(a, r, "bilibili")
        BY <1>3, <2>2 DEF QrReadBack
      <3>2. r \in Profile
        BY <3>1 DEF Linking, LinkRequest, NoRequest
      <3>3. VisibleTo(a, r) /\ profiles[r].provider = "bilibili" /\ profiles[r].status = "healthy"
        BY <3>1 DEF OwnedRow
      <3>4. profiles[r].owner = a
        BY <3>2, <3>3 DEF RowsMade, VisibleTo, ActorBound
      <3>5. Holds(a, r, "bilibili", profiles')
        BY <1>1, <3>3, <3>4 DEF Holds, VisibleTo
      <3>6. Linking(linking')
        BY <3>1, <3>2, <3>5, Shown DEF LinkProvider, ActorBound
      <3> QED
        BY <1>1, <3>6 DEF LinkTypes, RowsMade
    <2> QED
      BY <2>1, <2>2
  <1> QED
    BY <1>2, <1>3

\* What happens beside the requests: logins end, accounts change.
LEMMA QrMovesInv ==
    ASSUME LinkInv, NEW a \in Actor, NEW k \in Key, NEW to \in QrState, QrMoves(a, k, to)
    PROVE  LinkInv'
  <1> USE DEF LinkInv
  <1>1. PICK x, f : /\ x = <<a, k>> /\ f = flow[x] /\ f # Nothing /\ session' = session
                    /\ linking' = Noticing(linking) /\ flow' = [flow EXCEPT ![x].state = to]
                    /\ (LinkRow(a, f.ref, "bilibili", "healthy") \/ UNCHANGED <<profiles, made>>)
    BY DEF QrMoves
  <1>2. f \in [state : QrState, ref : Named]
    BY <1>1 DEF LinkTypes
  <1>3. flow' \in [Actor \X Key -> [state : QrState, ref : Named] \cup {Nothing}]
    BY <1>1, <1>2 DEF LinkTypes
  <1>4. profiles' \in [Profile -> Row \cup {Nothing}] /\ made' \subseteq Named /\ RowsMade'
    <2>1. CASE LinkRow(a, f.ref, "bilibili", "healthy")
      BY <1>2, <2>1, LinkedRow DEF AuthStatus, LinkProvider, ActorBound
    <2>2. CASE UNCHANGED <<profiles, made>>
      BY <2>2 DEF LinkTypes, RowsMade
    <2> QED
      BY <1>1, <2>1, <2>2
  <1>5. Linking(linking')
    BY <1>1, Noticed
  <1> QED
    BY <1>1, <1>3, <1>4, <1>5 DEF LinkTypes

LEMMA CompleteOAuthInv ==
    ASSUME LinkInv, NEW s \in session, CompleteOAuth(s)
    PROVE  LinkInv'
  <1> USE DEF LinkInv
  <1>1. s.owner \in Actor /\ s.ref \in Named /\ s.provider \in LinkProvider
    BY NamedProfiles DEF LinkTypes
  <1>2. profiles' \in [Profile -> Row \cup {Nothing}] /\ made' \subseteq Named /\ RowsMade'
    <2>1. CASE LinkRow(s.owner, s.ref, s.provider, "healthy")
      BY <1>1, <2>1, LinkedRow DEF AuthStatus
    <2>2. CASE UNCHANGED <<profiles, made>>
      BY <2>2 DEF LinkTypes, RowsMade
    <2> QED
      BY <2>1, <2>2 DEF CompleteOAuth
  <1>3. Linking(linking')
    BY Noticed DEF CompleteOAuth
  <1> QED
    BY <1>2, <1>3 DEF LinkTypes, CompleteOAuth

LEMMA AccountChangesInv ==
    ASSUME LinkInv, NEW r \in Profile, AccountChanges(r)
    PROVE  LinkInv'
  <1> USE DEF LinkInv
  <1>1. profiles[r] # Nothing /\ profiles[r] \in Row
    BY DEF AccountChanges, LinkTypes
  <1>2. profiles' \in [Profile -> Row \cup {Nothing}] /\ RowsMade'
    <2>1. CASE profiles' = [profiles EXCEPT ![r] = Nothing]
      BY <2>1 DEF AccountChanges, LinkTypes, RowsMade
    <2>2. CASE \E t \in {"healthy", "revoked"} : profiles' = [profiles EXCEPT ![r].status = t]
      <3>1. PICK row : row = profiles'[r] /\ profiles' = [profiles EXCEPT ![r] = row]
                         /\ row \in Row /\ row.provider = profiles[r].provider /\ row.mode = profiles[r].mode
        BY <1>1, <2>2 DEF LinkTypes, Row, AuthStatus
      <3> QED
        BY <1>1, <3>1 DEF AccountChanges, LinkTypes, RowsMade
    <2>3. CASE /\ profiles[r].provider \notin ActorBound
               /\ \E m \in AccessMode : profiles' = [profiles EXCEPT ![r].mode = m]
      <3>1. PICK row : row = profiles'[r] /\ profiles' = [profiles EXCEPT ![r] = row]
                         /\ row \in Row /\ row.provider = profiles[r].provider
        BY <1>1, <2>3 DEF LinkTypes, Row
      <3> QED
        BY <1>1, <2>3, <3>1 DEF AccountChanges, LinkTypes, RowsMade
    <2> QED
      BY <2>1, <2>2, <2>3 DEF AccountChanges
  <1>3. Linking(linking')
    BY Noticed DEF AccountChanges
  <1> QED
    BY <1>2, <1>3 DEF LinkTypes, AccountChanges

\* What holds of linking (LinkInv): every row was made under a reference
\* derived from its actor and key, or the host's, and nothing is shown that
\* was not held.
THEOREM LinkInvariant == LinkSpec => []LinkInv
  <1>1. profiles = [r \in Profile |-> Nothing] /\ LinkInit => LinkInv
    BY DEF LinkInit, LinkInv, LinkTypes, RowsMade, Linking, LinkRequest, NoRequest
  <1>2. LinkInv /\ [LinkNext]_linkVars => LinkInv'
    <2> SUFFICES ASSUME LinkInv, [LinkNext]_linkVars
                 PROVE  LinkInv'
      OBVIOUS
    <2>1. CASE \E a \in Actor : LinkStep(a)
      BY <2>1, DirectLinkInv, BeginInv, RotateInv, QrInv DEF LinkStep
    <2>2. CASE \E a \in Actor, k \in Key, to \in QrState : QrMoves(a, k, to)
      BY <2>2, QrMovesInv
    <2>3. CASE \E s \in session : CompleteOAuth(s)
      BY <2>3, CompleteOAuthInv
    <2>4. CASE \E r \in Profile : AccountChanges(r)
      BY <2>4, AccountChangesInv
    <2>5. CASE UNCHANGED linkVars
      BY <2>5 DEF linkVars, LinkInv, LinkTypes, RowsMade
    <2> QED
      BY <2>1, <2>2, <2>3, <2>4, <2>5 DEF LinkNext
  <1> QED
    BY <1>1, <1>2, PTL DEF LinkSpec

\* However often a link request is repeated, one actor's key makes one profile
\* and no second one beside it.
THEOREM LinksOneProfilePerKey == LinkSpec => []OneProfilePerKey
  <1>1. LinkInv => OneProfilePerKey
    <2> SUFFICES ASSUME LinkInv, NEW a \in Actor, NEW k \in Key
                 PROVE  Cardinality({r \in made \ {SourceRef} : r[1] = a /\ r[2] = k}) <= 1
      BY DEF OneProfilePerKey
    <2> DEFINE S == {r \in made \ {SourceRef} : r[1] = a /\ r[2] = k}
    <2>1. S \subseteq {<<a, k, "same">>}
      BY DEF LinkInv, LinkTypes, Named
    <2>2. S = {} \/ S = {<<a, k, "same">>}
      BY <2>1
    <2>3. Cardinality({}) = 0 /\ Cardinality({<<a, k, "same">>}) = 1
      BY FS_EmptySet, FS_Singleton
    <2> HIDE DEF S
    <2>4. Cardinality(S) <= 1
      BY <2>2, <2>3
    <2> QED
      BY <2>4 DEF S
  <1> QED
    BY <1>1, LinkInvariant, PTL

\* A profile is shown to an actor as linked only if it was that actor's, or
\* rightly shared, at some moment of the request.
THEOREM LinksLinkedIsOwned == LinkSpec => []LinkedIsOwned
  <1>1. LinkInv => LinkedIsOwned
    BY DEF LinkInv, Linking, LinkedIsOwned
  <1> QED
    BY <1>1, LinkInvariant, PTL

-----------------------------------------------------------------------------
(* Connections.                                                             *)

Sign == AccessMode \cup {"usable"}
Connecting ==
    [pc : {"asked", "named", "moded"}, actor : Actor, key : RequestKey, ref : Profile,
     provider : ListedAccount, mode : AccessMode \cup {Nothing}, signs : SUBSET Sign]
Registering ==
    [pc : {"stored", "absent", "registered"}, actor : Actor, key : RequestKey, ref : Profile,
     provider : {"cloud"}, mode : AccessMode, signs : SUBSET Sign]
Attaching == [pc : {"attaching", "validated"}, actor : Actor, link : Link, delegation : Delegation]
ConnRow ==
    [provider : ListedAccount \cup {"cloud"}, ref : Profile \cup {Nothing},
     mode : AccessMode \cup {Nothing}, backed : BOOLEAN]

ConnectionTypes ==
    /\ profiles \in [Profile -> Row \cup {Nothing}]
    /\ conns \in [ConnectionKey -> ConnRow \cup {Nothing}]
    /\ handler \in {Quiet} \cup Connecting \cup Registering \cup Attaching
    /\ links \in [Link -> [owner : Actor, active : BOOLEAN]]
    /\ delegations \in [Delegation -> [owner : Actor, state : {"active", "foreign", "revoked"}]]
    /\ attached \in [Actor -> [link : Link, delegation : Delegation] \cup {Nothing}]

\* What the handler of a connection has seen so far: all the account shows now,
\* and what its two listings have told it.
ListingsSeen ==
    handler.pc \in {"asked", "named", "moded"} =>
        /\ Evidence(handler, profiles) \subseteq handler.signs
        /\ handler.pc # "asked" => "usable" \in handler.signs
        /\ handler.pc # "asked" /\ handler.provider = "bilibili" => "actor_owned" \in handler.signs
        /\ handler.pc = "moded" => handler.mode \in handler.signs \cap AccessMode

\* What the handler of a member's binding has checked.
AuthoritySeen ==
    handler.pc \in {"attaching", "validated"} =>
        /\ links[handler.link].owner = handler.actor
        /\ handler.pc = "validated" =>
              /\ delegations[handler.delegation].owner = handler.actor
              /\ delegations[handler.delegation].state # "foreign"

ConnectionInv == ConnectionTypes /\ ListingsSeen /\ AuthoritySeen /\ ConnectionsBacked

\* Which handler it is, by its program counter.
LEMMA HandlerKinds ==
    ASSUME ConnectionTypes
    PROVE  /\ handler.pc = "idle" => handler = Quiet
           /\ handler.pc \in {"asked", "named", "moded"} => handler \in Connecting
           /\ handler.pc \in {"stored", "absent", "registered"} => handler \in Registering
           /\ handler.pc \in {"attaching", "validated"} => handler \in Attaching
  BY DEF ConnectionTypes, Quiet, Connecting, Registering, Attaching

\* What a listing of the handler's account shows is part of the evidence.
LEMMA ListedEvidence ==
    ASSUME NEW h, NEW a, a = h.actor, OwnedRow(a, h.ref, h.provider) # Nothing
    PROVE  LET row == OwnedRow(a, h.ref, h.provider)
           IN  /\ row.mode \in Evidence(h, profiles)
               /\ row.status \in {"healthy", "configured"} /\ "inside" \in row.scope =>
                     "usable" \in Evidence(h, profiles)
  BY DEF OwnedRow, VisibleTo, Evidence

LEMMA EvidenceSigns ==
    ASSUME NEW rows \in [Profile -> Row \cup {Nothing}], NEW h, h.ref \in Profile
    PROVE  Evidence(h, rows) \subseteq Sign
  BY DEF Evidence, Sign, Row

\* The steps that end the request and store nothing.
LEMMA AnsweredConnectionInv ==
    ASSUME ConnectionInv, Answered, UNCHANGED <<conns, links, delegations, attached>>,
           profiles' \in [Profile -> Row \cup {Nothing}]
    PROVE  ConnectionInv'
  <1>1. handler' = Quiet /\ handler'.pc = "idle"
    BY DEF Answered, Quiet
  <1>2. ConnectionTypes'
    BY <1>1 DEF ConnectionInv, ConnectionTypes
  <1> QED
    BY <1>1, <1>2 DEF ConnectionInv, ListingsSeen, AuthoritySeen, ConnectionsBacked,
                      ConnectionHadProfile, BindingHadAuthority

\* A step of the handler alone that goes on.
LEMMA ProceedsInv ==
    ASSUME ConnectionInv, UNCHANGED <<profiles, conns, links, delegations, attached>>,
           handler' \in {Quiet} \cup Connecting \cup Registering \cup Attaching,
           ListingsSeen', AuthoritySeen'
    PROVE  ConnectionInv'
  BY DEF ConnectionInv, ConnectionTypes, ConnectionsBacked, ConnectionHadProfile, BindingHadAuthority

LEMMA ConnectInv ==
    ASSUME ConnectionInv, NEW a \in Actor, NEW k \in RequestKey, NEW r \in Profile, NEW p \in ListedAccount,
           CreateConnection(a, k, r, p)
    PROVE  ConnectionInv'
  <1> DEFINE h == [pc |-> "asked", actor |-> a, key |-> k, ref |-> r, provider |-> p,
                   mode |-> Nothing, signs |-> {}]
  <1>1. PICK e : e = Evidence(h, profiles)
    OBVIOUS
  <1>2. handler' = [h EXCEPT !.signs = e] /\ UNCHANGED <<profiles, conns, links, delegations, attached>>
    BY <1>1 DEF CreateConnection, Others
  <1>3. e \subseteq Sign
    BY <1>1, EvidenceSigns DEF ConnectionInv, ConnectionTypes
  <1>4. handler' \in Connecting
    BY <1>2, <1>3 DEF Connecting
  <1>5. Evidence(handler', profiles') = e
    BY <1>1, <1>2 DEF Evidence
  <1>6. ListingsSeen' /\ AuthoritySeen'
    BY <1>2, <1>5 DEF ListingsSeen, AuthoritySeen
  <1> QED
    BY <1>2, <1>4, <1>6, ProceedsInv

\* The two listings.
LEMMA ListingInv ==
    ASSUME ConnectionInv, NameConnection \/ ModeConnection
    PROVE  ConnectionInv'
  <1> USE DEF ConnectionInv
  <1>1. handler.pc \in {"asked", "named"} /\ UNCHANGED <<profiles, conns, links, delegations, attached>>
    BY DEF NameConnection, ModeConnection, Working, Others
  <1>2. handler \in Connecting /\ Evidence(handler, profiles) \subseteq handler.signs
    BY <1>1, HandlerKinds DEF ListingsSeen
  <1> DEFINE row == OwnedRow(handler.actor, handler.ref, handler.provider)
  <1>3. row # Nothing => row.mode \in handler.signs
    BY <1>2, ListedEvidence
  <1>4. row # Nothing => row.mode \in AccessMode
    BY <1>2 DEF OwnedRow, ConnectionTypes, Connecting, Row
  <1>5. CASE Answered
    BY <1>1, <1>5, AnsweredConnectionInv DEF ConnectionTypes
  <1>6. CASE NameConnection /\ ~Answered
    <2>1. handler.pc = "asked" /\ DisplayName /\ handler' = [handler EXCEPT !.pc = "named"]
      BY <1>6 DEF NameConnection, Working, Proceed
    <2>2. /\ handler' \in Connecting /\ handler'.pc = "named" /\ handler'.signs = handler.signs
          /\ handler'.provider = handler.provider /\ handler'.ref = handler.ref /\ handler'.actor = handler.actor
      BY <1>2, <2>1 DEF Connecting
    <2>3. "usable" \in handler.signs
      BY <1>2, <2>1, ListedEvidence DEF DisplayName
    <2>4. handler.provider = "bilibili" => "actor_owned" \in handler.signs
      BY <1>3, <2>1 DEF DisplayName
    <2>5. Evidence(handler', profiles') = Evidence(handler, profiles)
      BY <1>1, <2>2 DEF Evidence
    <2>6. ListingsSeen' /\ AuthoritySeen'
      BY <1>2, <2>2, <2>3, <2>4, <2>5 DEF ListingsSeen, AuthoritySeen
    <2> QED
      BY <1>1, <2>2, <2>6, ProceedsInv
  <1>7. CASE ModeConnection /\ ~Answered
    <2>1. PICK m \in AccessModes : handler.pc = "named" /\ handler' = [handler EXCEPT !.pc = "moded", !.mode = m]
      BY <1>7 DEF ModeConnection, Working
    <2>2. m \in AccessMode /\ m \in handler.signs
      <3>1. CASE handler.provider = "bilibili"
        BY <2>1, <3>1 DEF AccessModes, AccessMode, ListingsSeen
      <3>2. CASE handler.provider \in {"microsoft_graph", "azure_devops"}
        <4>1. row # Nothing /\ m = row.mode
          BY <2>1, <3>2 DEF AccessModes, DisplayName
        <4> QED
          BY <1>3, <1>4, <4>1
      <3>3. CASE handler.provider \notin {"bilibili", "microsoft_graph", "azure_devops"}
        <4>1. row # Nothing /\ m = row.mode
          BY <2>1, <3>3 DEF AccessModes
        <4> QED
          BY <1>3, <1>4, <4>1
      <3> QED
        BY <3>1, <3>2, <3>3
    <2>3. /\ handler' \in Connecting /\ handler'.pc = "moded" /\ handler'.signs = handler.signs /\ handler'.mode = m
          /\ handler'.provider = handler.provider /\ handler'.ref = handler.ref /\ handler'.actor = handler.actor
      BY <1>2, <2>1, <2>2 DEF Connecting
    <2>4. Evidence(handler', profiles') = Evidence(handler, profiles)
      BY <1>1, <2>3 DEF Evidence
    <2>5. ListingsSeen' /\ AuthoritySeen'
      BY <1>2, <2>1, <2>2, <2>3, <2>4 DEF ListingsSeen, AuthoritySeen
    <2> QED
      BY <1>1, <2>3, <2>5, ProceedsInv
  <1> QED
    BY <1>5, <1>6, <1>7

\* Storing a connection for a handler that is entitled to it.
LEMMA StoredInv ==
    ASSUME ConnectionTypes, ConnectionHadProfile, NEW h, Stored(h), h.actor \in Actor, h.key \in RequestKey,
           h.provider \in ListedAccount \cup {"cloud"}, h.ref \in Profile \cup {Nothing}, h.mode \in AccessMode,
           h.provider # "cloud" /\ h.ref # Nothing => {"usable", h.mode} \subseteq h.signs
    PROVE  conns' \in [ConnectionKey -> ConnRow \cup {Nothing}] /\ ConnectionHadProfile'
  <1> DEFINE new == [provider |-> h.provider, ref |-> h.ref, mode |-> h.mode,
                     backed |-> {"usable", h.mode} \subseteq h.signs]
  <1>1. PICK x, row : x = <<h.actor, h.key>> /\ row = new
    OBVIOUS
  <1>2. x \in ConnectionKey /\ row \in ConnRow
    BY <1>1 DEF ConnectionKey, ConnRow
  <1>3. row.provider # "cloud" /\ row.ref # Nothing => row.backed
    BY <1>1
  <1>4. conns' = IF conns[x] = Nothing THEN [conns EXCEPT ![x] = row] ELSE conns
    BY <1>1 DEF Stored
  <1> QED
    BY <1>2, <1>3, <1>4 DEF ConnectionTypes, ConnectionHadProfile

LEMMA StoreConnectionInv ==
    ASSUME ConnectionInv, StoreConnection
    PROVE  ConnectionInv'
  <1> USE DEF ConnectionInv
  <1>1. handler.pc = "moded" /\ Answered /\ UNCHANGED <<profiles, links, delegations, attached>>
    BY DEF StoreConnection, Working, Others
  <1>2. handler' = Quiet /\ handler'.pc = "idle"
    BY <1>1 DEF Answered, Quiet
  <1>3. conns' \in [ConnectionKey -> ConnRow \cup {Nothing}] /\ ConnectionHadProfile'
    <2>1. CASE Stored(handler)
      <3>1. /\ handler.actor \in Actor /\ handler.key \in RequestKey /\ handler.provider \in ListedAccount
            /\ handler.ref \in Profile
        BY <1>1, HandlerKinds DEF Connecting
      <3>2. {"usable", handler.mode} \subseteq handler.signs
        BY <1>1 DEF ListingsSeen
      <3>3. handler.mode \in AccessMode
        BY <1>1 DEF ListingsSeen
      <3> QED
        BY <2>1, <3>1, <3>2, <3>3, StoredInv DEF ConnectionsBacked
    <2>2. CASE UNCHANGED conns
      BY <2>2 DEF ConnectionTypes, ConnectionsBacked, ConnectionHadProfile
    <2> QED
      BY <2>1, <2>2 DEF StoreConnection
  <1>4. ConnectionTypes'
    BY <1>1, <1>2, <1>3 DEF ConnectionTypes
  <1> QED
    BY <1>1, <1>2, <1>3, <1>4 DEF ListingsSeen, AuthoritySeen, ConnectionsBacked, BindingHadAuthority

\* A connection without an account, and a cloud connection.
LEMMA UnlinkedInv ==
    ASSUME ConnectionInv, NEW a \in Actor, NEW k \in RequestKey,
           CreateUnlinked(a, k) \/ \E m \in AccessMode : StoreCloud(a, k, m)
    PROVE  ConnectionInv'
  <1> USE DEF ConnectionInv
  <1>1. handler.pc = "idle" /\ UNCHANGED <<profiles, links, delegations, attached>>
    BY DEF CreateUnlinked, StoreCloud, Working, Others
  <1>2. CASE CreateUnlinked(a, k)
    <2> DEFINE h == [actor |-> a, key |-> k, ref |-> Nothing, provider |-> "github",
                     mode |-> "actor_owned", signs |-> {}]
    <2>1. Stored(h) /\ handler' = handler
      BY <1>2 DEF CreateUnlinked
    <2>2. PICK g : g = h
      OBVIOUS
    <2>3. conns' \in [ConnectionKey -> ConnRow \cup {Nothing}] /\ ConnectionHadProfile'
      <3>1. /\ g.actor \in Actor /\ g.key \in RequestKey /\ g.provider \in ListedAccount
            /\ g.ref = Nothing /\ g.mode \in AccessMode /\ Stored(g)
        BY <2>1, <2>2 DEF ListedAccount, AccessMode
      <3> QED
        BY <3>1, StoredInv DEF ConnectionsBacked
    <2> QED
      BY <1>1, <2>1, <2>3 DEF ConnectionTypes, ListingsSeen, AuthoritySeen, ConnectionsBacked, BindingHadAuthority
  <1>3. CASE \E m \in AccessMode : StoreCloud(a, k, m)
    <2>1. PICK m \in AccessMode : StoreCloud(a, k, m)
      BY <1>3
    <2>2. PICK h : h = CloudHandler(a, k, m) /\ Stored(h) /\ handler' = h
      BY <2>1 DEF StoreCloud
    <2>3. CloudProfileRef(a, m) \in Profile
      BY CloudRefs DEF CloudProfileRef
    <2>4. /\ h \in Registering /\ h.pc = "stored" /\ h.provider = "cloud" /\ h.ref \in Profile
          /\ h.actor \in Actor /\ h.key \in RequestKey /\ h.mode \in AccessMode
      BY <2>2, <2>3 DEF CloudHandler, Registering, Sign
    <2>5. conns' \in [ConnectionKey -> ConnRow \cup {Nothing}] /\ ConnectionHadProfile'
      BY <2>2, <2>4, StoredInv DEF ConnectionsBacked
    <2> QED
      BY <1>1, <2>2, <2>4, <2>5 DEF ConnectionTypes, ListingsSeen, AuthoritySeen, ConnectionsBacked, BindingHadAuthority
  <1> QED
    BY <1>2, <1>3

\* The registration of a cloud account.
LEMMA RegistrationInv ==
    ASSUME ConnectionInv, ReadIdentity \/ RegisterIdentity \/ ReadBackIdentity
    PROVE  ConnectionInv'
  <1> USE DEF ConnectionInv
  <1>1. /\ handler.pc \in {"stored", "absent", "registered"} /\ UNCHANGED <<conns, links, delegations, attached>>
        /\ handler \in Registering
    BY HandlerKinds DEF ReadIdentity, RegisterIdentity, ReadBackIdentity, Working, Others
  <1>2. profiles' \in [Profile -> Row \cup {Nothing}]
    <2>1. CASE UNCHANGED profiles
      BY <2>1 DEF ConnectionTypes
    <2>2. CASE ~UNCHANGED profiles
      <3> DEFINE row == [owner |-> handler.actor, provider |-> "cloud", mode |-> handler.mode,
                         status |-> "unknown", scope |-> HostScope, expired |-> FALSE]
      <3>1. profiles' = [profiles EXCEPT ![handler.ref] = row]
        BY <2>2 DEF ReadIdentity, RegisterIdentity, ReadBackIdentity
      <3>2. row \in Row
        <4>1. HostScope \in SUBSET Target /\ "cloud" \in AccountProvider /\ "unknown" \in AuthStatus
          BY DEF HostScope, Target, AccountProvider, AuthStatus
        <4> QED
          BY <1>1, <4>1 DEF Row, Registering
      <3> QED
        BY <1>1, <3>1, <3>2 DEF ConnectionTypes, Registering
    <2> QED
      BY <2>1, <2>2
  <1>3. CASE Answered
    BY <1>1, <1>2, <1>3, AnsweredConnectionInv
  <1>4. CASE ~Answered
    <2>1. PICK pc \in {"absent", "registered"} : handler' = [handler EXCEPT !.pc = pc]
      BY <1>4 DEF ReadIdentity, RegisterIdentity, ReadBackIdentity, Proceed
    <2>2. handler' \in Registering /\ handler'.pc = pc
      BY <1>1, <2>1 DEF Registering
    <2>3. ConnectionTypes'
      BY <1>1, <1>2, <2>2 DEF ConnectionTypes
    <2> QED
      BY <1>1, <2>2, <2>3 DEF ListingsSeen, AuthoritySeen, ConnectionsBacked, ConnectionHadProfile, BindingHadAuthority
  <1> QED
    BY <1>3, <1>4

\* A member's binding: the link is listed, the delegation validated, and the
\* binding stored.
LEMMA AttachInv ==
    ASSUME ConnectionInv,
           \/ \E a \in Actor, l \in Link, d \in Delegation : AttachLink(a, l, d)
           \/ ValidateDelegation
    PROVE  ConnectionInv'
  <1> USE DEF ConnectionInv
  <1>1. UNCHANGED <<profiles, conns, links, delegations, attached>>
    BY DEF AttachLink, ValidateDelegation, Others
  <1>2. CASE Answered
    BY <1>1, <1>2, AnsweredConnectionInv DEF ConnectionTypes
  <1>3. CASE \E a \in Actor, l \in Link, d \in Delegation : AttachLink(a, l, d)
    <2>1. PICK a \in Actor, l \in Link, d \in Delegation :
             /\ links[l].owner = a
             /\ handler' = [pc |-> "attaching", actor |-> a, link |-> l, delegation |-> d]
      BY <1>3 DEF AttachLink
    <2>2. handler' \in Attaching
      BY <2>1 DEF Attaching
    <2>3. ListingsSeen' /\ AuthoritySeen'
      BY <1>1, <2>1 DEF ListingsSeen, AuthoritySeen
    <2> QED
      BY <1>1, <2>2, <2>3, ProceedsInv
  <1>4. CASE ValidateDelegation /\ ~Answered
    <2>1. /\ handler.pc = "attaching" /\ ValidBinding(handler.actor, handler.delegation)
          /\ handler' = [handler EXCEPT !.pc = "validated"] /\ handler \in Attaching
      BY <1>4, HandlerKinds DEF ValidateDelegation, Working, Proceed
    <2>2. /\ handler' \in Attaching /\ handler'.pc = "validated" /\ handler'.actor = handler.actor
          /\ handler'.link = handler.link /\ handler'.delegation = handler.delegation
      BY <2>1 DEF Attaching
    <2>3. ListingsSeen' /\ AuthoritySeen'
      BY <1>1, <2>1, <2>2 DEF ListingsSeen, AuthoritySeen, ValidBinding
    <2> QED
      BY <1>1, <2>2, <2>3, ProceedsInv
  <1> QED
    BY <1>2, <1>3, <1>4

LEMMA StoreActorBindingInv ==
    ASSUME ConnectionInv, StoreActorBinding
    PROVE  ConnectionInv'
  <1> USE DEF ConnectionInv
  <1>1. handler.pc = "validated" /\ UNCHANGED <<profiles, conns, links, delegations>>
    BY DEF StoreActorBinding, Working
  <1>2. handler' = Quiet /\ handler'.pc = "idle"
    BY DEF StoreActorBinding, Answered, Quiet
  <1>3. PICK a, l, d : a = handler.actor /\ l = handler.link /\ d = handler.delegation
    OBVIOUS
  <1>4. a \in Actor /\ l \in Link /\ d \in Delegation
    BY <1>1, <1>3, HandlerKinds DEF Attaching
  <1>5. links[l].owner = a /\ delegations[d].owner = a /\ delegations[d].state # "foreign"
    BY <1>1, <1>3 DEF AuthoritySeen
  <1>6. attached' = IF attached[a] # Nothing THEN attached
                    ELSE [attached EXCEPT ![a] = [link |-> l, delegation |-> d]]
    BY <1>3 DEF StoreActorBinding
  <1>7. ConnectionTypes'
    BY <1>1, <1>2, <1>4, <1>6 DEF ConnectionTypes
  <1>8. BindingHadAuthority'
    BY <1>1, <1>4, <1>5, <1>6 DEF BindingHadAuthority, ConnectionsBacked, ConnectionTypes
  <1> QED
    BY <1>1, <1>2, <1>7, <1>8 DEF ListingsSeen, AuthoritySeen, ConnectionsBacked, ConnectionHadProfile

\* The account moves on under a handler that remembers what it shows.
LEMMA RowChangesInv ==
    ASSUME ConnectionInv, NEW r \in Profile, RowChanges(r)
    PROVE  ConnectionInv'
  <1> USE DEF ConnectionInv
  <1>1. UNCHANGED <<conns, links, delegations, attached>>
    BY DEF RowChanges, Others
  <1>2. profiles' \in [Profile -> Row \cup {Nothing}]
    <2>1. profiles[r] \in Row
      BY DEF RowChanges, ConnectionTypes
    <2>2. ASSUME NEW row \in Row, profiles' = [profiles EXCEPT ![r] = row]
          PROVE  profiles' \in [Profile -> Row \cup {Nothing}]
      BY <2>2 DEF ConnectionTypes
    <2>3. ASSUME NEW s \in {"healthy", "configured", "revoked"},
                 profiles' = [profiles EXCEPT ![r].status = s]
          PROVE  profiles' \in [Profile -> Row \cup {Nothing}]
      <3>1. [profiles[r] EXCEPT !.status = s] \in Row
        BY <2>1 DEF Row, AuthStatus
      <3>2. profiles' = [profiles EXCEPT ![r] = [profiles[r] EXCEPT !.status = s]]
        BY <2>3
      <3> QED
        BY <2>2, <3>1, <3>2
    <2>4. ASSUME NEW t \in {{"inside"}, {"outside"}}, profiles' = [profiles EXCEPT ![r].scope = t]
          PROVE  profiles' \in [Profile -> Row \cup {Nothing}]
      <3>1. [profiles[r] EXCEPT !.scope = t] \in Row
        BY <2>1 DEF Row, Target
      <3>2. profiles' = [profiles EXCEPT ![r] = [profiles[r] EXCEPT !.scope = t]]
        BY <2>4
      <3> QED
        BY <2>2, <3>1, <3>2
    <2>5. ASSUME NEW m \in AccessMode, profiles' = [profiles EXCEPT ![r].mode = m]
          PROVE  profiles' \in [Profile -> Row \cup {Nothing}]
      <3>1. [profiles[r] EXCEPT !.mode = m] \in Row
        BY <2>1 DEF Row
      <3>2. profiles' = [profiles EXCEPT ![r] = [profiles[r] EXCEPT !.mode = m]]
        BY <2>5
      <3> QED
        BY <2>2, <3>1, <3>2
    <2> QED
      BY <2>3, <2>4, <2>5 DEF RowChanges
  <1>3. CASE handler.pc \in {"asked", "named", "moded"}
    <2>1. PICK e : e = Evidence(handler, profiles')
      OBVIOUS
    <2>2. handler \in Connecting /\ handler' = [handler EXCEPT !.signs = @ \cup e]
      BY <1>3, <2>1, HandlerKinds DEF RowChanges
    <2>3. e \subseteq Sign
      BY <1>2, <2>1, <2>2, EvidenceSigns DEF Connecting
    <2>4. /\ handler' \in Connecting /\ handler'.signs = handler.signs \cup e /\ handler'.pc = handler.pc
          /\ handler'.mode = handler.mode /\ handler'.provider = handler.provider
          /\ handler'.actor = handler.actor /\ handler'.ref = handler.ref
      BY <2>2, <2>3 DEF Connecting
    <2>5. Evidence(handler', profiles') = e
      BY <2>1, <2>4 DEF Evidence
    <2>6. ListingsSeen' /\ AuthoritySeen'
      BY <1>3, <2>4, <2>5 DEF ListingsSeen, AuthoritySeen
    <2> QED
      BY <1>1, <1>2, <2>4, <2>6 DEF ConnectionTypes, ConnectionsBacked, ConnectionHadProfile, BindingHadAuthority
  <1>4. CASE handler.pc \notin {"asked", "named", "moded"}
    <2>1. handler' = handler
      BY <1>4 DEF RowChanges
    <2> QED
      BY <1>1, <1>2, <1>4, <2>1 DEF ConnectionTypes, ListingsSeen, AuthoritySeen, ConnectionsBacked,
                                   ConnectionHadProfile, BindingHadAuthority
  <1> QED
    BY <1>3, <1>4

\* Links are unlinked and delegations revoked; their owners stay.
LEMMA AuthorityChangesInv ==
    ASSUME ConnectionInv, AuthorityChanges
    PROVE  ConnectionInv'
  <1> USE DEF ConnectionInv
  <1>1. UNCHANGED <<profiles, conns, handler, attached>>
    BY DEF AuthorityChanges
  <1>2. /\ links' \in [Link -> [owner : Actor, active : BOOLEAN]]
        /\ \A l \in Link : links'[l].owner = links[l].owner
    <2>1. CASE UNCHANGED links
      BY <2>1 DEF ConnectionTypes
    <2>2. CASE ~UNCHANGED links
      <3>1. PICK l \in Link : links' = [links EXCEPT ![l].active = FALSE]
        BY <2>2 DEF AuthorityChanges
      <3>2. links[l] \in [owner : Actor, active : BOOLEAN]
        BY DEF ConnectionTypes
      <3>3. PICK row : row = [links[l] EXCEPT !.active = FALSE]
        OBVIOUS
      <3>4. row \in [owner : Actor, active : BOOLEAN] /\ row.owner = links[l].owner
        BY <3>2, <3>3
      <3>5. links' = [links EXCEPT ![l] = row]
        BY <3>1, <3>3
      <3> QED
        BY <3>4, <3>5 DEF ConnectionTypes
    <2> QED
      BY <2>1, <2>2
  <1>3. /\ delegations' \in [Delegation -> [owner : Actor, state : {"active", "foreign", "revoked"}]]
        /\ \A d \in Delegation : /\ delegations'[d].owner = delegations[d].owner
                                 /\ delegations[d].state # "foreign" => delegations'[d].state # "foreign"
    <2>1. CASE UNCHANGED delegations
      BY <2>1 DEF ConnectionTypes
    <2>2. CASE ~UNCHANGED delegations
      <3>1. PICK d \in Delegation : delegations' = [delegations EXCEPT ![d].state = "revoked"]
        BY <2>2 DEF AuthorityChanges
      <3>2. delegations[d] \in [owner : Actor, state : {"active", "foreign", "revoked"}]
        BY DEF ConnectionTypes
      <3>3. PICK row : row = [delegations[d] EXCEPT !.state = "revoked"]
        OBVIOUS
      <3>4. /\ row \in [owner : Actor, state : {"active", "foreign", "revoked"}]
            /\ row.owner = delegations[d].owner /\ row.state = "revoked"
        BY <3>2, <3>3
      <3>5. delegations' = [delegations EXCEPT ![d] = row]
        BY <3>1, <3>3
      <3> QED
        BY <3>4, <3>5 DEF ConnectionTypes
    <2> QED
      BY <2>1, <2>2
  <1>4. ConnectionTypes'
    BY <1>1, <1>2, <1>3 DEF ConnectionTypes
  <1>5. ListingsSeen'
    BY <1>1 DEF ListingsSeen, Evidence
  <1>6. AuthoritySeen'
    <2>1. handler.pc \in {"attaching", "validated"} => handler.link \in Link /\ handler.delegation \in Delegation
      BY HandlerKinds DEF Attaching
    <2> QED
      BY <1>1, <1>2, <1>3, <2>1 DEF AuthoritySeen
  <1>7. ConnectionsBacked'
    BY <1>1, <1>2, <1>3 DEF ConnectionsBacked, ConnectionHadProfile, BindingHadAuthority, ConnectionTypes
  <1> QED
    BY <1>4, <1>5, <1>6, <1>7

\* What holds of connections and bindings while they are made (ConnectionInv).
THEOREM ConnectionInvariant == ConnectionSpec => []ConnectionInv
  <1>1. profiles \in [Profile -> Row \cup {Nothing}] /\ ConnectionInit => ConnectionInv
    BY DEF ConnectionInit, ConnectionInv, ConnectionTypes, ListingsSeen, AuthoritySeen, ConnectionsBacked,
           ConnectionHadProfile, BindingHadAuthority, Quiet
  <1>2. ConnectionInv /\ [ConnectionNext]_connectionVars => ConnectionInv'
    <2> SUFFICES ASSUME ConnectionInv, [ConnectionNext]_connectionVars
                 PROVE  ConnectionInv'
      OBVIOUS
    <2>1. CASE HandlerStep
      BY <2>1, ListingInv, StoreConnectionInv, RegistrationInv, AttachInv, StoreActorBindingInv DEF HandlerStep
    <2>2. CASE HandlerDies
      BY <2>2, AnsweredConnectionInv DEF HandlerDies, Others, ConnectionInv, ConnectionTypes
    <2>3. CASE AuthorityChanges
      BY <2>3, AuthorityChangesInv
    <2>4. CASE \E a \in Actor, k \in RequestKey :
                 \/ CreateUnlinked(a, k)
                 \/ \E r \in Profile, p \in ListedAccount : CreateConnection(a, k, r, p)
                 \/ \E m \in AccessMode : StoreCloud(a, k, m)
      BY <2>4, UnlinkedInv, ConnectInv
    <2>5. CASE (\E a \in Actor, k \in RequestKey : CreateBinding(a, k)) \/ UNCHANGED connectionVars
      <3>1. UNCHANGED <<profiles, conns, handler, links, delegations, attached>>
        BY <2>5 DEF CreateBinding, connectionVars
      <3> QED
        BY <3>1 DEF ConnectionInv, ConnectionTypes, ListingsSeen, Evidence, AuthoritySeen, ConnectionsBacked,
                    ConnectionHadProfile, BindingHadAuthority
    <2>6. CASE \E a \in Actor, l \in Link, d \in Delegation : AttachLink(a, l, d)
      BY <2>6, AttachInv
    <2>7. CASE \E r \in Profile : RowChanges(r)
      BY <2>7, RowChangesInv
    <2> QED
      BY <2>1, <2>2, <2>3, <2>4, <2>5, <2>6, <2>7 DEF ConnectionNext
  <1> QED
    BY <1>1, <1>2, PTL DEF ConnectionSpec

\* What a stored connection or a member's binding rests on was there, at some
\* moment of the request that made it.
THEOREM ConnectionsAreBacked == ConnectionSpec => []ConnectionsBacked
  BY ConnectionInvariant, PTL DEF ConnectionInv

=============================================================================
