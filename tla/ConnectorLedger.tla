--------------------------- MODULE ConnectorLedger ---------------------------
(***************************************************************************)
(* Connector operations under one-use Authority grants: the grant and      *)
(* request-replay registries, the invocation ledger (connector_invocations *)
(* of integrations/store.py) and the request handlers of                   *)
(* integrations/api.py that reserve a ledger row, consume the grant, call  *)
(* the provider and store a receipt.  Every store method is one            *)
(* transaction; a handler is cut at every transaction and remote call, and *)
(* may die between any two.                                                *)
(*                                                                         *)
(* A request stands for one request id with its one envelope: a second     *)
(* envelope under the same id is refused without a trace.  The byte        *)
(* budgets of the ledger have the shape of its entry budgets and only the  *)
(* latter are counted.                                                     *)
(***************************************************************************)
EXTENDS Integers, Sequences, FiniteSets

CONSTANTS
    Write,        \* mutating connector operations
    Message,      \* Teams messages
    Read,         \* cloud.operation.status.read requests
    Rest,         \* Bilibili operations that users start over REST
    Grant,        \* grants the Authority signs
    NoGrant,
    Handler,      \* concurrent request handlers
    LedgerMax,    \* _CONNECTOR_LEDGER_MAX_ENTRIES
    TombstoneMax, \* _CONNECTOR_TOMBSTONE_MAX_ENTRIES
    ReceiptMax    \* _CONNECTOR_RECEIPT_MAX_ENTRIES

Request == Write \cup Message \cup Read
NoRequest == NoGrant

ASSUME LedgerAssumption ==
    /\ LedgerMax \in Nat /\ TombstoneMax \in Nat /\ ReceiptMax \in Nat
    /\ Write \cap Message = {} /\ Read \cap (Write \cup Message) = {}
    /\ Rest \cap Request = {}
    /\ NoGrant \notin Grant \cup Request \cup Rest

VARIABLES
    ledger,     \* connector_invocations, one row per request
    older,      \* <<q, r>>: row q has an earlier created_at than row r
    grants,     \* connector_grant_replays
    seen,       \* connector_request_replays: request ids in their window
    hs,         \* hs[h]: what handler h remembers
    world,      \* world[r]: what the provider made of each attempt of r
    calls,      \* calls[g]: provider calls made under grant g
    forgotten   \* how many terminal receipts of r have been deleted

vars == <<ledger, older, grants, seen, hs, world, calls, forgotten>>

-----------------------------------------------------------------------------
TerminalStates == {"SUCCEEDED", "FAILED", "REJECTED", "RATE_LIMITED"}
Unresolved == {"PENDING", "UNKNOWN_RESULT"}
RowState == {"ABSENT", "IN_PROGRESS"} \cup Unresolved \cup TerminalStates

\* ref: which attempt operation_ref names (0: NULL); due: expires_at passed.
Row == [state : RowState, grant : Grant \cup {NoGrant}, ref : Nat,
        resp : BOOLEAN, due : BOOLEAN]
EmptyRow(st, g) == [state |-> st, grant |-> g, ref |-> 0, resp |-> FALSE,
                    due |-> FALSE]
AbsentRow == EmptyRow("ABSENT", NoGrant)

\* "issued": signed, never registered here.
GrantState == {"unused", "issued", "registered", "consumed", "expired"}

\* settled: what a status read saw of operation n of the write about.
HandlerPc == {"idle", "reserved", "replaying", "resting", "granted",
              "refreshed", "calling", "waiting", "answered", "completed"}
HandlerRow == [pc : HandlerPc, req : Request \cup Rest \cup {NoRequest},
               grant : Grant \cup {NoGrant},
               out : {"none"} \cup Unresolved \cup TerminalStates,
               ref : Nat, about : Write \cup {NoRequest},
               settled : {"none", "SUCCEEDED", "FAILED"}]
HandlerAt(pc, r, g) == [pc |-> pc, req |-> r, grant |-> g, out |-> "none",
                        ref |-> 0, about |-> NoRequest, settled |-> "none"]
IdleHandler == HandlerAt("idle", NoRequest, NoGrant)

TypeOK ==
    /\ ledger \in [Request -> Row]
    /\ older \subseteq Request \X Request
    /\ grants \in [Grant -> [st : GrantState, req : Request \cup Rest \cup {NoRequest}]]
    /\ seen \subseteq Request
    /\ hs \in [Handler -> HandlerRow]
    /\ world \in [Request -> Seq({"open", "applied", "refused"})]
    /\ calls \in [Grant -> Nat]
    /\ forgotten \in [Request -> Nat]

Init ==
    /\ ledger = [r \in Request |-> AbsentRow]
    /\ older = {}
    /\ grants = [g \in Grant |-> [st |-> "unused", req |-> NoRequest]]
    /\ seen = {}
    /\ hs = [h \in Handler |-> IdleHandler]
    /\ world = [r \in Request |-> <<>>]
    /\ calls = [g \in Grant |-> 0]
    /\ forgotten = [r \in Request |-> 0]

-----------------------------------------------------------------------------
(* Ledger arithmetic, on any ledger value L: the transactions below edit    *)
(* the table several times before they commit.                              *)

Present(L) == {r \in Request : L[r].state # "ABSENT"}
Tombstones(L) == {r \in Present(L) : L[r].state \notin TerminalStates}
Receipts(L) == {r \in Request : L[r].resp}
DueRows(L) == {r \in Request : L[r].state \in TerminalStates /\ L[r].due}

Without(L, R) == [r \in Request |-> IF r \in R THEN AbsentRow ELSE L[r]]
Kept(R) == {p \in older : p[1] \notin R /\ p[2] \notin R}

\* The n oldest rows of R.
Oldest(R, n) == {r \in R : Cardinality({q \in R : <<q, r>> \in older}) < n}

\* How many elements of R must go so that one more stays within max.
Excess(R, max) == IF Cardinality(R) < max THEN 0 ELSE Cardinality(R) - max + 1

\* reserve_connector_invocation: the oldest terminal rows make room.
Evicted(L) == Oldest(Present(L) \ Tombstones(L), Excess(Present(L), LedgerMax))

\* _trim_connector_receipts for a receipt of r: due rows are deleted, then
\* the oldest responses of other rows are dropped, whatever their state.
Trimmed(L, r) ==
    LET M == Without(L, DueRows(L))
        drop == Oldest(Receipts(M) \ {r}, Excess(Receipts(M), ReceiptMax))
    IN  [q \in Request |-> IF q \in drop THEN [M[q] EXCEPT !.resp = FALSE] ELSE M[q]]

\* The receipt is cached only when it still fits.
Fits(L) == Cardinality(Receipts(L)) < ReceiptMax

\* A stored receipt: state, operation_ref, response and a fresh 24 hours.
WithReceipt(L, r, st, ref, resp) ==
    [L EXCEPT ![r] = [@ EXCEPT !.state = st, !.ref = ref, !.due = FALSE,
                               !.resp = resp]]

Forgets(R) == [r \in Request |-> IF r \in R /\ ledger[r].state \in TerminalStates
                                 THEN forgotten[r] + 1 ELSE forgotten[r]]

-----------------------------------------------------------------------------
(* Grants.                                                                  *)

\* internalCreateConnectorGrant: consume the signed request id, let the
\* Authority sign, register the grant.
MintGrant(g, r) ==
    /\ grants[g].st = "unused"
    /\ r \notin seen
    /\ seen' = seen \cup {r}
    /\ grants' = [grants EXCEPT ![g] = [st |-> "registered", req |-> r]]
    /\ UNCHANGED <<ledger, older, hs, world, calls, forgotten>>

\* The replay window of a signed request id ends.
RequestWindowEnds(r) ==
    /\ r \in seen
    /\ seen' = seen \ {r}
    /\ UNCHANGED <<ledger, older, grants, hs, world, calls, forgotten>>

\* expires_at of a grant passes; its row goes with the next registry call.
GrantExpires(g) ==
    /\ grants[g].st \in {"issued", "registered", "consumed"}
    /\ grants' = [grants EXCEPT ![g].st = "expired"]
    /\ UNCHANGED <<ledger, older, seen, hs, world, calls, forgotten>>

\* expires_at of a terminal receipt passes.
ReceiptExpires(r) ==
    /\ ledger[r].state \in TerminalStates
    /\ ~ledger[r].due
    /\ ledger' = [ledger EXCEPT ![r].due = TRUE]
    /\ UNCHANGED <<older, grants, seen, hs, world, calls, forgotten>>

-----------------------------------------------------------------------------
(* A handler of execute_connector_operation or send_teams_message.          *)

\* inspect accepts a signed, unexpired grant, consumed or not.
Inspected(g) ==
    /\ grants[g].st \in {"registered", "consumed"}
    /\ grants[g].req \in Request

\* The row and handler of a new attempt of r.
NewAttempt(L, h, r, g) ==
    /\ ledger' = [L EXCEPT ![r] = EmptyRow("IN_PROGRESS", g)]
    /\ hs' = [hs EXCEPT ![h] = HandlerAt("reserved", r, g)]

\* Mutant: the tombstone budget is not looked at.
ReserveUnbounded(h, g) ==
    LET r == grants[g].req
        L == Without(ledger, DueRows(ledger))
        gone == DueRows(ledger) \cup Evicted(L)
    IN  /\ hs[h].pc = "idle"
        /\ Inspected(g)
        /\ L[r].state = "ABSENT"
        /\ NewAttempt(Without(L, gone), h, r, g)
        /\ older' = Kept(gone) \cup ((Present(L) \ gone) \X {r})
        /\ forgotten' = Forgets(gone)
        /\ UNCHANGED <<grants, seen, world, calls>>

\* reserve_connector_invocation of a request without a row: due receipts are
\* purged and a row is added within the tombstone and ledger budgets.  A full
\* ledger raises and changes nothing.
Reserve(h, g) ==
    LET r == grants[g].req
        L == Without(ledger, DueRows(ledger))
        gone == DueRows(ledger) \cup Evicted(L)
    IN  /\ hs[h].pc = "idle"
        /\ Inspected(g)
        /\ L[r].state = "ABSENT"
        /\ Cardinality(Tombstones(L)) < TombstoneMax
        /\ Cardinality(Present(L) \ gone) < LedgerMax
        /\ NewAttempt(Without(L, gone), h, r, g)
        /\ older' = Kept(gone) \cup ((Present(L) \ gone) \X {r})
        /\ forgotten' = Forgets(gone)
        /\ UNCHANGED <<grants, seen, world, calls>>

\* The same call when the row exists: its receipt, or a conservative answer.
\* A grant that is not the recorded one is consumed first.
ReserveReplays(h, g) ==
    LET r == grants[g].req
        L == Without(ledger, DueRows(ledger))
    IN  /\ hs[h].pc = "idle"
        /\ Inspected(g)
        /\ L[r].state # "ABSENT"
        /\ ledger' = L
        /\ older' = Kept(DueRows(ledger))
        /\ forgotten' = Forgets(DueRows(ledger))
        /\ hs' = [hs EXCEPT ![h] = IF ledger[r].grant = g THEN IdleHandler
                                   ELSE HandlerAt("replaying", r, g)]
        /\ UNCHANGED <<grants, seen, world, calls>>

\* Mutant: a spent or expired grant passes.
ConsumeUnchecked(h) ==
    /\ hs[h].pc \in {"reserved", "replaying"}
    /\ grants' = [grants EXCEPT ![hs[h].grant].st = "consumed"]
    /\ hs' = [hs EXCEPT ![h].pc = IF @ = "reserved" THEN "granted" ELSE "refreshed"]
    /\ UNCHANGED <<ledger, older, seen, world, calls, forgotten>>

\* consume_connector_grant: registered here, unexpired, never consumed.
Consume(h) ==
    /\ hs[h].pc \in {"reserved", "replaying"}
    /\ grants[hs[h].grant].st = "registered"
    /\ grants' = [grants EXCEPT ![hs[h].grant].st = "consumed"]
    /\ hs' = [hs EXCEPT ![h].pc = IF @ = "reserved" THEN "granted" ELSE "refreshed"]
    /\ UNCHANGED <<ledger, older, seen, world, calls, forgotten>>

\* Mutant: a refused replay discards the row as well.
RefuseDiscardsAny(h) ==
    LET gone == {r \in Request : /\ hs[h].req = r
                                 /\ ledger[r].state = "IN_PROGRESS"}
    IN  /\ hs[h].pc \in {"reserved", "replaying", "resting"}
        /\ grants[hs[h].grant].st # "registered"
        /\ ledger' = Without(ledger, gone)
        /\ older' = Kept(gone)
        /\ hs' = [hs EXCEPT ![h] = IdleHandler]
        /\ UNCHANGED <<grants, seen, world, calls, forgotten>>

\* The grant is refused: discard_connector_invocation for a new attempt.
Refuse(h) ==
    LET gone == {r \in Request : /\ hs[h].pc = "reserved" /\ hs[h].req = r
                                 /\ ledger[r].state = "IN_PROGRESS"
                                 /\ ledger[r].ref = 0}
    IN  /\ hs[h].pc \in {"reserved", "replaying", "resting"}
        /\ grants[hs[h].grant].st # "registered"
        /\ ledger' = Without(ledger, gone)
        /\ older' = Kept(gone)
        /\ hs' = [hs EXCEPT ![h] = IdleHandler]
        /\ UNCHANGED <<grants, seen, world, calls, forgotten>>

\* attach_connector_invocation_grant: a replay then answers, a new attempt
\* goes on to the provider.
Attach(h) ==
    /\ hs[h].pc \in {"granted", "refreshed"}
    /\ ledger[hs[h].req].state # "ABSENT"
    /\ ledger' = [ledger EXCEPT ![hs[h].req].grant = hs[h].grant]
    /\ hs' = [hs EXCEPT ![h] = IF @.pc = "granted" THEN [@ EXCEPT !.pc = "calling"]
                               ELSE IdleHandler]
    /\ UNCHANGED <<older, grants, seen, world, calls, forgotten>>

\* The call leaves for the provider; operation_ref names this attempt.
Call(h) ==
    /\ hs[h].pc = "calling"
    /\ world' = [world EXCEPT ![hs[h].req] = Append(@, "open")]
    /\ calls' = [calls EXCEPT ![hs[h].grant] = @ + 1]
    /\ hs' = [hs EXCEPT ![h] = [@ EXCEPT !.pc = "waiting",
                                         !.ref = Len(world[hs[h].req]) + 1]]
    /\ UNCHANGED <<ledger, older, grants, seen, forgotten>>

\* The provider carries out or refuses an attempt, in its own time.
ProviderSettles(r, n) ==
    /\ n \in DOMAIN world[r]
    /\ world[r][n] = "open"
    /\ \E fate \in {"applied", "refused"} : world' = [world EXCEPT ![r][n] = fate]
    /\ UNCHANGED <<ledger, older, grants, seen, hs, calls, forgotten>>

\* What _connector_operation_response (a write) or send_teams_message makes
\* of the provider's answer: a pending write has an operation_ref, an exception
\* or a 5xx is UNKNOWN_RESULT.  That a definite answer is true is taken for
\* granted here; ConnectorCall names the answers for which it need not be
\* (TakenAsFailure, TakenOnTrust).
WriteAnswers == {"SUCCEEDED", "FAILED", "PENDING", "UNKNOWN_RESULT"}
MessageAnswers == {"SUCCEEDED", "REJECTED", "RATE_LIMITED", "UNKNOWN_RESULT"}
FateOf(st, old) == CASE st = "SUCCEEDED" -> "applied"
                     [] st \in TerminalStates \ {"SUCCEEDED"} -> "refused"
                     [] OTHER -> old
AnswerWrite(h) ==
    LET r == hs[h].req
        n == hs[h].ref
    IN  /\ hs[h].pc = "waiting"
        /\ r \in Write \cup Message
        /\ \E st \in IF r \in Write THEN WriteAnswers ELSE MessageAnswers,
              ref \in {0, n} :
              /\ world[r][n] \in {"open", FateOf(st, world[r][n])}
              /\ st = "PENDING" => ref = n
              /\ r \in Message => ref = 0
              /\ world' = [world EXCEPT ![r][n] = FateOf(st, @)]
              /\ hs' = [hs EXCEPT ![h] = [@ EXCEPT !.pc = "answered", !.out = st,
                                                   !.ref = ref]]
    /\ UNCHANGED <<ledger, older, grants, seen, calls, forgotten>>

\* cloud.operation.status.read of operation n of w.  An exception of the read
\* itself becomes state FAILED (_connector_exception_result), which the
\* handler cannot tell from an operation that failed.
ReadsAs(fate) == CASE fate = "applied" -> "SUCCEEDED"
                   [] fate = "refused" -> "FAILED"
                   [] OTHER -> "none"
AnswerRead(h) ==
    /\ hs[h].pc = "waiting"
    /\ hs[h].req \in Read
    /\ \E w \in Write : \E n \in DOMAIN world[w], out \in {"SUCCEEDED", "FAILED"} :
          hs' = [hs EXCEPT ![h] = [@ EXCEPT !.pc = "answered", !.out = out, !.ref = n,
                                            !.about = w,
                                            !.settled = IF out = "SUCCEEDED"
                                                        THEN ReadsAs(world[w][n])
                                                        ELSE "FAILED"]]
    /\ UNCHANGED <<ledger, older, grants, seen, world, calls, forgotten>>

\* A receipt for r: one too large for an entry is not cached at all.
StoreReceipt(r, st, ref) ==
    \E cached \in BOOLEAN :
        LET L == IF cached THEN Trimmed(ledger, r) ELSE ledger
            gone == Present(ledger) \ Present(L)
        IN  /\ ledger' = WithReceipt(L, r, st, ref, cached /\ Fits(L))
            /\ older' = Kept(gone)
            /\ forgotten' = Forgets(gone)

\* complete_connector_invocation.  A terminal status read goes on to
\* reconcile what it asked about.
Complete(h) ==
    /\ hs[h].pc = "answered"
    /\ ledger[hs[h].req].state # "ABSENT"
    /\ StoreReceipt(hs[h].req, hs[h].out, IF hs[h].req \in Read THEN 0 ELSE hs[h].ref)
    /\ hs' = [hs EXCEPT ![h] = IF @.settled # "none" THEN [@ EXCEPT !.pc = "completed"]
                               ELSE IdleHandler]
    /\ UNCHANGED <<grants, seen, world, calls>>

\* Mutant: the operation_ref is not compared.
ReconcileAnyRef(h) ==
    /\ hs[h].pc = "completed"
    /\ ledger[hs[h].about].state \in Unresolved
    /\ StoreReceipt(hs[h].about, hs[h].settled, hs[h].ref)
    /\ hs' = [hs EXCEPT ![h] = IdleHandler]
    /\ UNCHANGED <<grants, seen, world, calls>>

\* reconcile_connector_invocations.
Reconcile(h) ==
    /\ hs[h].pc = "completed"
    /\ ledger[hs[h].about].state \in Unresolved
    /\ ledger[hs[h].about].ref = hs[h].ref
    /\ StoreReceipt(hs[h].about, hs[h].settled, hs[h].ref)
    /\ hs' = [hs EXCEPT ![h] = IdleHandler]
    /\ UNCHANGED <<grants, seen, world, calls>>

\* invoke_bilibili_operation: the grant is signed for this request and goes
\* straight to consume, without validate_authority_response.
RestAuthorize(h, r, g) ==
    /\ hs[h].pc = "idle"
    /\ grants[g].st = "unused"
    /\ grants' = [grants EXCEPT ![g] = [st |-> "issued", req |-> r]]
    /\ hs' = [hs EXCEPT ![h] = HandlerAt("resting", r, g)]
    /\ UNCHANGED <<ledger, older, seen, world, calls, forgotten>>

\* A crash, a cancelled request, an exception, or nothing to reconcile.
Die(h) ==
    /\ hs[h].pc # "idle"
    /\ hs' = [hs EXCEPT ![h] = IdleHandler]
    /\ UNCHANGED <<ledger, older, grants, seen, world, calls, forgotten>>

-----------------------------------------------------------------------------
HandlerStep(h) ==
    \/ \E g \in Grant : Reserve(h, g) \/ ReserveReplays(h, g)
    \/ \E g \in Grant, r \in Rest : RestAuthorize(h, r, g)
    \/ Consume(h) \/ Refuse(h) \/ Attach(h)
    \/ Call(h) \/ AnswerWrite(h) \/ AnswerRead(h)
    \/ Complete(h) \/ Reconcile(h) \/ Die(h)

Next ==
    \/ \E g \in Grant, r \in Request : MintGrant(g, r)
    \/ \E g \in Grant : GrantExpires(g)
    \/ \E r \in Request : RequestWindowEnds(r) \/ ReceiptExpires(r)
    \/ \E r \in Write \cup Message : \E n \in DOMAIN world[r] : ProviderSettles(r, n)
    \/ \E h \in Handler : HandlerStep(h)

Spec == Init /\ [][Next]_vars

-----------------------------------------------------------------------------
(* What the ledger promises.                                                *)

\* An attempt is repeated only after an earlier one ended and its receipt was
\* forgotten: crashes, lost answers, redelivered requests and a full ledger
\* never start a request's provider call again ("Unknown writes are never
\* submitted again automatically"; reserve_, discard_connector_invocation).
NoBlindRepeat == \A r \in Request : Len(world[r]) <= forgotten[r] + 1

\* A grant authorises at most one provider call, whichever handlers present
\* it and however often its request's receipt is forgotten
\* (consume_connector_grant before every call).
GrantUsedOnce == \A g \in Grant : calls[g] <= 1

\* The ledger, its unresolved rows and its cached responses stay within their
\* budgets although rows are added, completed and reconciled by different
\* transactions.
WithinBudgets ==
    /\ Cardinality(Present(ledger)) <= LedgerMax
    /\ Cardinality(Tombstones(ledger)) <= TombstoneMax
    /\ Cardinality(Receipts(ledger)) <= ReceiptMax

\* A receipt that says SUCCEEDED, stored by the attempt itself or by a status
\* read, is about an attempt the provider carried out, given answers that are
\* true: no status read settles an attempt it was not about.
VerifiedIsTrue ==
    \A r \in Write \cup Message :
        ledger[r].state = "SUCCEEDED" => /\ world[r] # <<>>
                                         /\ world[r][Len(world[r])] = "applied"

\* An answer always finds the row its handler reserved, still unfinished:
\* nobody else completes, reconciles, evicts or discards it meanwhile
\* (complete_connector_invocation, "reservation is missing").
AnswerFindsRow ==
    \A h \in Handler : hs[h].pc \in {"waiting", "answered"} =>
        ledger[hs[h].req].state = "IN_PROGRESS"

-----------------------------------------------------------------------------
(* The inductive invariant behind NoBlindRepeat, GrantUsedOnce and           *)
(* AnswerFindsRow.                                                           *)

\* Handlers between their reservation and its receipt, before and after the
\* provider call.
Uncalled == {"reserved", "granted", "calling"}
Busy == Uncalled \cup {"waiting", "answered"}

\* What a handler carries is there when it needs it.
HandlersCarry ==
    \A h \in Handler :
        /\ hs[h].pc # "idle" => hs[h].grant \in Grant
        /\ hs[h].pc \in Busy \cup {"replaying", "refreshed"} => hs[h].req \in Request
        /\ hs[h].pc = "answered" => hs[h].out # "none"
        /\ hs[h].settled # "none" => hs[h].about \in Write
        /\ hs[h].pc = "completed" => hs[h].settled # "none"

\* A row in progress belongs to the one handler that reserved it, if that
\* handler still lives.
RowsOwned ==
    /\ \A h \in Handler : hs[h].pc \in Busy =>
          ledger[hs[h].req].state = "IN_PROGRESS"
    /\ \A h, i \in Handler :
          hs[h].pc \in Busy /\ hs[i].pc \in Busy /\ hs[h].req = hs[i].req => h = i

\* Every attempt is remembered by a row or counted as forgotten.
AttemptsKnown ==
    /\ \A r \in Request : ledger[r].state = "ABSENT" => Len(world[r]) <= forgotten[r]
    /\ \A h \in Handler : hs[h].pc \in Uncalled =>
          Len(world[hs[h].req]) <= forgotten[hs[h].req]

\* A consumed grant is in the hands of one handler until it calls.
GrantsHeld ==
    /\ \A g \in Grant : grants[g].st \in {"unused", "issued", "registered"} =>
          calls[g] = 0
    /\ \A h \in Handler : hs[h].pc \in {"granted", "calling"} =>
          /\ calls[hs[h].grant] = 0
          /\ grants[hs[h].grant].st \in {"consumed", "expired"}
    /\ \A h, i \in Handler :
          (/\ hs[h].pc \in {"granted", "calling"}
           /\ hs[i].pc \in {"granted", "calling"}
           /\ hs[h].grant = hs[i].grant) => h = i

LedgerInv ==
    /\ TypeOK
    /\ HandlersCarry
    /\ RowsOwned
    /\ AttemptsKnown
    /\ GrantsHeld
    /\ NoBlindRepeat
    /\ GrantUsedOnce
=============================================================================
