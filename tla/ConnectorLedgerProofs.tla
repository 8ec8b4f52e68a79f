------------------------ MODULE ConnectorLedgerProofs ------------------------
(* Proofs about ConnectorLedger, for any requests, grants, handlers and     *)
(* budgets.                                                                  *)
EXTENDS ConnectorLedger, FiniteSetTheorems, TLAPS

\* What a transaction may do to the rows it is not about: leave the state
\* alone, or delete a terminal row and count it.
Others(R) ==
    \A q \in R :
        \/ ledger'[q].state = ledger[q].state /\ forgotten'[q] = forgotten[q]
        \/ /\ ledger[q].state \in TerminalStates
           /\ ledger'[q].state = "ABSENT"
           /\ forgotten'[q] = forgotten[q] + 1

\* Deleting rows leaves a well-formed table.
LEMMA WithoutType ==
    ASSUME NEW L \in [Request -> Row], NEW R
    PROVE  Without(L, R) \in [Request -> Row]
BY DEF Without, AbsentRow, EmptyRow, Row, RowState

\* Forgets counts naturals.
LEMMA ForgetsType ==
    ASSUME TypeOK, NEW R
    PROVE  Forgets(R) \in [Request -> Nat]
BY DEF Forgets, TypeOK

\* Kept is an order on requests.
LEMMA KeptType ==
    ASSUME TypeOK, NEW R
    PROVE  Kept(R) \subseteq Request \X Request
BY DEF Kept, TypeOK

\* Attempts and deleted receipts are counted in naturals.
LEMMA CountsAreNumbers ==
    ASSUME LedgerInv
    PROVE  \A q \in Request : Len(world[q]) \in Nat /\ forgotten[q] \in Nat
BY DEF LedgerInv, TypeOK

\* Trimming deletes due rows and drops responses, nothing else.
LEMMA TrimmedRows ==
    ASSUME NEW L \in [Request -> Row], NEW r \in Request
    PROVE  /\ Trimmed(L, r) \in [Request -> Row]
           /\ \A q \in Request : Trimmed(L, r)[q].state =
                 IF q \in DueRows(L) THEN "ABSENT" ELSE L[q].state
<1> DEFINE M == Without(L, DueRows(L))
           drop == Oldest(Receipts(M) \ {r}, Excess(Receipts(M), ReceiptMax))
<1>1. M \in [Request -> Row]
  BY WithoutType
<1>2. \A q \in Request : M[q].state = IF q \in DueRows(L) THEN "ABSENT" ELSE L[q].state
  BY DEF Without, AbsentRow, EmptyRow
<1>3. Trimmed(L, r) = [q \in Request |-> IF q \in drop THEN [M[q] EXCEPT !.resp = FALSE]
                                         ELSE M[q]]
  BY DEF Trimmed
<1> HIDE DEF M, drop
<1> QED
  BY <1>1, <1>2, <1>3 DEF Row

\* A stored receipt gives its row the new state and touches others only as
\* Others allows.
LEMMA ReceiptStored ==
    ASSUME TypeOK, NEW r \in Request, NEW st \in Unresolved \cup TerminalStates,
           NEW ref \in Nat, ledger[r].state \in {"IN_PROGRESS"} \cup Unresolved,
           StoreReceipt(r, st, ref)
    PROVE  /\ ledger' \in [Request -> Row]
           /\ older' \subseteq Request \X Request
           /\ forgotten' \in [Request -> Nat]
           /\ ledger'[r].state = st
           /\ forgotten'[r] = forgotten[r]
           /\ Others(Request \ {r})
<1>1. PICK cached \in BOOLEAN :
        LET L == IF cached THEN Trimmed(ledger, r) ELSE ledger
            gone == Present(ledger) \ Present(L)
        IN  /\ ledger' = WithReceipt(L, r, st, ref, cached /\ Fits(L))
            /\ older' = Kept(gone)
            /\ forgotten' = Forgets(gone)
  BY DEF StoreReceipt
<1> DEFINE L == IF cached THEN Trimmed(ledger, r) ELSE ledger
           gone == Present(ledger) \ Present(L)
           keep == cached /\ Fits(L)
<1>2. L \in [Request -> Row]
  BY TrimmedRows DEF TypeOK
<1>3. \A q \in Request : L[q].state = ledger[q].state
                           \/ (ledger[q].state \in TerminalStates /\ L[q].state = "ABSENT")
  BY TrimmedRows DEF TypeOK, DueRows
<1>4. keep \in BOOLEAN
  BY DEF Fits
<1>5. ledger' = WithReceipt(L, r, st, ref, keep) /\ older' = Kept(gone)
        /\ forgotten' = Forgets(gone)
  BY <1>1
<1>6. gone = {q \in Request : ledger[q].state # "ABSENT" /\ L[q].state = "ABSENT"}
  BY <1>2 DEF Present
<1> HIDE DEF L, gone, keep
<1>7. ledger' \in [Request -> Row]
  BY <1>2, <1>4, <1>5 DEF WithReceipt, Row, RowState, Unresolved, TerminalStates
<1>8. /\ ledger'[r].state = st
      /\ \A q \in Request \ {r} : ledger'[q].state = L[q].state
  BY <1>2, <1>5 DEF WithReceipt, Row
<1>9. /\ forgotten' \in [Request -> Nat]
      /\ older' \subseteq Request \X Request
  BY <1>5, ForgetsType, KeptType
<1>10. r \notin gone
  BY <1>3, <1>6 DEF Unresolved, TerminalStates
<1>11. \A q \in Request : forgotten'[q] =
          IF q \in gone /\ ledger[q].state \in TerminalStates
          THEN forgotten[q] + 1 ELSE forgotten[q]
  BY <1>5 DEF Forgets
<1>12. Others(Request \ {r})
  BY <1>3, <1>6, <1>8, <1>11 DEF Others, TerminalStates
<1> QED
  BY <1>7, <1>8, <1>9, <1>10, <1>11, <1>12

\* A reservation adds one row and touches others only as Others allows.
LEMMA RowReserved ==
    ASSUME TypeOK, NEW h \in Handler, NEW g \in Grant, Reserve(h, g)
    PROVE  /\ ledger' \in [Request -> Row]
           /\ older' \subseteq Request \X Request
           /\ forgotten' \in [Request -> Nat]
           /\ grants[g].req \in Request
           /\ ledger'[grants[g].req].state = "IN_PROGRESS"
           /\ \/ ledger[grants[g].req].state = "ABSENT"
                 /\ forgotten'[grants[g].req] = forgotten[grants[g].req]
              \/ ledger[grants[g].req].state \in TerminalStates
                 /\ forgotten'[grants[g].req] = forgotten[grants[g].req] + 1
           /\ Others(Request \ {grants[g].req})
<1> DEFINE r == grants[g].req
           L == Without(ledger, DueRows(ledger))
           gone == DueRows(ledger) \cup Evicted(L)
<1>1. /\ r \in Request
      /\ L[r].state = "ABSENT"
      /\ ledger' = [Without(L, gone) EXCEPT ![r] = EmptyRow("IN_PROGRESS", g)]
      /\ older' = Kept(gone) \cup ((Present(L) \ gone) \X {r})
      /\ forgotten' = Forgets(gone)
  BY DEF Reserve, Inspected, NewAttempt
<1>2. L \in [Request -> Row] /\ Without(L, gone) \in [Request -> Row]
  BY WithoutType DEF TypeOK
<1>3. \A q \in Request : L[q].state = IF q \in DueRows(ledger) THEN "ABSENT"
                                      ELSE ledger[q].state
  BY DEF Without, AbsentRow, EmptyRow
<1>4. Evicted(L) \subseteq {q \in Request : L[q].state \in TerminalStates}
  BY DEF Evicted, Oldest, Present, Tombstones
<1>5. \A q \in gone : q \in Request /\ ledger[q].state \in TerminalStates
  <2>1. \A q \in DueRows(ledger) : q \in Request /\ ledger[q].state \in TerminalStates
    BY DEF DueRows
  <2>2. \A q \in Evicted(L) : q \in Request /\ ledger[q].state \in TerminalStates
    BY <1>3, <1>4 DEF TerminalStates
  <2> QED
    BY <2>1, <2>2
<1>6. \A q \in Request : Without(L, gone)[q].state =
          IF q \in gone THEN "ABSENT" ELSE ledger[q].state
  BY <1>3 DEF Without, AbsentRow, EmptyRow
<1>7. older' \subseteq Request \X Request
  BY <1>1, KeptType DEF Present
<1>8. \A q \in Request : forgotten'[q] =
          IF q \in gone THEN forgotten[q] + 1 ELSE forgotten[q]
  BY <1>1, <1>5 DEF Forgets
<1>9. forgotten' \in [Request -> Nat]
  BY <1>1, ForgetsType
<1>10. r \in gone \/ ledger[r].state = "ABSENT"
  BY <1>1, <1>3
<1> HIDE DEF L, gone
<1>11. EmptyRow("IN_PROGRESS", g) \in Row
  BY DEF EmptyRow, Row, RowState
<1>12. ledger' \in [Request -> Row]
  BY <1>1, <1>2, <1>11
<1>13. ledger'[r].state = "IN_PROGRESS"
       /\ \A q \in Request \ {r} : ledger'[q].state = Without(L, gone)[q].state
  BY <1>1, <1>2 DEF EmptyRow
<1>14. ledger[r].state = "ABSENT" => r \notin gone
  BY <1>5 DEF TerminalStates
<1>15. Others(Request \ {r})
  BY <1>5, <1>6, <1>8, <1>13 DEF Others
<1> QED
  BY <1>1, <1>5, <1>7, <1>8, <1>9, <1>10, <1>12, <1>13, <1>14, <1>15

-----------------------------------------------------------------------------
\* Steps that change neither rows nor counts, and of the handlers at most one,
\* which does not become busy: everything about rows is kept.
LEMMA RowsKept ==
    ASSUME LedgerInv, NEW h \in Handler,
           \A q \in Request : ledger'[q].state = ledger[q].state,
           UNCHANGED <<world, forgotten>>,
           \A i \in Handler \ {h} : hs'[i] = hs[i],
           hs'[h].pc \in Busy => hs[h].pc \in Busy /\ hs'[h].req = hs[h].req,
           hs'[h].pc \in Uncalled => hs[h].pc \in Uncalled,
           HandlersCarry
    PROVE  RowsOwned' /\ AttemptsKnown' /\ NoBlindRepeat'
<1>1. RowsOwned'
  BY DEF LedgerInv, RowsOwned, HandlersCarry, Busy
<1>2. AttemptsKnown'
  BY DEF LedgerInv, AttemptsKnown, HandlersCarry, Busy, Uncalled
<1>3. NoBlindRepeat'
  BY DEF LedgerInv, NoBlindRepeat
<1> QED
  BY <1>1, <1>2, <1>3

\* Steps that change neither grants nor calls, and bring no handler to a
\* consumed grant, keep what is known of the grants.
LEMMA GrantsKept ==
    ASSUME LedgerInv, NEW h \in Handler,
           UNCHANGED <<grants, calls>>,
           \A i \in Handler \ {h} : hs'[i] = hs[i],
           hs'[h].pc \in {"granted", "calling"} =>
              hs[h].pc \in {"granted", "calling"} /\ hs'[h].grant = hs[h].grant
    PROVE  GrantsHeld' /\ GrantUsedOnce'
BY DEF LedgerInv, GrantsHeld, GrantUsedOnce

\* A handler that stops leaves the others as they were.
LEMMA HandlerStops ==
    ASSUME TypeOK, HandlersCarry, NEW h \in Handler,
           hs' = [hs EXCEPT ![h] = IdleHandler]
    PROVE  /\ hs' \in [Handler -> HandlerRow]
           /\ HandlersCarry'
           /\ \A i \in Handler \ {h} : hs'[i] = hs[i]
           /\ hs'[h].pc = "idle"
<1>1. IdleHandler \in HandlerRow
  BY DEF IdleHandler, HandlerAt, HandlerRow, HandlerPc, NoRequest
<1>2. IdleHandler.pc = "idle" /\ IdleHandler.settled = "none"
  BY DEF IdleHandler, HandlerAt
<1>3. /\ \A i \in Handler \ {h} : hs'[i] = hs[i]
      /\ hs'[h] = IdleHandler
  BY DEF TypeOK
<1>4. HandlersCarry'
  BY <1>2, <1>3 DEF HandlersCarry, Busy, Uncalled
<1> QED
  BY <1>1, <1>2, <1>3, <1>4 DEF TypeOK

-----------------------------------------------------------------------------
(* One lemma per group of actions.                                          *)

\* The empty registries satisfy the invariant.
LEMMA InitHolds == Init => LedgerInv
<1> SUFFICES ASSUME Init PROVE LedgerInv
  OBVIOUS
<1>1. IdleHandler \in HandlerRow /\ IdleHandler.pc = "idle"
        /\ IdleHandler.settled = "none"
  BY DEF IdleHandler, HandlerAt, HandlerRow, HandlerPc, NoRequest
<1>2. AbsentRow \in Row /\ AbsentRow.state = "ABSENT"
  BY DEF AbsentRow, EmptyRow, Row, RowState
<1>3. TypeOK
  BY <1>1, <1>2 DEF Init, TypeOK, GrantState, NoRequest
<1>4. HandlersCarry /\ RowsOwned /\ GrantsHeld /\ GrantUsedOnce
  BY <1>1 DEF Init, HandlersCarry, RowsOwned, GrantsHeld, GrantUsedOnce, Busy, Uncalled
<1>5. AttemptsKnown /\ NoBlindRepeat
  BY <1>1 DEF Init, AttemptsKnown, NoBlindRepeat, Uncalled
<1> QED
  BY <1>3, <1>4, <1>5 DEF LedgerInv

\* Time and the Authority: minting, windows, expiries.
LEMMA ClockSteps ==
    ASSUME LedgerInv,
           \/ \E g \in Grant, r \in Request : MintGrant(g, r)
           \/ \E g \in Grant : GrantExpires(g)
           \/ \E r \in Request : RequestWindowEnds(r) \/ ReceiptExpires(r)
    PROVE  LedgerInv'
<1>1. ASSUME NEW g \in Grant, NEW r \in Request, MintGrant(g, r)
      PROVE  LedgerInv'
  <2>1. /\ grants[g].st = "unused" /\ seen' = seen \cup {r}
        /\ grants' = [grants EXCEPT ![g] = [st |-> "registered", req |-> r]]
        /\ UNCHANGED <<ledger, older, hs, world, calls, forgotten>>
    BY <1>1 DEF MintGrant
  <2>2. TypeOK'
    BY <2>1 DEF LedgerInv, TypeOK, GrantState
  <2>3. \A q \in Grant : grants'[q].st = IF q = g THEN "registered" ELSE grants[q].st
    BY <2>1 DEF LedgerInv, TypeOK
  <2>4. GrantsHeld' /\ GrantUsedOnce'
    BY <2>1, <2>3 DEF LedgerInv, HandlersCarry, GrantsHeld, GrantUsedOnce
  <2>5. HandlersCarry' /\ RowsOwned' /\ AttemptsKnown' /\ NoBlindRepeat'
    BY <2>1 DEF LedgerInv, HandlersCarry, RowsOwned, AttemptsKnown, NoBlindRepeat
  <2> QED
    BY <2>2, <2>4, <2>5 DEF LedgerInv
<1>2. ASSUME NEW g \in Grant, GrantExpires(g)
      PROVE  LedgerInv'
  <2>1. /\ grants[g].st \in {"issued", "registered", "consumed"}
        /\ grants' = [grants EXCEPT ![g].st = "expired"]
        /\ UNCHANGED <<ledger, older, seen, hs, world, calls, forgotten>>
    BY <1>2 DEF GrantExpires
  <2>2. TypeOK'
    BY <2>1 DEF LedgerInv, TypeOK, GrantState
  <2>3. \A q \in Grant : grants'[q].st = IF q = g THEN "expired" ELSE grants[q].st
    BY <2>1 DEF LedgerInv, TypeOK
  <2>4. GrantsHeld' /\ GrantUsedOnce'
    BY <2>1, <2>3 DEF LedgerInv, HandlersCarry, GrantsHeld, GrantUsedOnce
  <2>5. HandlersCarry' /\ RowsOwned' /\ AttemptsKnown' /\ NoBlindRepeat'
    BY <2>1 DEF LedgerInv, HandlersCarry, RowsOwned, AttemptsKnown, NoBlindRepeat
  <2> QED
    BY <2>2, <2>4, <2>5 DEF LedgerInv
<1>3. CASE \E r \in Request : RequestWindowEnds(r)
  BY <1>3 DEF RequestWindowEnds, LedgerInv, TypeOK, HandlersCarry, RowsOwned,
     AttemptsKnown, GrantsHeld, NoBlindRepeat, GrantUsedOnce
<1>4. ASSUME NEW r \in Request, ReceiptExpires(r)
      PROVE  LedgerInv'
  <2>1. /\ ledger' = [ledger EXCEPT ![r].due = TRUE]
        /\ UNCHANGED <<older, grants, seen, hs, world, calls, forgotten>>
    BY <1>4 DEF ReceiptExpires
  <2>2. ledger' \in [Request -> Row] /\ \A q \in Request : ledger'[q].state = ledger[q].state
    BY <2>1 DEF LedgerInv, TypeOK, Row
  <2>3. TypeOK'
    BY <2>1, <2>2 DEF LedgerInv, TypeOK
  <2>4. HandlersCarry' /\ GrantsHeld' /\ GrantUsedOnce' /\ NoBlindRepeat'
    BY <2>1 DEF LedgerInv, HandlersCarry, GrantsHeld, GrantUsedOnce, NoBlindRepeat
  <2>5. RowsOwned' /\ AttemptsKnown'
    BY <2>1, <2>2 DEF LedgerInv, HandlersCarry, RowsOwned, AttemptsKnown, Busy, Uncalled
  <2> QED
    BY <2>3, <2>4, <2>5 DEF LedgerInv
<1> QED
  BY <1>1, <1>2, <1>3, <1>4

\* The provider settles an attempt: only what became of it changes.
LEMMA ProviderStep ==
    ASSUME LedgerInv, NEW r \in Request, NEW n \in DOMAIN world[r],
           ProviderSettles(r, n)
    PROVE  LedgerInv'
<1>1. PICK fate \in {"applied", "refused"} : world' = [world EXCEPT ![r][n] = fate]
  BY DEF ProviderSettles
<1>2. UNCHANGED <<ledger, older, grants, seen, hs, calls, forgotten>>
  BY DEF ProviderSettles
<1>3. /\ world' \in [Request -> Seq({"open", "applied", "refused"})]
      /\ \A q \in Request : Len(world'[q]) = Len(world[q])
  BY <1>1 DEF LedgerInv, TypeOK
<1>4. TypeOK'
  BY <1>2, <1>3 DEF LedgerInv, TypeOK
<1>5. HandlersCarry' /\ RowsOwned' /\ GrantsHeld' /\ GrantUsedOnce'
  BY <1>2 DEF LedgerInv, HandlersCarry, RowsOwned, GrantsHeld, GrantUsedOnce
<1>6. AttemptsKnown' /\ NoBlindRepeat'
  BY <1>2, <1>3 DEF LedgerInv, HandlersCarry, AttemptsKnown, NoBlindRepeat, Busy, Uncalled
<1> QED
  BY <1>4, <1>5, <1>6 DEF LedgerInv

\* A crash, and a Bilibili request that takes an unregistered grant.
LEMMA DieStep ==
    ASSUME LedgerInv, NEW h \in Handler, Die(h)
    PROVE  LedgerInv'
<1>1. /\ hs' = [hs EXCEPT ![h] = IdleHandler]
      /\ UNCHANGED <<ledger, older, grants, seen, world, calls, forgotten>>
  BY DEF Die
<1>2. /\ hs' \in [Handler -> HandlerRow] /\ HandlersCarry'
      /\ \A i \in Handler \ {h} : hs'[i] = hs[i]
      /\ hs'[h].pc = "idle"
  BY <1>1, HandlerStops DEF LedgerInv
<1>3. TypeOK'
  BY <1>1, <1>2 DEF LedgerInv, TypeOK
<1>4. RowsOwned' /\ AttemptsKnown' /\ NoBlindRepeat'
  BY <1>1, <1>2, RowsKept DEF LedgerInv, Busy, Uncalled
<1>5. GrantsHeld' /\ GrantUsedOnce'
  BY <1>1, <1>2, GrantsKept
<1> QED
  BY <1>2, <1>3, <1>4, <1>5 DEF LedgerInv

\* A handler that starts: at pc, for request r, under grant g.
LEMMA HandlerStarts ==
    ASSUME TypeOK, HandlersCarry, NEW h \in Handler, NEW g \in Grant,
           NEW r \in Request \cup Rest, NEW pc \in {"reserved", "replaying", "resting"},
           pc # "resting" => r \in Request,
           hs' = [hs EXCEPT ![h] = HandlerAt(pc, r, g)]
    PROVE  /\ hs' \in [Handler -> HandlerRow]
           /\ HandlersCarry'
           /\ \A i \in Handler \ {h} : hs'[i] = hs[i]
           /\ hs'[h].pc = pc /\ hs'[h].req = r /\ hs'[h].grant = g
<1>1. /\ HandlerAt(pc, r, g) \in HandlerRow
      /\ HandlerAt(pc, r, g).pc = pc
      /\ HandlerAt(pc, r, g).req = r
      /\ HandlerAt(pc, r, g).grant = g
      /\ HandlerAt(pc, r, g).settled = "none"
  BY DEF HandlerAt, HandlerRow, HandlerPc, NoRequest
<1>2. /\ \A i \in Handler \ {h} : hs'[i] = hs[i]
      /\ hs'[h] = HandlerAt(pc, r, g)
  BY DEF TypeOK
<1>3. HandlersCarry'
  BY <1>1, <1>2 DEF HandlersCarry, Busy, Uncalled
<1> QED
  BY <1>1, <1>2, <1>3 DEF TypeOK

\* A Bilibili request.
LEMMA RestStep ==
    ASSUME LedgerInv, NEW h \in Handler, NEW g \in Grant, NEW r \in Rest,
           RestAuthorize(h, r, g)
    PROVE  LedgerInv'
<1>1. /\ grants[g].st = "unused"
      /\ grants' = [grants EXCEPT ![g] = [st |-> "issued", req |-> r]]
      /\ hs' = [hs EXCEPT ![h] = HandlerAt("resting", r, g)]
      /\ UNCHANGED <<ledger, older, seen, world, calls, forgotten>>
  BY DEF RestAuthorize
<1>2. /\ hs' \in [Handler -> HandlerRow] /\ HandlersCarry'
      /\ \A i \in Handler \ {h} : hs'[i] = hs[i]
      /\ hs'[h].pc = "resting"
  BY <1>1, HandlerStarts DEF LedgerInv
<1>3. TypeOK'
  BY <1>1, <1>2 DEF LedgerInv, TypeOK, GrantState
<1>4. RowsOwned' /\ AttemptsKnown' /\ NoBlindRepeat'
  BY <1>1, <1>2, RowsKept DEF LedgerInv, Busy, Uncalled
<1>5. \A q \in Grant : grants'[q].st = IF q = g THEN "issued" ELSE grants[q].st
  BY <1>1 DEF LedgerInv, TypeOK
<1>6. GrantsHeld' /\ GrantUsedOnce'
  BY <1>1, <1>2, <1>5 DEF LedgerInv, HandlersCarry, GrantsHeld, GrantUsedOnce
<1> QED
  BY <1>2, <1>3, <1>4, <1>6 DEF LedgerInv

\* A new attempt: its row was absent or due, so it has no other owner.
LEMMA ReserveStep ==
    ASSUME LedgerInv, NEW h \in Handler, NEW g \in Grant, Reserve(h, g)
    PROVE  LedgerInv'
<1> DEFINE r == grants[g].req
<1>1. /\ ledger' \in [Request -> Row]
      /\ older' \subseteq Request \X Request
      /\ forgotten' \in [Request -> Nat]
      /\ r \in Request
      /\ ledger'[r].state = "IN_PROGRESS"
      /\ \/ ledger[r].state = "ABSENT" /\ forgotten'[r] = forgotten[r]
         \/ ledger[r].state \in TerminalStates /\ forgotten'[r] = forgotten[r] + 1
      /\ Others(Request \ {r})
  BY RowReserved DEF LedgerInv
<1>2. /\ hs' = [hs EXCEPT ![h] = HandlerAt("reserved", r, g)]
      /\ UNCHANGED <<grants, seen, world, calls>>
  BY DEF Reserve, NewAttempt
<1> HIDE DEF r
<1>3. /\ hs' \in [Handler -> HandlerRow] /\ HandlersCarry'
      /\ \A i \in Handler \ {h} : hs'[i] = hs[i]
      /\ hs'[h].pc = "reserved" /\ hs'[h].req = r /\ hs'[h].grant = g
  BY <1>1, <1>2, HandlerStarts DEF LedgerInv
<1>4. TypeOK'
  BY <1>1, <1>2, <1>3 DEF LedgerInv, TypeOK
<1>5. \A i \in Handler : hs[i].pc \in Busy => hs[i].req # r
  BY <1>1 DEF LedgerInv, RowsOwned, TerminalStates
<1>6. RowsOwned'
  <2>1. \A i \in Handler : hs[i].pc \in Busy => ledger'[hs[i].req].state = "IN_PROGRESS"
    BY <1>1, <1>5 DEF LedgerInv, HandlersCarry, RowsOwned, Others, TerminalStates
  <2> QED
    BY <1>1, <1>3, <1>5, <2>1 DEF LedgerInv, RowsOwned, Busy, Uncalled
<1>7. Len(world[r]) <= forgotten'[r]
  BY <1>1 DEF LedgerInv, TypeOK, AttemptsKnown, NoBlindRepeat
<1>8. AttemptsKnown'
  <2>1. \A q \in Request : ledger'[q].state = "ABSENT" => Len(world'[q]) <= forgotten'[q]
    BY <1>1, <1>2, <1>7 DEF LedgerInv, TypeOK, AttemptsKnown, NoBlindRepeat, Others
  <2>2. \A i \in Handler \ {h} : hs[i].pc \in Uncalled =>
           forgotten'[hs[i].req] = forgotten[hs[i].req]
    BY <1>1, <1>5 DEF LedgerInv, HandlersCarry, RowsOwned, Others, Busy, TerminalStates
  <2>3. \A i \in Handler : hs'[i].pc \in Uncalled =>
           Len(world'[hs'[i].req]) <= forgotten'[hs'[i].req]
    BY <1>2, <1>3, <1>7, <2>2 DEF LedgerInv, AttemptsKnown
  <2> QED
    BY <2>1, <2>3 DEF AttemptsKnown
<1>9. NoBlindRepeat'
  <2>1. \A q \in Request : forgotten'[q] \in {forgotten[q], forgotten[q] + 1}
    BY <1>1 DEF Others
  <2> QED
    BY <1>2, <2>1, CountsAreNumbers DEF LedgerInv, NoBlindRepeat
<1>10. GrantsHeld' /\ GrantUsedOnce'
  BY <1>2, <1>3, GrantsKept
<1> QED
  BY <1>3, <1>4, <1>6, <1>8, <1>9, <1>10 DEF LedgerInv

\* Deleting due rows concerns no row in progress.
LEMMA DuePurged ==
    ASSUME LedgerInv, ledger' = Without(ledger, DueRows(ledger)),
           older' = Kept(DueRows(ledger)), forgotten' = Forgets(DueRows(ledger))
    PROVE  /\ ledger' \in [Request -> Row]
           /\ older' \subseteq Request \X Request
           /\ forgotten' \in [Request -> Nat]
           /\ Others(Request)
<1>1. \A q \in Request : /\ ledger'[q].state = IF q \in DueRows(ledger) THEN "ABSENT"
                                               ELSE ledger[q].state
                         /\ forgotten'[q] = IF q \in DueRows(ledger) THEN forgotten[q] + 1
                                            ELSE forgotten[q]
  BY DEF Without, AbsentRow, EmptyRow, Forgets, DueRows
<1>2. Others(Request)
  BY <1>1 DEF Others, DueRows
<1> QED
  BY <1>2, WithoutType, KeptType, ForgetsType DEF LedgerInv, TypeOK

\* Steps that touch rows only as Others allows and make no handler busy.
LEMMA OthersKept ==
    ASSUME LedgerInv, NEW h \in Handler, Others(Request), UNCHANGED world,
           \A i \in Handler \ {h} : hs'[i] = hs[i],
           hs'[h].pc \notin Busy
    PROVE  RowsOwned' /\ AttemptsKnown' /\ NoBlindRepeat'
<1>1. \A i \in Handler : hs[i].pc \in Busy =>
         /\ ledger'[hs[i].req].state = "IN_PROGRESS"
         /\ forgotten'[hs[i].req] = forgotten[hs[i].req]
  BY DEF LedgerInv, HandlersCarry, RowsOwned, Others, TerminalStates
<1>2. RowsOwned'
  BY <1>1 DEF LedgerInv, RowsOwned
<1>3. AttemptsKnown'
  <2>1. \A q \in Request : ledger'[q].state = "ABSENT" => Len(world'[q]) <= forgotten'[q]
    BY DEF LedgerInv, TypeOK, AttemptsKnown, NoBlindRepeat, Others
  <2>2. \A i \in Handler : hs'[i].pc \in Uncalled =>
           Len(world'[hs'[i].req]) <= forgotten'[hs'[i].req]
    BY <1>1 DEF LedgerInv, AttemptsKnown, Busy
  <2> QED
    BY <2>1, <2>2 DEF AttemptsKnown
<1>4. NoBlindRepeat'
  <2>1. \A q \in Request : forgotten'[q] \in {forgotten[q], forgotten[q] + 1}
    BY DEF Others
  <2> QED
    BY <2>1, CountsAreNumbers DEF LedgerInv, NoBlindRepeat
<1> QED
  BY <1>2, <1>3, <1>4

\* A repeated request.
LEMMA ReplayStep ==
    ASSUME LedgerInv, NEW h \in Handler, NEW g \in Grant, ReserveReplays(h, g)
    PROVE  LedgerInv'
<1> DEFINE r == grants[g].req
<1>1. /\ r \in Request
      /\ ledger' = Without(ledger, DueRows(ledger))
      /\ older' = Kept(DueRows(ledger)) /\ forgotten' = Forgets(DueRows(ledger))
      /\ \/ hs' = [hs EXCEPT ![h] = IdleHandler]
         \/ hs' = [hs EXCEPT ![h] = HandlerAt("replaying", r, g)]
      /\ UNCHANGED <<grants, seen, world, calls>>
  BY DEF ReserveReplays, Inspected
<1>2. /\ ledger' \in [Request -> Row]
      /\ older' \subseteq Request \X Request
      /\ forgotten' \in [Request -> Nat]
      /\ Others(Request)
  BY <1>1, DuePurged
<1> HIDE DEF r
<1>3. /\ hs' \in [Handler -> HandlerRow] /\ HandlersCarry'
      /\ \A i \in Handler \ {h} : hs'[i] = hs[i]
      /\ hs'[h].pc \in {"idle", "replaying"}
  BY <1>1, HandlerStarts, HandlerStops DEF LedgerInv
<1>4. TypeOK'
  BY <1>1, <1>2, <1>3 DEF LedgerInv, TypeOK
<1>5. RowsOwned' /\ AttemptsKnown' /\ NoBlindRepeat'
  BY <1>1, <1>2, <1>3, OthersKept DEF Busy, Uncalled
<1>6. GrantsHeld' /\ GrantUsedOnce'
  BY <1>1, <1>3, GrantsKept
<1> QED
  BY <1>3, <1>4, <1>5, <1>6 DEF LedgerInv

\* A refused grant: only the refused handler's own uncalled row goes.
LEMMA RefuseStep ==
    ASSUME LedgerInv, NEW h \in Handler, Refuse(h)
    PROVE  LedgerInv'
<1> DEFINE gone == {r \in Request : /\ hs[h].pc = "reserved" /\ hs[h].req = r
                                    /\ ledger[r].state = "IN_PROGRESS"
                                    /\ ledger[r].ref = 0}
<1>1. /\ ledger' = Without(ledger, gone) /\ older' = Kept(gone)
      /\ hs' = [hs EXCEPT ![h] = IdleHandler]
      /\ UNCHANGED <<grants, seen, world, calls, forgotten>>
  BY DEF Refuse
<1>2. \A q \in gone : q = hs[h].req /\ hs[h].pc \in Uncalled
  BY DEF Uncalled
<1>3. \A q \in Request : ledger'[q].state = IF q \in gone THEN "ABSENT" ELSE ledger[q].state
  BY <1>1 DEF Without, AbsentRow, EmptyRow
<1> HIDE DEF gone
<1>4. /\ hs' \in [Handler -> HandlerRow] /\ HandlersCarry'
      /\ \A i \in Handler \ {h} : hs'[i] = hs[i]
      /\ hs'[h].pc = "idle"
  BY <1>1, HandlerStops DEF LedgerInv
<1>5. TypeOK'
  BY <1>1, <1>4, WithoutType, KeptType DEF LedgerInv, TypeOK
<1>6. RowsOwned'
  <2>1. \A i \in Handler \ {h} : hs[i].pc \in Busy => hs[i].req \notin gone
    BY <1>2 DEF LedgerInv, RowsOwned, Busy
  <2> QED
    BY <1>3, <1>4, <2>1 DEF LedgerInv, HandlersCarry, RowsOwned, Busy, Uncalled
<1>7. AttemptsKnown'
  <2>1. \A q \in gone : Len(world[q]) <= forgotten[q]
    BY <1>2 DEF LedgerInv, AttemptsKnown
  <2>2. \A i \in Handler : hs'[i].pc \in Uncalled =>
           Len(world[hs'[i].req]) <= forgotten[hs'[i].req]
    BY <1>4 DEF LedgerInv, AttemptsKnown, Uncalled
  <2>3. \A q \in Request : ledger'[q].state = "ABSENT" => Len(world[q]) <= forgotten[q]
    BY <1>3, <2>1 DEF LedgerInv, AttemptsKnown
  <2> QED
    BY <1>1, <2>2, <2>3 DEF AttemptsKnown
<1>8. NoBlindRepeat'
  BY <1>1 DEF LedgerInv, NoBlindRepeat
<1>9. GrantsHeld' /\ GrantUsedOnce'
  BY <1>1, <1>4, GrantsKept
<1> QED
  BY <1>4, <1>5, <1>6, <1>7, <1>8, <1>9 DEF LedgerInv

\* A grant is consumed while it is registered, so nobody holds it yet and no
\* call was made under it.
LEMMA ConsumeStep ==
    ASSUME LedgerInv, NEW h \in Handler, Consume(h)
    PROVE  LedgerInv'
<1> DEFINE g == hs[h].grant
           pc == IF hs[h].pc = "reserved" THEN "granted" ELSE "refreshed"
<1>1. /\ hs[h].pc \in {"reserved", "replaying"}
      /\ grants[g].st = "registered"
      /\ grants' = [grants EXCEPT ![g].st = "consumed"]
      /\ hs' = [hs EXCEPT ![h].pc = pc]
      /\ UNCHANGED <<ledger, older, seen, world, calls, forgotten>>
  BY DEF Consume
<1>2. g \in Grant
  BY <1>1 DEF LedgerInv, HandlersCarry
<1>3. /\ hs' \in [Handler -> HandlerRow]
      /\ \A i \in Handler \ {h} : hs'[i] = hs[i]
      /\ hs'[h].pc = pc
      /\ hs'[h].req = hs[h].req /\ hs'[h].grant = g /\ hs'[h].out = hs[h].out
      /\ hs'[h].about = hs[h].about /\ hs'[h].settled = hs[h].settled
  BY <1>1 DEF LedgerInv, TypeOK, HandlerRow, HandlerPc
<1>4. \A q \in Grant : grants'[q].st = IF q = g THEN "consumed" ELSE grants[q].st
  BY <1>1 DEF LedgerInv, TypeOK
<1>5. grants' \in [Grant -> [st : GrantState, req : Request \cup Rest \cup {NoRequest}]]
  BY <1>1 DEF LedgerInv, TypeOK, GrantState
<1>6. TypeOK'
  BY <1>1, <1>3, <1>5 DEF LedgerInv, TypeOK
<1>7. /\ hs'[h].pc \in Busy => hs[h].pc \in Busy
      /\ hs'[h].pc \in Uncalled => hs[h].pc \in Uncalled
  BY <1>1, <1>3 DEF Busy, Uncalled
<1>8. HandlersCarry'
  BY <1>1, <1>3 DEF LedgerInv, HandlersCarry, Busy, Uncalled
<1>9. RowsOwned' /\ AttemptsKnown' /\ NoBlindRepeat'
  BY <1>1, <1>3, <1>7, RowsKept DEF LedgerInv
<1> HIDE DEF g, pc
<1>10. \A i \in Handler : hs[i].pc \in {"granted", "calling"} => hs[i].grant # g
  BY <1>1 DEF LedgerInv, GrantsHeld
<1>11. GrantsHeld' /\ GrantUsedOnce'
  BY <1>1, <1>2, <1>3, <1>4, <1>10 DEF LedgerInv, HandlersCarry, GrantsHeld, GrantUsedOnce
<1> QED
  BY <1>6, <1>8, <1>9, <1>11 DEF LedgerInv

\* Recording the grant changes no state of a row.
LEMMA AttachStep ==
    ASSUME LedgerInv, NEW h \in Handler, Attach(h)
    PROVE  LedgerInv'
<1>1. /\ hs[h].pc \in {"granted", "refreshed"}
      /\ ledger' = [ledger EXCEPT ![hs[h].req].grant = hs[h].grant]
      /\ hs' = [hs EXCEPT ![h] = IF hs[h].pc = "granted"
                                 THEN [hs[h] EXCEPT !.pc = "calling"] ELSE IdleHandler]
      /\ UNCHANGED <<older, grants, seen, world, calls, forgotten>>
  BY DEF Attach
<1>2. hs[h].req \in Request /\ hs[h].grant \in Grant
  BY <1>1 DEF LedgerInv, HandlersCarry, Busy, Uncalled
<1>3. ledger' \in [Request -> Row] /\ \A q \in Request : ledger'[q].state = ledger[q].state
  <2>1. ledger \in [Request -> Row]
    BY DEF LedgerInv, TypeOK
  <2> QED
    BY <1>1, <1>2, <2>1, SMTT(30) DEF Row
<1>4. CASE hs[h].pc = "granted"
  <2>0. hs \in [Handler -> HandlerRow]
    BY DEF LedgerInv, TypeOK
  <2>1. /\ hs' \in [Handler -> HandlerRow]
        /\ \A i \in Handler \ {h} : hs'[i] = hs[i]
        /\ hs'[h].pc = "calling"
        /\ hs'[h].req = hs[h].req /\ hs'[h].grant = hs[h].grant
        /\ hs'[h].about = hs[h].about /\ hs'[h].settled = hs[h].settled
    BY <1>1, <1>4, <2>0, SMTT(30) DEF HandlerRow, HandlerPc
  <2>2. HandlersCarry'
    BY <1>2, <2>1 DEF LedgerInv, HandlersCarry, Busy, Uncalled
  <2>3. RowsOwned' /\ AttemptsKnown' /\ NoBlindRepeat'
    BY <1>1, <1>3, <1>4, <2>1, RowsKept DEF LedgerInv, Busy, Uncalled
  <2>4. GrantsHeld' /\ GrantUsedOnce'
    BY <1>1, <1>4, <2>1, GrantsKept
  <2>5. TypeOK'
    BY <1>1, <1>3, <2>1 DEF LedgerInv, TypeOK
  <2> QED
    BY <2>2, <2>3, <2>4, <2>5 DEF LedgerInv
<1>5. CASE hs[h].pc # "granted"
  <2>1. /\ hs' \in [Handler -> HandlerRow] /\ HandlersCarry'
        /\ \A i \in Handler \ {h} : hs'[i] = hs[i]
        /\ hs'[h].pc = "idle"
    BY <1>1, <1>5, HandlerStops DEF LedgerInv
  <2>2. RowsOwned' /\ AttemptsKnown' /\ NoBlindRepeat'
    BY <1>1, <1>3, <2>1, RowsKept DEF LedgerInv, Busy, Uncalled
  <2>3. GrantsHeld' /\ GrantUsedOnce'
    BY <1>1, <2>1, GrantsKept
  <2>4. TypeOK'
    BY <1>1, <1>3, <2>1 DEF LedgerInv, TypeOK
  <2> QED
    BY <2>1, <2>2, <2>3, <2>4 DEF LedgerInv
<1> QED
  BY <1>4, <1>5

\* The provider call: the handler owns the row and the unused grant.
LEMMA CallStep ==
    ASSUME LedgerInv, NEW h \in Handler, Call(h)
    PROVE  LedgerInv'
<1> DEFINE r == hs[h].req
           g == hs[h].grant
           n == Len(world[r]) + 1
<1>1. /\ hs[h].pc = "calling"
      /\ world' = [world EXCEPT ![r] = Append(world[r], "open")]
      /\ calls' = [calls EXCEPT ![g] = calls[g] + 1]
      /\ hs' = [hs EXCEPT ![h] = [hs[h] EXCEPT !.pc = "waiting", !.ref = n]]
      /\ UNCHANGED <<ledger, older, grants, seen, forgotten>>
  BY DEF Call
<1>2. r \in Request /\ g \in Grant
  BY <1>1 DEF LedgerInv, HandlersCarry, Busy, Uncalled
<1>3. /\ world' \in [Request -> Seq({"open", "applied", "refused"})]
      /\ n \in Nat
      /\ \A q \in Request : Len(world'[q]) = IF q = r THEN n ELSE Len(world[q])
  BY <1>1, <1>2 DEF LedgerInv, TypeOK
<1>4. /\ hs' \in [Handler -> HandlerRow]
      /\ \A i \in Handler \ {h} : hs'[i] = hs[i]
      /\ hs'[h].pc = "waiting" /\ hs'[h].req = r /\ hs'[h].grant = g
      /\ hs'[h].about = hs[h].about /\ hs'[h].settled = hs[h].settled
  <2> DEFINE row == [hs[h] EXCEPT !.pc = "waiting", !.ref = n]
  <2>1. /\ row \in HandlerRow
        /\ row.pc = "waiting" /\ row.req = r /\ row.grant = g
        /\ row.about = hs[h].about /\ row.settled = hs[h].settled
    BY <1>3 DEF LedgerInv, TypeOK, HandlerRow, HandlerPc
  <2> HIDE DEF row
  <2> QED
    BY <1>1, <2>1 DEF LedgerInv, TypeOK, row
<1>5. calls' \in [Grant -> Nat]
      /\ \A q \in Grant : calls'[q] = IF q = g THEN calls[q] + 1 ELSE calls[q]
  <2>1. calls \in [Grant -> Nat] /\ calls' = [calls EXCEPT ![g] = calls[g] + 1]
    BY <1>1 DEF LedgerInv, TypeOK
  <2> HIDE DEF g
  <2> QED
    BY <1>2, <2>1
<1>6. TypeOK'
  BY <1>1, <1>3, <1>4, <1>5 DEF LedgerInv, TypeOK
<1>7. HandlersCarry'
  BY <1>2, <1>4 DEF LedgerInv, HandlersCarry, Busy, Uncalled
<1>8. hs[h].pc \in Uncalled /\ hs[h].pc \in Busy /\ hs'[h].pc \in Busy
        /\ hs'[h].pc \notin Uncalled
  BY <1>1, <1>4 DEF Busy, Uncalled
<1>9. RowsOwned'
  BY <1>1, <1>4, <1>8 DEF LedgerInv, RowsOwned
<1>10. Len(world[r]) <= forgotten[r] /\ ledger[r].state = "IN_PROGRESS"
  BY <1>8 DEF LedgerInv, AttemptsKnown, RowsOwned
<1>11. \A i \in Handler \ {h} : hs[i].pc \in Uncalled => hs[i].req # r /\ hs[i].req \in Request
  BY <1>8 DEF LedgerInv, RowsOwned, HandlersCarry, Busy
<1>12. calls[g] = 0 /\ grants[g].st \in {"consumed", "expired"}
  BY <1>1 DEF LedgerInv, GrantsHeld
<1>13. \A i \in Handler \ {h} : hs[i].pc \in {"granted", "calling"} =>
          hs[i].grant # g /\ hs[i].grant \in Grant
  BY <1>1 DEF LedgerInv, GrantsHeld, HandlersCarry
<1> HIDE DEF r, g
<1>14. AttemptsKnown'
  <2>1. \A q \in Request : ledger'[q].state = "ABSENT" => Len(world'[q]) <= forgotten'[q]
    BY <1>1, <1>3, <1>10 DEF LedgerInv, AttemptsKnown
  <2>2. \A i \in Handler : hs'[i].pc \in Uncalled =>
           Len(world'[hs'[i].req]) <= forgotten'[hs'[i].req]
    BY <1>1, <1>3, <1>4, <1>8, <1>11 DEF LedgerInv, AttemptsKnown
  <2> QED
    BY <2>1, <2>2 DEF AttemptsKnown
<1>15. NoBlindRepeat'
  BY <1>1, <1>2, <1>3, <1>10, CountsAreNumbers DEF LedgerInv, NoBlindRepeat
<1>16. GrantUsedOnce'
  BY <1>5, <1>12 DEF LedgerInv, GrantUsedOnce
<1>17. GrantsHeld'
  BY <1>1, <1>4, <1>5, <1>12, <1>13 DEF LedgerInv, GrantsHeld
<1> QED
  BY <1>6, <1>7, <1>9, <1>14, <1>15, <1>16, <1>17 DEF LedgerInv

\* The answer to a write or a message.
LEMMA AnswerWriteStep ==
    ASSUME LedgerInv, NEW h \in Handler, AnswerWrite(h)
    PROVE  LedgerInv'
<1> DEFINE r == hs[h].req
           n == hs[h].ref
<1>1. PICK st \in WriteAnswers \cup MessageAnswers, ref \in {0, n} :
         /\ world' = [world EXCEPT ![r][n] = FateOf(st, world[r][n])]
         /\ hs' = [hs EXCEPT ![h] = [hs[h] EXCEPT !.pc = "answered", !.out = st,
                                                  !.ref = ref]]
  BY DEF AnswerWrite
<1>2. /\ hs[h].pc = "waiting"
      /\ UNCHANGED <<ledger, older, grants, seen, calls, forgotten>>
  BY DEF AnswerWrite
<1>3. r \in Request /\ n \in Nat /\ ref \in Nat /\ hs[h].grant \in Grant
  BY <1>2 DEF LedgerInv, HandlersCarry, Busy, TypeOK, HandlerRow
<1>4. st \in Unresolved \cup TerminalStates
  BY DEF WriteAnswers, MessageAnswers, Unresolved, TerminalStates
<1>5. FateOf(st, world[r][n]) \in {"applied", "refused", world[r][n]}
  BY DEF FateOf
<1>6. /\ world' \in [Request -> Seq({"open", "applied", "refused"})]
      /\ \A q \in Request : Len(world'[q]) = Len(world[q])
  <2> DEFINE fate == FateOf(st, world[r][n])
             old == world[r]
             new == [old EXCEPT ![n] = fate]
  <2>1. old \in Seq({"open", "applied", "refused"})
    BY <1>3 DEF LedgerInv, TypeOK
  <2>2. n \in DOMAIN old => fate \in {"open", "applied", "refused"}
    BY <1>5, <2>1
  <2>3. world' = [world EXCEPT ![r] = new]
    BY <1>1
  <2> HIDE DEF fate, old
  <2>4. new \in Seq({"open", "applied", "refused"}) /\ Len(new) = Len(old)
    <3>1. CASE n \in DOMAIN old
      BY <2>1, <2>2, <3>1
    <3>2. CASE n \notin DOMAIN old
      <4>1. new = old
        BY <2>1, <3>2
      <4> QED
        BY <2>1, <4>1
    <3> QED
      BY <3>1, <3>2
  <2> HIDE DEF new
  <2> QED
    BY <1>3, <2>3, <2>4 DEF LedgerInv, TypeOK, old
<1>7. /\ hs' \in [Handler -> HandlerRow]
      /\ \A i \in Handler \ {h} : hs'[i] = hs[i]
      /\ hs'[h].pc = "answered" /\ hs'[h].req = r /\ hs'[h].grant = hs[h].grant
      /\ hs'[h].out = st
      /\ hs'[h].about = hs[h].about /\ hs'[h].settled = hs[h].settled
  <2> DEFINE row == [hs[h] EXCEPT !.pc = "answered", !.out = st, !.ref = ref]
  <2>1. /\ row \in HandlerRow
        /\ row.pc = "answered" /\ row.req = r /\ row.grant = hs[h].grant
        /\ row.out = st
        /\ row.about = hs[h].about /\ row.settled = hs[h].settled
    BY <1>3, <1>4 DEF LedgerInv, TypeOK, HandlerRow, HandlerPc
  <2> HIDE DEF row
  <2> QED
    BY <1>1, <2>1 DEF LedgerInv, TypeOK, row
<1>8. TypeOK'
  BY <1>2, <1>6, <1>7 DEF LedgerInv, TypeOK
<1>9. HandlersCarry'
  BY <1>3, <1>4, <1>7 DEF LedgerInv, HandlersCarry, Busy, Uncalled, Unresolved, TerminalStates
<1>10. hs[h].pc \in Busy /\ hs'[h].pc \notin Uncalled
  BY <1>2, <1>7 DEF Busy, Uncalled
<1>11. RowsOwned'
  BY <1>2, <1>7, <1>10 DEF LedgerInv, RowsOwned
<1>12. AttemptsKnown' /\ NoBlindRepeat'
  BY <1>2, <1>6, <1>7, <1>10 DEF LedgerInv, HandlersCarry, AttemptsKnown, NoBlindRepeat, Busy
<1>13. GrantsHeld' /\ GrantUsedOnce'
  BY <1>2, <1>7, GrantsKept
<1> QED
  BY <1>8, <1>9, <1>11, <1>12, <1>13 DEF LedgerInv

\* The answer to a status read.
LEMMA AnswerReadStep ==
    ASSUME LedgerInv, NEW h \in Handler, AnswerRead(h)
    PROVE  LedgerInv'
<1>0. PICK w \in Write : \E n \in DOMAIN world[w], out \in {"SUCCEEDED", "FAILED"} :
         hs' = [hs EXCEPT ![h] = [hs[h] EXCEPT !.pc = "answered", !.out = out,
                   !.ref = n, !.about = w,
                   !.settled = IF out = "SUCCEEDED"
                               THEN ReadsAs(world[w][n]) ELSE "FAILED"]]
  BY DEF AnswerRead
<1>1. PICK n \in DOMAIN world[w], out \in {"SUCCEEDED", "FAILED"} :
         hs' = [hs EXCEPT ![h] = [hs[h] EXCEPT !.pc = "answered", !.out = out,
                   !.ref = n, !.about = w,
                   !.settled = IF out = "SUCCEEDED"
                               THEN ReadsAs(world[w][n]) ELSE "FAILED"]]
  BY <1>0
<1> DEFINE settled == IF out = "SUCCEEDED" THEN ReadsAs(world[w][n]) ELSE "FAILED"
<1>2. /\ hs[h].pc = "waiting"
      /\ UNCHANGED <<ledger, older, grants, seen, world, calls, forgotten>>
  BY DEF AnswerRead
<1>3. hs[h].req \in Request /\ hs[h].grant \in Grant
  BY <1>2 DEF LedgerInv, HandlersCarry, Busy
<1>4. n \in Nat
  BY DEF LedgerInv, TypeOK, Request
<1>5. settled \in {"none", "SUCCEEDED", "FAILED"}
  BY DEF ReadsAs
<1> DEFINE row == [hs[h] EXCEPT !.pc = "answered", !.out = out, !.ref = n,
                               !.about = w, !.settled = settled]
<1>6. hs' = [hs EXCEPT ![h] = row]
  BY <1>1
<1> HIDE DEF settled
<1>7. /\ hs' \in [Handler -> HandlerRow]
      /\ \A i \in Handler \ {h} : hs'[i] = hs[i]
      /\ hs'[h].pc = "answered" /\ hs'[h].req = hs[h].req /\ hs'[h].grant = hs[h].grant
      /\ hs'[h].out = out /\ hs'[h].about = w
  <2>1. /\ row \in HandlerRow
        /\ row.pc = "answered" /\ row.req = hs[h].req /\ row.grant = hs[h].grant
        /\ row.out = out /\ row.about = w
    BY <1>4, <1>5 DEF LedgerInv, TypeOK, HandlerRow, HandlerPc, TerminalStates
  <2> HIDE DEF row
  <2> QED
    BY <1>6, <2>1 DEF LedgerInv, TypeOK
<1>8. TypeOK'
  BY <1>2, <1>7 DEF LedgerInv, TypeOK
<1>9. HandlersCarry'
  BY <1>3, <1>7 DEF LedgerInv, HandlersCarry, Busy, Uncalled
<1>10. RowsOwned' /\ AttemptsKnown' /\ NoBlindRepeat'
  BY <1>2, <1>7, RowsKept DEF LedgerInv, Busy, Uncalled
<1>11. GrantsHeld' /\ GrantUsedOnce'
  BY <1>2, <1>7, GrantsKept
<1> QED
  BY <1>8, <1>9, <1>10, <1>11 DEF LedgerInv

\* A stored receipt, by whichever handler, disturbs no one else's attempt.
LEMMA ReceiptKeeps ==
    ASSUME LedgerInv, NEW h \in Handler, NEW r \in Request,
           NEW st \in Unresolved \cup TerminalStates, NEW ref \in Nat,
           ledger[r].state \in {"IN_PROGRESS"} \cup Unresolved,
           \A i \in Handler \ {h} : hs[i].pc \in Busy => hs[i].req # r,
           StoreReceipt(r, st, ref),
           UNCHANGED <<grants, seen, world, calls>>,
           hs' \in [Handler -> HandlerRow],
           \A i \in Handler \ {h} : hs'[i] = hs[i],
           hs'[h].pc \notin Busy,
           HandlersCarry'
    PROVE  LedgerInv'
<1>1. /\ ledger' \in [Request -> Row]
      /\ older' \subseteq Request \X Request
      /\ forgotten' \in [Request -> Nat]
      /\ ledger'[r].state = st
      /\ forgotten'[r] = forgotten[r]
      /\ Others(Request \ {r})
  BY ReceiptStored DEF LedgerInv
<1>2. TypeOK'
  BY <1>1 DEF LedgerInv, TypeOK
<1>3. \A i \in Handler \ {h} : hs[i].pc \in Busy =>
         /\ ledger'[hs[i].req].state = "IN_PROGRESS"
         /\ forgotten'[hs[i].req] = forgotten[hs[i].req]
  BY <1>1 DEF LedgerInv, HandlersCarry, RowsOwned, Others, TerminalStates
<1>4. RowsOwned'
  BY <1>3 DEF LedgerInv, RowsOwned
<1>5. AttemptsKnown'
  <2>1. st # "ABSENT"
    BY DEF Unresolved, TerminalStates
  <2>2. \A q \in Request : ledger'[q].state = "ABSENT" => Len(world'[q]) <= forgotten'[q]
    BY <1>1, <2>1 DEF LedgerInv, TypeOK, AttemptsKnown, NoBlindRepeat, Others
  <2>3. \A i \in Handler : hs'[i].pc \in Uncalled =>
           Len(world'[hs'[i].req]) <= forgotten'[hs'[i].req]
    BY <1>3 DEF LedgerInv, AttemptsKnown, Busy
  <2> QED
    BY <2>2, <2>3 DEF AttemptsKnown
<1>6. NoBlindRepeat'
  <2>1. \A q \in Request : forgotten'[q] \in {forgotten[q], forgotten[q] + 1}
    BY <1>1 DEF Others
  <2> QED
    BY <2>1, CountsAreNumbers DEF LedgerInv, NoBlindRepeat
<1>7. GrantsHeld' /\ GrantUsedOnce'
  BY GrantsKept DEF Busy, Uncalled
<1> QED
  BY <1>2, <1>4, <1>5, <1>6, <1>7 DEF LedgerInv

\* The receipt of a handler's own attempt.
LEMMA CompleteStep ==
    ASSUME LedgerInv, NEW h \in Handler, Complete(h)
    PROVE  LedgerInv'
<1> DEFINE r == hs[h].req
           ref == IF r \in Read THEN 0 ELSE hs[h].ref
<1>1. /\ hs[h].pc = "answered"
      /\ StoreReceipt(r, hs[h].out, ref)
      /\ hs' = [hs EXCEPT ![h] = IF hs[h].settled # "none"
                                 THEN [hs[h] EXCEPT !.pc = "completed"] ELSE IdleHandler]
      /\ UNCHANGED <<grants, seen, world, calls>>
  BY DEF Complete
<1>2. /\ r \in Request /\ ref \in Nat /\ hs[h].grant \in Grant
      /\ hs[h].out \in Unresolved \cup TerminalStates
  BY <1>1 DEF LedgerInv, TypeOK, HandlersCarry, HandlerRow, Busy
<1>3. /\ ledger[r].state = "IN_PROGRESS"
      /\ \A i \in Handler \ {h} : hs[i].pc \in Busy => hs[i].req # r
  BY <1>1 DEF LedgerInv, RowsOwned, Busy
<1>4. /\ hs' \in [Handler -> HandlerRow] /\ HandlersCarry'
      /\ \A i \in Handler \ {h} : hs'[i] = hs[i]
      /\ hs'[h].pc \notin Busy
  <2>1. CASE hs[h].settled # "none"
    <3>1. /\ hs' \in [Handler -> HandlerRow]
          /\ \A i \in Handler \ {h} : hs'[i] = hs[i]
          /\ hs'[h].pc = "completed" /\ hs'[h].grant = hs[h].grant
          /\ hs'[h].about = hs[h].about /\ hs'[h].settled = hs[h].settled
      <4> DEFINE row == [hs[h] EXCEPT !.pc = "completed"]
      <4>1. /\ row \in HandlerRow /\ row.pc = "completed" /\ row.grant = hs[h].grant
            /\ row.about = hs[h].about /\ row.settled = hs[h].settled
        BY DEF LedgerInv, TypeOK, HandlerRow, HandlerPc
      <4>2. hs' = [hs EXCEPT ![h] = row]
        BY <1>1, <2>1
      <4> HIDE DEF row
      <4> QED
        BY <4>1, <4>2 DEF LedgerInv, TypeOK
    <3>2. HandlersCarry'
      BY <1>2, <2>1, <3>1 DEF LedgerInv, HandlersCarry, Busy, Uncalled
    <3> QED
      BY <3>1, <3>2 DEF Busy, Uncalled
  <2>2. CASE hs[h].settled = "none"
    BY <1>1, <2>2, HandlerStops DEF LedgerInv, Busy, Uncalled
  <2> QED
    BY <2>1, <2>2
<1> HIDE DEF r, ref
<1> QED
  BY <1>1, <1>2, <1>3, <1>4, ReceiptKeeps

\* The receipt a status read gives another attempt: that one is unresolved,
\* so no handler is working on it.
LEMMA ReconcileStep ==
    ASSUME LedgerInv, NEW h \in Handler, Reconcile(h)
    PROVE  LedgerInv'
<1> DEFINE r == hs[h].about
<1>1. /\ hs[h].pc = "completed" /\ ledger[r].state \in Unresolved
      /\ StoreReceipt(r, hs[h].settled, hs[h].ref)
      /\ hs' = [hs EXCEPT ![h] = IdleHandler]
      /\ UNCHANGED <<grants, seen, world, calls>>
  BY DEF Reconcile
<1>2. /\ r \in Request /\ hs[h].ref \in Nat
      /\ hs[h].settled \in TerminalStates
  BY <1>1 DEF LedgerInv, TypeOK, HandlersCarry, HandlerRow, Request, TerminalStates
<1>3. \A i \in Handler \ {h} : hs[i].pc \in Busy => hs[i].req # r
  BY <1>1 DEF LedgerInv, RowsOwned, Unresolved
<1>4. /\ hs' \in [Handler -> HandlerRow] /\ HandlersCarry'
      /\ \A i \in Handler \ {h} : hs'[i] = hs[i]
      /\ hs'[h].pc = "idle"
  BY <1>1, HandlerStops DEF LedgerInv
<1>5. hs'[h].pc \notin Busy
  BY <1>4 DEF Busy, Uncalled
<1> HIDE DEF r
<1> QED
  BY <1>1, <1>2, <1>3, <1>4, <1>5, ReceiptKeeps

-----------------------------------------------------------------------------
\* The invariant is inductive.
LEMMA NextKeeps == LedgerInv /\ [Next]_vars => LedgerInv'
<1> SUFFICES ASSUME LedgerInv, [Next]_vars PROVE LedgerInv'
  OBVIOUS
<1>1. ASSUME NEW h \in Handler, HandlerStep(h) PROVE LedgerInv'
  BY <1>1, ReserveStep, ReplayStep, RestStep, ConsumeStep, RefuseStep, AttachStep,
     CallStep, AnswerWriteStep, AnswerReadStep, CompleteStep, ReconcileStep, DieStep
     DEF HandlerStep
<1>2. ASSUME NEW r \in Write \cup Message, NEW n \in DOMAIN world[r], ProviderSettles(r, n)
      PROVE  LedgerInv'
  BY <1>2, ProviderStep DEF Request
<1>3. CASE UNCHANGED vars
  BY <1>3 DEF vars, LedgerInv, TypeOK, HandlersCarry, RowsOwned, AttemptsKnown, GrantsHeld,
     NoBlindRepeat, GrantUsedOnce
<1> QED
  BY <1>1, <1>2, <1>3, ClockSteps DEF Next

\* Rows, handlers, grants and counts stay related as LedgerInv says, whatever
\* the requests, grants, handlers and budgets of the ledger
\* (reserve_connector_invocation ... complete_connector_invocation).
THEOREM LedgerInvariant == Spec => []LedgerInv
<1>1. Init => LedgerInv
  BY InitHolds
<1>2. LedgerInv /\ [Next]_vars => LedgerInv'
  BY NextKeeps
<1> QED
  BY <1>1, <1>2, PTL DEF Spec

\* No request is submitted to its provider again unless a terminal receipt of
\* an earlier attempt was forgotten (reserve_connector_invocation).
THEOREM AttemptsNotRepeated == Spec => []NoBlindRepeat
<1>1. LedgerInv => NoBlindRepeat
  BY DEF LedgerInv
<1> QED
  BY <1>1, LedgerInvariant, PTL

\* A grant authorises at most one provider call (consume_connector_grant).
THEOREM GrantsSpentOnce == Spec => []GrantUsedOnce
<1>1. LedgerInv => GrantUsedOnce
  BY DEF LedgerInv
<1> QED
  BY <1>1, LedgerInvariant, PTL

\* complete_connector_invocation never meets a missing reservation.
THEOREM AnswersFindRows == Spec => []AnswerFindsRow
<1>1. LedgerInv => AnswerFindsRow
  BY DEF LedgerInv, RowsOwned, AnswerFindsRow, Busy
<1> QED
  BY <1>1, LedgerInvariant, PTL

-----------------------------------------------------------------------------
(* Budgets.                                                                 *)

BudgetInv ==
    /\ LedgerInv
    /\ IsFiniteSet(Present(ledger)) /\ IsFiniteSet(Receipts(ledger))
    /\ WithinBudgets

\* One element fits a budget that is not used up.
LEMMA OneMoreFits ==
    ASSUME NEW S, IsFiniteSet(S), NEW x, NEW T, T \subseteq S \cup {x},
           NEW max \in Nat, Cardinality(S) < max
    PROVE  IsFiniteSet(T) /\ Cardinality(T) <= max
<1>1. /\ IsFiniteSet(S \cup {x})
      /\ Cardinality(S) \in Nat
      /\ Cardinality(S \cup {x}) = IF x \in S THEN Cardinality(S) ELSE Cardinality(S) + 1
  BY FS_AddElement, FS_CardinalityType
<1>2. /\ IsFiniteSet(T) /\ Cardinality(T) <= Cardinality(S \cup {x})
      /\ Cardinality(T) \in Nat
  BY <1>1, FS_Subset, FS_CardinalityType
<1> QED
  BY <1>1, <1>2

\* Rows that go, end or lose their response free their budget.
LEMMA LessFits ==
    ASSUME NEW S, IsFiniteSet(S), NEW T, T \subseteq S, NEW max \in Nat,
           Cardinality(S) <= max
    PROVE  IsFiniteSet(T) /\ Cardinality(T) <= max
<1>1. IsFiniteSet(T) /\ Cardinality(T) <= Cardinality(S)
  BY FS_Subset
<1>2. Cardinality(T) \in Nat /\ Cardinality(S) \in Nat
  BY <1>1, FS_CardinalityType
<1> QED
  BY <1>1, <1>2

\* A step that adds no row, no unresolved row and no response keeps the
\* budgets.
LEMMA NoNewRows ==
    ASSUME BudgetInv, LedgerInv',
           Present(ledger') \subseteq Present(ledger),
           Tombstones(ledger') \subseteq Tombstones(ledger),
           Receipts(ledger') \subseteq Receipts(ledger)
    PROVE  BudgetInv'
<1>1. /\ IsFiniteSet(Present(ledger)) /\ IsFiniteSet(Receipts(ledger))
      /\ Cardinality(Present(ledger)) <= LedgerMax
      /\ Cardinality(Tombstones(ledger)) <= TombstoneMax
      /\ Cardinality(Receipts(ledger)) <= ReceiptMax
  BY DEF BudgetInv, WithinBudgets
<1>2. IsFiniteSet(Tombstones(ledger))
  <2>1. Tombstones(ledger) \subseteq Present(ledger)
    BY DEF Tombstones
  <2> QED
    BY <1>1, <2>1, FS_Subset
<1> QED
  BY <1>1, <1>2, LessFits, LedgerAssumption DEF BudgetInv, WithinBudgets

\* What the sets of a row say of it.
LEMMA RowSets ==
    ASSUME NEW L
    PROVE  /\ \A q : q \in Present(L) <=> q \in Request /\ L[q].state # "ABSENT"
           /\ \A q : q \in Tombstones(L) <=>
                 q \in Request /\ L[q].state # "ABSENT" /\ L[q].state \notin TerminalStates
           /\ \A q : q \in Receipts(L) <=> q \in Request /\ L[q].resp
BY DEF Present, Tombstones, Receipts

\* Deleting rows adds nothing to any budgeted set.
LEMMA RowsDeleted ==
    ASSUME TypeOK, NEW R
    PROVE  LET L == Without(ledger, R)
           IN  /\ Present(L) \subseteq Present(ledger)
               /\ Tombstones(L) \subseteq Tombstones(ledger)
               /\ Receipts(L) \subseteq Receipts(ledger)
<1> DEFINE L == Without(ledger, R)
<1>1. \A q \in Request : L[q] = IF q \in R THEN AbsentRow ELSE ledger[q]
  BY DEF Without
<1>2. AbsentRow.state = "ABSENT" /\ AbsentRow.resp = FALSE
  BY DEF AbsentRow, EmptyRow
<1> HIDE DEF L
<1>3. /\ Present(L) \subseteq Present(ledger)
      /\ Tombstones(L) \subseteq Tombstones(ledger)
      /\ Receipts(L) \subseteq Receipts(ledger)
  BY <1>1, <1>2, RowSets
<1> QED
  BY <1>3 DEF L

\* reserve_connector_invocation makes room before it adds its row.
LEMMA ReserveFits ==
    ASSUME BudgetInv, LedgerInv', NEW h \in Handler, NEW g \in Grant, Reserve(h, g)
    PROVE  BudgetInv'
<1> DEFINE r == grants[g].req
           L == Without(ledger, DueRows(ledger))
           gone == DueRows(ledger) \cup Evicted(L)
           M == Without(L, gone)
<1>1. /\ r \in Request
      /\ Cardinality(Tombstones(L)) < TombstoneMax
      /\ Cardinality(Present(L) \ gone) < LedgerMax
      /\ ledger' = [M EXCEPT ![r] = EmptyRow("IN_PROGRESS", g)]
  BY DEF Reserve, Inspected, NewAttempt
<1>2. /\ \A q \in Request : M[q] = IF q \in gone THEN AbsentRow ELSE L[q]
      /\ \A q \in Request \ {r} : ledger'[q] = M[q]
      /\ ledger'[r] = EmptyRow("IN_PROGRESS", g)
  BY <1>1 DEF Without
<1>3. /\ AbsentRow.state = "ABSENT" /\ AbsentRow.resp = FALSE
      /\ EmptyRow("IN_PROGRESS", g).resp = FALSE
  BY DEF AbsentRow, EmptyRow
<1>4. /\ Present(L) \subseteq Present(ledger)
      /\ Tombstones(L) \subseteq Tombstones(ledger)
      /\ Receipts(L) \subseteq Receipts(ledger)
  BY RowsDeleted DEF BudgetInv, LedgerInv
<1> HIDE DEF L, gone, M, r
<1>5. /\ Present(ledger') \subseteq (Present(L) \ gone) \cup {r}
      /\ Tombstones(ledger') \subseteq Tombstones(L) \cup {r}
      /\ Receipts(ledger') \subseteq Receipts(L)
  BY <1>2, <1>3, RowSets
<1>6. /\ IsFiniteSet(Present(L) \ gone) /\ IsFiniteSet(Tombstones(L))
  <2>1. /\ Present(L) \ gone \subseteq Present(ledger)
        /\ Tombstones(L) \subseteq Present(ledger)
    BY <1>4 DEF Tombstones
  <2> QED
    BY <2>1, FS_Subset DEF BudgetInv
<1>7. IsFiniteSet(Present(ledger')) /\ Cardinality(Present(ledger')) <= LedgerMax
  BY <1>1, <1>5, <1>6, OneMoreFits, LedgerAssumption
<1>8. Cardinality(Tombstones(ledger')) <= TombstoneMax
  BY <1>1, <1>5, <1>6, OneMoreFits, LedgerAssumption
<1>9. IsFiniteSet(Receipts(ledger')) /\ Cardinality(Receipts(ledger')) <= ReceiptMax
  <2>1. Receipts(ledger') \subseteq Receipts(ledger)
    BY <1>4, <1>5
  <2> QED
    BY <2>1, LessFits, LedgerAssumption DEF BudgetInv, WithinBudgets
<1> QED
  BY <1>7, <1>8, <1>9 DEF BudgetInv, WithinBudgets

\* A receipt is cached only where it fits.
LEMMA ReceiptFits ==
    ASSUME BudgetInv, LedgerInv', NEW r \in Request,
           NEW st \in Unresolved \cup TerminalStates, NEW ref,
           ledger[r].state \in {"IN_PROGRESS"} \cup Unresolved,
           StoreReceipt(r, st, ref)
    PROVE  BudgetInv'
<1>0. ledger \in [Request -> Row]
  BY DEF BudgetInv, LedgerInv, TypeOK
<1>1. PICK cached \in BOOLEAN :
        LET L == IF cached THEN Trimmed(ledger, r) ELSE ledger
        IN  ledger' = WithReceipt(L, r, st, ref, cached /\ Fits(L))
  BY DEF StoreReceipt
<1> DEFINE L == IF cached THEN Trimmed(ledger, r) ELSE ledger
           keep == cached /\ Fits(L)
<1>2. L \in [Request -> Row] /\ ledger' = WithReceipt(L, r, st, ref, keep)
  BY <1>0, <1>1, TrimmedRows
<1>3. /\ Present(L) \subseteq Present(ledger)
      /\ Tombstones(L) \subseteq Tombstones(ledger)
      /\ Receipts(L) \subseteq Receipts(ledger)
  <2>1. \A q \in Request : L[q].resp => ledger[q].resp
    <3>1. \A q \in Request : Trimmed(ledger, r)[q].resp => ledger[q].resp
      <4> DEFINE M == Without(ledger, DueRows(ledger))
                 drop == Oldest(Receipts(M) \ {r}, Excess(Receipts(M), ReceiptMax))
      <4>1. M \in [Request -> Row]
        BY <1>0, WithoutType
      <4>2. \A q \in Request : M[q].resp => ledger[q].resp
        BY DEF Without, AbsentRow, EmptyRow
      <4>3. \A q \in Request : Trimmed(ledger, r)[q] =
               IF q \in drop THEN [M[q] EXCEPT !.resp = FALSE] ELSE M[q]
        BY DEF Trimmed
      <4> HIDE DEF M, drop
      <4> QED
        BY <4>1, <4>2, <4>3 DEF Row
    <3> QED
      BY <3>1
  <2>2. \A q \in Request : L[q].state = ledger[q].state \/ L[q].state = "ABSENT"
    BY <1>0, TrimmedRows
  <2> HIDE DEF L
  <2> QED
    BY <2>1, <2>2, RowSets
<1>4. keep => Cardinality(Receipts(L)) < ReceiptMax
  BY DEF Fits
<1> HIDE DEF L, keep
<1>5. /\ \A q \in Request \ {r} : ledger'[q] = L[q]
      /\ ledger'[r].state = st /\ ledger'[r].resp = keep
  BY <1>2 DEF WithReceipt, Row
<1>6. r \in Tombstones(ledger)
  BY RowSets DEF Unresolved, TerminalStates
<1>7. /\ Present(ledger') \subseteq Present(ledger)
      /\ Tombstones(ledger') \subseteq Tombstones(ledger)
      /\ Receipts(ledger') \subseteq Receipts(L) \cup {r}
      /\ ~keep => Receipts(ledger') \subseteq Receipts(L)
  <2>1. r \in Present(ledger)
    BY <1>6 DEF Tombstones
  <2> QED
    BY <1>3, <1>5, <1>6, <2>1, RowSets
<1>8. IsFiniteSet(Receipts(L))
  BY <1>3, FS_Subset DEF BudgetInv
<1>9. IsFiniteSet(Receipts(ledger')) /\ Cardinality(Receipts(ledger')) <= ReceiptMax
  <2>1. CASE keep
    BY <1>4, <1>7, <1>8, <2>1, OneMoreFits, LedgerAssumption
  <2>2. CASE ~keep
    <3>1. Receipts(ledger') \subseteq Receipts(ledger)
      BY <1>3, <1>7, <2>2
    <3> QED
      BY <3>1, LessFits, LedgerAssumption DEF BudgetInv, WithinBudgets
  <2> QED
    BY <2>1, <2>2
<1>10. IsFiniteSet(Tombstones(ledger))
  <2>1. Tombstones(ledger) \subseteq Present(ledger)
    BY DEF Tombstones
  <2> QED
    BY <2>1, FS_Subset DEF BudgetInv
<1> QED
  BY <1>7, <1>9, <1>10, LessFits, LedgerAssumption DEF BudgetInv, WithinBudgets

\* The empty ledger is within its budgets.
LEMMA BudgetInit == Init => BudgetInv
<1> SUFFICES ASSUME Init PROVE BudgetInv
  OBVIOUS
<1>1. \A r \in Request : ledger[r].state = "ABSENT" /\ ledger[r].resp = FALSE
  BY DEF Init, AbsentRow, EmptyRow
<1>2. Present(ledger) = {} /\ Tombstones(ledger) = {} /\ Receipts(ledger) = {}
  BY <1>1, RowSets
<1>3. LedgerInv
  BY InitHolds
<1> QED
  BY <1>2, <1>3, FS_EmptySet, LedgerAssumption DEF BudgetInv, WithinBudgets

\* Every step keeps the budgets.
LEMMA BudgetStep == BudgetInv /\ [Next]_vars => BudgetInv'
<1> SUFFICES ASSUME BudgetInv, [Next]_vars PROVE BudgetInv'
  OBVIOUS
<1>0. LedgerInv' /\ LedgerInv /\ TypeOK
  BY NextKeeps DEF BudgetInv, LedgerInv
<1>1. CASE UNCHANGED ledger
  BY <1>0, <1>1, NoNewRows
<1>2. ASSUME NEW R, ledger' = Without(ledger, R) PROVE BudgetInv'
  <2>1. /\ Present(ledger') \subseteq Present(ledger)
        /\ Tombstones(ledger') \subseteq Tombstones(ledger)
        /\ Receipts(ledger') \subseteq Receipts(ledger)
    BY <1>0, <1>2, RowsDeleted
  <2> QED
    BY <1>0, <2>1, NoNewRows
\* A row that keeps its state and response.
<1>3. ASSUME \A q \in Request : ledger'[q].state = ledger[q].state /\ ledger'[q].resp = ledger[q].resp
      PROVE  BudgetInv'
  <2>1. /\ Present(ledger') \subseteq Present(ledger)
        /\ Tombstones(ledger') \subseteq Tombstones(ledger)
        /\ Receipts(ledger') \subseteq Receipts(ledger)
    BY <1>3, RowSets
  <2> QED
    BY <1>0, <2>1, NoNewRows
<1>4. ASSUME NEW r \in Request, ReceiptExpires(r) PROVE BudgetInv'
  <2>1. \A q \in Request : ledger'[q].state = ledger[q].state /\ ledger'[q].resp = ledger[q].resp
    BY <1>0, <1>4 DEF ReceiptExpires, TypeOK, Row
  <2> QED
    BY <1>3, <2>1
<1>5. ASSUME NEW h \in Handler, Attach(h) PROVE BudgetInv'
  <2>1. \A q \in Request : ledger'[q].state = ledger[q].state /\ ledger'[q].resp = ledger[q].resp
    BY <1>0, <1>5 DEF Attach, TypeOK, Row
  <2> QED
    BY <1>3, <2>1
<1>6. ASSUME NEW h \in Handler, NEW g \in Grant, Reserve(h, g) PROVE BudgetInv'
  BY <1>0, <1>6, ReserveFits
<1>7. ASSUME NEW h \in Handler, NEW g \in Grant, ReserveReplays(h, g) PROVE BudgetInv'
  BY <1>2, <1>7 DEF ReserveReplays
<1>8. ASSUME NEW h \in Handler, Refuse(h) PROVE BudgetInv'
  BY <1>2, <1>8 DEF Refuse
<1>9. ASSUME NEW h \in Handler, Complete(h) PROVE BudgetInv'
  <2>1. hs[h].pc = "answered" /\ hs[h].req \in Request /\ hs[h].out # "none"
    BY <1>0, <1>9 DEF Complete, LedgerInv, HandlersCarry, Busy
  <2>2. hs[h].out \in Unresolved \cup TerminalStates
    BY <1>0, <2>1 DEF TypeOK, HandlerRow
  <2>3. ledger[hs[h].req].state = "IN_PROGRESS"
    BY <1>0, <2>1 DEF LedgerInv, RowsOwned, Busy
  <2>4. StoreReceipt(hs[h].req, hs[h].out, IF hs[h].req \in Read THEN 0 ELSE hs[h].ref)
    BY <1>9 DEF Complete
  <2> QED
    BY <1>0, <2>1, <2>2, <2>3, <2>4, ReceiptFits
<1>10. ASSUME NEW h \in Handler, Reconcile(h) PROVE BudgetInv'
  <2>1. /\ hs[h].about \in Request /\ hs[h].settled \in Unresolved \cup TerminalStates
        /\ ledger[hs[h].about].state \in Unresolved
    BY <1>0, <1>10
    DEF Reconcile, LedgerInv, HandlersCarry, TypeOK, HandlerRow, TerminalStates, Request
  <2> QED
    BY <1>0, <1>10, <2>1, ReceiptFits DEF Reconcile
<1>11. ASSUME NEW h \in Handler,
              \/ \E g \in Grant, r \in Rest : RestAuthorize(h, r, g)
              \/ Consume(h) \/ Call(h) \/ AnswerWrite(h) \/ AnswerRead(h) \/ Die(h)
       PROVE  UNCHANGED ledger
  BY <1>11 DEF RestAuthorize, Consume, Call, AnswerWrite, AnswerRead, Die
<1>12. ASSUME \/ \E g \in Grant, r \in Request : MintGrant(g, r)
              \/ \E g \in Grant : GrantExpires(g)
              \/ \E r \in Request : RequestWindowEnds(r)
              \/ \E r \in Write \cup Message : \E n \in DOMAIN world[r] : ProviderSettles(r, n)
       PROVE  UNCHANGED ledger
  BY <1>12 DEF MintGrant, GrantExpires, RequestWindowEnds, ProviderSettles
<1> QED
  BY <1>1, <1>4, <1>5, <1>6, <1>7, <1>8, <1>9, <1>10, <1>11, <1>12
  DEF Next, HandlerStep, vars

\* The ledger, its unresolved rows and its cached responses stay within the
\* budgets, by whichever transaction a row is added, completed or reconciled.
THEOREM BudgetsKept == Spec => []WithinBudgets
<1>1. BudgetInv => WithinBudgets
  BY DEF BudgetInv
<1>2. Spec => []BudgetInv
  BY BudgetInit, BudgetStep, PTL DEF Spec
<1> QED
  BY <1>1, <1>2, PTL

-----------------------------------------------------------------------------
(* Receipts and what the provider did.                                      *)

Applied(r) == world[r] # <<>> /\ world[r][Len(world[r])] = "applied"

\* What a handler has heard of an attempt is so, and the attempt it waits for
\* is the last one.
HandlerTrue(h) ==
    /\ hs[h].pc = "waiting" =>
          hs[h].ref = Len(world[hs[h].req]) /\ hs[h].ref \in DOMAIN world[hs[h].req]
    /\ hs[h].pc = "answered" /\ hs[h].req \in Write \cup Message =>
          /\ hs[h].ref \in {0, Len(world[hs[h].req])}
          /\ hs[h].out = "SUCCEEDED" => Applied(hs[h].req)
    /\ hs[h].settled = "SUCCEEDED" =>
          /\ hs[h].about \in Write /\ hs[h].ref \in DOMAIN world[hs[h].about]
          /\ world[hs[h].about][hs[h].ref] = "applied"
    /\ hs[h].pc \notin {"answered", "completed"} => hs[h].settled = "none"

\* The operation_ref of an unresolved row names its last attempt.
RowTrue(r) ==
    /\ ledger[r].state = "SUCCEEDED" => Applied(r)
    /\ ledger[r].state \in Unresolved /\ ledger[r].ref # 0 =>
          ledger[r].ref = Len(world[r])

VerifyInv ==
    /\ LedgerInv
    /\ \A h \in Handler : HandlerTrue(h)
    /\ \A r \in Write \cup Message : RowTrue(r)

\* No attempt of q is added, and one that was carried out stays so.
Steady(q) ==
    /\ Len(world'[q]) = Len(world[q])
    /\ \A n \in DOMAIN world[q] :
          n \in DOMAIN world'[q] /\ (world[q][n] = "applied" => world'[q][n] = "applied")

\* A row that is deleted, or whose state and operation_ref stay.
RowStays(q) ==
    \/ ledger'[q].state = "ABSENT"
    \/ ledger'[q].state = ledger[q].state /\ ledger'[q].ref = ledger[q].ref

\* The attempts of a request are a sequence; Applied is about its last one.
LEMMA Worlds ==
    ASSUME LedgerInv
    PROVE  \A r \in Request :
              /\ world[r] \in Seq({"open", "applied", "refused"})
              /\ Len(world[r]) \in Nat /\ DOMAIN world[r] = 1..Len(world[r])
              /\ Applied(r) <=> Len(world[r]) \in DOMAIN world[r]
                                  /\ world[r][Len(world[r])] = "applied"
<1>1. \A r \in Request : world[r] \in Seq({"open", "applied", "refused"})
  BY DEF LedgerInv, TypeOK
<1>2. ASSUME NEW s \in Seq({"open", "applied", "refused"})
      PROVE  /\ Len(s) \in Nat /\ DOMAIN s = 1..Len(s)
             /\ s # <<>> <=> Len(s) \in 1..Len(s)
  OBVIOUS
<1> QED
  BY <1>1, <1>2 DEF Applied

\* A last attempt that was carried out stays so.
LEMMA SteadyApplied ==
    ASSUME LedgerInv, LedgerInv', NEW r \in Request, Steady(r), Applied(r)
    PROVE  Applied(r)'
<1>1. /\ Len(world[r]) \in DOMAIN world[r] /\ world[r][Len(world[r])] = "applied"
  BY Worlds
<1>2. /\ Len(world'[r]) = Len(world[r]) /\ Len(world[r]) \in DOMAIN world'[r]
      /\ world'[r][Len(world[r])] = "applied"
  BY <1>1 DEF Steady
<1>3. world'[r] # <<>>
  <2>1. world'[r] \in Seq({"open", "applied", "refused"})
    BY DEF LedgerInv, TypeOK
  <2> QED
    BY <1>1, <1>2, <2>1
<1> QED
  BY <1>2, <1>3 DEF Applied

\* What an unmoved handler has heard stays true.
LEMMA HandlerStaysTrue ==
    ASSUME LedgerInv, LedgerInv', NEW h \in Handler, HandlerTrue(h), hs'[h] = hs[h],
           \A q \in Request : Steady(q)
    PROVE  HandlerTrue(h)'
<1>1. hs[h].pc \in {"waiting", "answered"} => hs[h].req \in Request
  BY DEF LedgerInv, HandlersCarry, Busy
<1>2. hs[h].about \in Write => hs[h].about \in Request
  BY DEF Request
<1>3. hs'[h].pc = "waiting" =>
         hs'[h].ref = Len(world'[hs'[h].req]) /\ hs'[h].ref \in DOMAIN world'[hs'[h].req]
  BY <1>1 DEF HandlerTrue, Steady
<1>4. hs'[h].pc = "answered" /\ hs'[h].req \in Write \cup Message =>
         /\ hs'[h].ref \in {0, Len(world'[hs'[h].req])}
         /\ hs'[h].out = "SUCCEEDED" => Applied(hs[h].req)'
  BY <1>1, SteadyApplied DEF HandlerTrue, Steady
<1>5. hs'[h].settled = "SUCCEEDED" =>
         /\ hs'[h].about \in Write /\ hs'[h].ref \in DOMAIN world'[hs'[h].about]
         /\ world'[hs'[h].about][hs'[h].ref] = "applied"
  BY <1>2 DEF HandlerTrue, Steady
<1>6. hs'[h].pc \notin {"answered", "completed"} => hs'[h].settled = "none"
  BY DEF HandlerTrue
<1> QED
  BY <1>3, <1>4, <1>5, <1>6 DEF HandlerTrue, Applied

\* The invariant is kept by a step without new attempts that leaves handlers
\* and rows alone or makes them true.
LEMMA VerifyKeeps ==
    ASSUME VerifyInv, LedgerInv', \A q \in Request : Steady(q),
           \A h \in Handler : hs'[h] = hs[h] \/ HandlerTrue(h)',
           \A q \in Write \cup Message : RowStays(q) \/ RowTrue(q)'
    PROVE  VerifyInv'
<1>1. \A h \in Handler : HandlerTrue(h)'
  BY HandlerStaysTrue DEF VerifyInv
<1>2. ASSUME NEW q \in Write \cup Message, RowStays(q) PROVE RowTrue(q)'
  <2>1. q \in Request /\ RowTrue(q)
    BY DEF Request, VerifyInv
  <2>2. ledger'[q].state = "SUCCEEDED" => Applied(q)'
    BY <1>2, <2>1, SteadyApplied DEF VerifyInv, RowStays, RowTrue
  <2>3. ledger'[q].state \in Unresolved /\ ledger'[q].ref # 0 =>
           ledger'[q].ref = Len(world'[q])
    BY <1>2, <2>1 DEF RowStays, RowTrue, Steady, Unresolved
  <2> QED
    BY <2>2, <2>3 DEF RowTrue
<1> QED
  BY <1>1, <1>2 DEF VerifyInv

\* A handler that has not called, or has stopped.
LEMMA QuietHandler ==
    ASSUME NEW h \in Handler, hs'[h].settled = "none",
           hs'[h].pc \notin {"waiting", "answered"}
    PROVE  HandlerTrue(h)'
BY DEF HandlerTrue

\* Nothing happens at the provider.
LEMMA SameWorld ==
    ASSUME UNCHANGED world
    PROVE  \A q \in Request : Steady(q)
BY DEF Steady

\* Deleted rows.
LEMMA WithoutStays ==
    ASSUME NEW R, ledger' = Without(ledger, R), NEW q \in Request
    PROVE  RowStays(q)
BY DEF Without, AbsentRow, EmptyRow, RowStays

\* Steps that touch no attempt: handlers that move are not about an answer,
\* and rows that change are deleted or in progress.
LEMMA QuietStep ==
    ASSUME VerifyInv, LedgerInv', UNCHANGED world,
           \A h \in Handler :
              \/ hs'[h] = hs[h]
              \/ hs'[h].settled = "none" /\ hs'[h].pc \notin {"waiting", "answered"},
           \A q \in Write \cup Message : RowStays(q) \/ ledger'[q].state = "IN_PROGRESS"
    PROVE  VerifyInv'
<1>1. \A q \in Request : Steady(q)
  BY SameWorld
<1>2. \A h \in Handler : hs'[h] = hs[h] \/ HandlerTrue(h)'
  BY QuietHandler
<1>3. \A q \in Write \cup Message : RowStays(q) \/ RowTrue(q)'
  BY DEF RowTrue, Unresolved
<1> QED
  BY <1>1, <1>2, <1>3, VerifyKeeps

\* Grants, windows, expiries and the death of a handler.
LEMMA QuietVerified ==
    ASSUME VerifyInv, LedgerInv',
           \/ \E g \in Grant, r \in Request : MintGrant(g, r)
           \/ \E g \in Grant : GrantExpires(g)
           \/ \E r \in Request : RequestWindowEnds(r) \/ ReceiptExpires(r)
           \/ \E h \in Handler, g \in Grant, r \in Rest : RestAuthorize(h, r, g)
           \/ \E h \in Handler : Consume(h) \/ Refuse(h) \/ Attach(h) \/ Die(h)
    PROVE  VerifyInv'
<1>0. TypeOK /\ HandlersCarry
  BY DEF VerifyInv, LedgerInv
<1>1. IdleHandler.settled = "none" /\ IdleHandler.pc = "idle"
  BY DEF IdleHandler, HandlerAt
<1>2. \A q \in Write \cup Message : q \in Request
  BY DEF Request
<1>3. CASE \/ \E g \in Grant, r \in Request : MintGrant(g, r)
           \/ \E g \in Grant : GrantExpires(g)
           \/ \E r \in Request : RequestWindowEnds(r)
  <2>1. UNCHANGED <<world, hs, ledger>>
    BY <1>3 DEF MintGrant, GrantExpires, RequestWindowEnds
  <2> QED
    BY <2>1, QuietStep DEF RowStays
<1>4. ASSUME NEW r \in Request, ReceiptExpires(r) PROVE VerifyInv'
  <2>1. UNCHANGED <<world, hs>>
    BY <1>4 DEF ReceiptExpires
  <2>2. \A q \in Request : RowStays(q)
    BY <1>0, <1>4 DEF ReceiptExpires, TypeOK, Row, RowStays
  <2> QED
    BY <1>2, <2>1, <2>2, QuietStep
<1>5. ASSUME NEW h \in Handler, NEW g \in Grant, NEW r \in Rest, RestAuthorize(h, r, g)
      PROVE  VerifyInv'
  <2>1. /\ UNCHANGED <<world, ledger>>
        /\ hs' = [hs EXCEPT ![h] = HandlerAt("resting", r, g)]
    BY <1>5 DEF RestAuthorize
  <2>2. \A i \in Handler : \/ hs'[i] = hs[i]
                           \/ hs'[i].settled = "none" /\ hs'[i].pc = "resting"
    BY <1>0, <2>1 DEF TypeOK, HandlerAt
  <2> QED
    BY <2>1, <2>2, QuietStep DEF RowStays
<1>6. ASSUME NEW h \in Handler, Consume(h) PROVE VerifyInv'
  <2>1. /\ UNCHANGED <<world, ledger>> /\ hs[h].pc \in {"reserved", "replaying"}
        /\ hs' = [hs EXCEPT ![h].pc = IF @ = "reserved" THEN "granted" ELSE "refreshed"]
    BY <1>6 DEF Consume
  <2>2. hs[h].settled = "none"
    BY <2>1 DEF VerifyInv, HandlerTrue
  <2>3. \A i \in Handler \ {h} : hs'[i] = hs[i]
    BY <1>0, <2>1 DEF TypeOK
  <2>4. hs'[h].settled = "none" /\ hs'[h].pc \in {"granted", "refreshed"}
    BY <1>0, <2>1, <2>2 DEF TypeOK, HandlerRow
  <2> QED
    BY <2>1, <2>3, <2>4, QuietStep DEF RowStays
<1>7. ASSUME NEW h \in Handler, Refuse(h) PROVE VerifyInv'
  <2>1. PICK R : ledger' = Without(ledger, R)
    BY <1>7 DEF Refuse
  <2>2. UNCHANGED world /\ hs' = [hs EXCEPT ![h] = IdleHandler]
    BY <1>7 DEF Refuse
  <2>3. \A i \in Handler : hs'[i] = hs[i] \/ hs'[i] = IdleHandler
    BY <1>0, <2>2 DEF TypeOK
  <2>4. \A q \in Write \cup Message : RowStays(q)
    BY <1>2, <2>1, WithoutStays
  <2> QED
    BY <1>1, <2>2, <2>3, <2>4, QuietStep
<1>8. ASSUME NEW h \in Handler, Attach(h) PROVE VerifyInv'
  <2>1. /\ UNCHANGED world /\ hs[h].pc \in {"granted", "refreshed"}
        /\ ledger' = [ledger EXCEPT ![hs[h].req].grant = hs[h].grant]
        /\ hs' = [hs EXCEPT ![h] = IF @.pc = "granted" THEN [@ EXCEPT !.pc = "calling"]
                                   ELSE IdleHandler]
    BY <1>8 DEF Attach
  <2>2. hs[h].settled = "none"
    BY <2>1 DEF VerifyInv, HandlerTrue
  <2>3. \A i \in Handler \ {h} : hs'[i] = hs[i]
    BY <1>0, <2>1 DEF TypeOK
  <2>4. hs'[h].settled = "none" /\ hs'[h].pc \in {"calling", "idle"}
    BY <1>0, <1>1, <2>1, <2>2 DEF TypeOK, HandlerRow
  <2>5. \A q \in Request : RowStays(q)
    BY <1>0, <2>1 DEF TypeOK, Row, RowStays
  <2> QED
    BY <1>2, <2>1, <2>3, <2>4, <2>5, QuietStep
<1>9. ASSUME NEW h \in Handler, Die(h) PROVE VerifyInv'
  <2>1. UNCHANGED <<world, ledger>> /\ hs' = [hs EXCEPT ![h] = IdleHandler]
    BY <1>9 DEF Die
  <2>2. \A i \in Handler : hs'[i] = hs[i] \/ hs'[i] = IdleHandler
    BY <1>0, <2>1 DEF TypeOK
  <2> QED
    BY <1>1, <2>1, <2>2, QuietStep DEF RowStays
<1> QED
  BY <1>3, <1>4, <1>5, <1>6, <1>7, <1>8, <1>9

\* A reservation, and one that finds the row.
LEMMA ReserveVerified ==
    ASSUME VerifyInv, LedgerInv', NEW h \in Handler, NEW g \in Grant,
           Reserve(h, g) \/ ReserveReplays(h, g)
    PROVE  VerifyInv'
<1>0. TypeOK /\ \A q \in Write \cup Message : q \in Request
  BY DEF VerifyInv, LedgerInv, Request
<1>1. CASE Reserve(h, g)
  <2>1. PICK R : ledger' = [Without(Without(ledger, DueRows(ledger)), R)
                              EXCEPT ![grants[g].req] = EmptyRow("IN_PROGRESS", g)]
    BY <1>1 DEF Reserve, NewAttempt
  <2>2. UNCHANGED world /\ hs' = [hs EXCEPT ![h] = HandlerAt("reserved", grants[g].req, g)]
    BY <1>1 DEF Reserve, NewAttempt
  <2>3. \A i \in Handler : \/ hs'[i] = hs[i]
                           \/ hs'[i].settled = "none" /\ hs'[i].pc = "reserved"
    BY <1>0, <2>2 DEF TypeOK, HandlerAt
  <2>4. \A q \in Request : RowStays(q) \/ ledger'[q].state = "IN_PROGRESS"
    BY <2>1 DEF Without, AbsentRow, EmptyRow, RowStays
  <2> QED
    BY <1>0, <2>2, <2>3, <2>4, QuietStep
<1>2. CASE ReserveReplays(h, g)
  <2>1. /\ UNCHANGED world /\ ledger' = Without(ledger, DueRows(ledger))
        /\ hs' = [hs EXCEPT ![h] = IF ledger[grants[g].req].grant = g THEN IdleHandler
                                   ELSE HandlerAt("replaying", grants[g].req, g)]
    BY <1>2 DEF ReserveReplays
  <2>2. \A i \in Handler : \/ hs'[i] = hs[i]
                           \/ hs'[i].settled = "none" /\ hs'[i].pc \in {"idle", "replaying"}
    BY <1>0, <2>1 DEF TypeOK, HandlerAt, IdleHandler
  <2>3. \A q \in Write \cup Message : RowStays(q)
    BY <1>0, <2>1, WithoutStays
  <2> QED
    BY <2>1, <2>2, <2>3, QuietStep
<1> QED
  BY <1>1, <1>2

\* The provider settles an attempt nobody has settled.
LEMMA SettleVerified ==
    ASSUME VerifyInv, LedgerInv', NEW r \in Write \cup Message,
           NEW n \in DOMAIN world[r], ProviderSettles(r, n)
    PROVE  VerifyInv'
<1>1. PICK fate \in {"applied", "refused"} : world' = [world EXCEPT ![r][n] = fate]
  BY DEF ProviderSettles
<1>2. /\ UNCHANGED <<ledger, hs>> /\ world[r][n] = "open" /\ r \in Request
      /\ world \in [Request -> Seq({"open", "applied", "refused"})]
  BY DEF ProviderSettles, VerifyInv, LedgerInv, TypeOK, Request
<1>3. \A q \in Request : Steady(q)
  BY <1>1, <1>2 DEF Steady
<1> QED
  BY <1>2, <1>3, VerifyKeeps DEF RowStays

\* An answer to a write or a message is about its last attempt.
LEMMA AnswerVerified ==
    ASSUME VerifyInv, LedgerInv', NEW h \in Handler, AnswerWrite(h)
    PROVE  VerifyInv'
<1> DEFINE r == hs[h].req
           n == hs[h].ref
<1>1. /\ UNCHANGED ledger /\ hs[h].pc = "waiting" /\ r \in Write \cup Message
      /\ r \in Request
  BY DEF AnswerWrite, Request
<1>2. PICK st \in WriteAnswers \cup MessageAnswers, ref \in {0, n} :
         /\ world[r][n] \in {"open", FateOf(st, world[r][n])}
         /\ world' = [world EXCEPT ![r][n] = FateOf(st, @)]
         /\ hs' = [hs EXCEPT ![h] = [@ EXCEPT !.pc = "answered", !.out = st, !.ref = ref]]
  BY DEF AnswerWrite
<1>3. /\ n = Len(world[r]) /\ n \in DOMAIN world[r] /\ hs[h].settled = "none"
  BY <1>1 DEF VerifyInv, HandlerTrue
<1>4. /\ world \in [Request -> Seq({"open", "applied", "refused"})]
      /\ hs \in [Handler -> HandlerRow]
  BY DEF VerifyInv, LedgerInv, TypeOK
<1>5. /\ st = "SUCCEEDED" => FateOf(st, world[r][n]) = "applied"
      /\ world[r][n] = "applied" => FateOf(st, world[r][n]) = "applied"
      /\ FateOf(st, world[r][n]) \in {"open", "applied", "refused"}
  <2>1. world[r][n] \in {"open", "applied", "refused"}
    BY <1>1, <1>3, <1>4
  <2> QED
    BY <1>2, <2>1 DEF FateOf, TerminalStates
<1> DEFINE f == FateOf(st, world[r][n])
<1>6. world' = [world EXCEPT ![r][n] = f]
  BY <1>2
<1> HIDE DEF f, r, n
<1>7. /\ \A q \in Request : Steady(q)
      /\ Len(world'[r]) = n /\ world'[r][n] = f
  BY <1>1, <1>3, <1>4, <1>5, <1>6 DEF Steady, f
<1>8. \A i \in Handler \ {h} : hs'[i] = hs[i]
  BY <1>2, <1>4
<1>9. /\ hs'[h].pc = "answered" /\ hs'[h].req = r /\ hs'[h].out = st
      /\ hs'[h].ref = ref /\ hs'[h].settled = "none"
  BY <1>2, <1>3, <1>4 DEF HandlerRow, r
<1>10. st = "SUCCEEDED" => world'[r] # <<>> /\ world'[r][Len(world'[r])] = "applied"
  <2>1. world'[r] # <<>>
    <3>1. world'[r] \in Seq({"open", "applied", "refused"}) /\ n \in DOMAIN world'[r]
      BY <1>1, <1>3, <1>7 DEF LedgerInv, TypeOK, Steady
    <3> QED
      BY <3>1
  <2> QED
    BY <1>5, <1>7, <2>1 DEF f
<1>11. HandlerTrue(h)'
  BY <1>7, <1>9, <1>10 DEF HandlerTrue, Applied
<1> QED
  BY <1>1, <1>7, <1>8, <1>11, VerifyKeeps DEF RowStays

\* An answer to a status read is about an attempt of a write.
LEMMA ReadVerified ==
    ASSUME VerifyInv, LedgerInv', NEW h \in Handler, AnswerRead(h)
    PROVE  VerifyInv'
<1>1. /\ UNCHANGED <<ledger, world>> /\ hs[h].req \in Read
  BY DEF AnswerRead
<1>2. PICK w \in Write : \E n \in DOMAIN world[w], out \in {"SUCCEEDED", "FAILED"} :
         hs' = [hs EXCEPT ![h] = [@ EXCEPT !.pc = "answered", !.out = out, !.ref = n,
                                           !.about = w,
                                           !.settled = IF out = "SUCCEEDED"
                                                       THEN ReadsAs(world[w][n])
                                                       ELSE "FAILED"]]
  BY DEF AnswerRead
<1>2a. PICK n \in DOMAIN world[w], out \in {"SUCCEEDED", "FAILED"} :
         hs' = [hs EXCEPT ![h] = [@ EXCEPT !.pc = "answered", !.out = out, !.ref = n,
                                           !.about = w,
                                           !.settled = IF out = "SUCCEEDED"
                                                       THEN ReadsAs(world[w][n])
                                                       ELSE "FAILED"]]
  BY <1>2
<1>3. hs \in [Handler -> HandlerRow]
  BY DEF VerifyInv, LedgerInv, TypeOK
<1>4. \A i \in Handler \ {h} : hs'[i] = hs[i]
  BY <1>2a, <1>3
<1>5. /\ hs'[h].pc = "answered" /\ hs'[h].req = hs[h].req /\ hs'[h].ref = n
      /\ hs'[h].about = w
      /\ hs'[h].settled = IF out = "SUCCEEDED" THEN ReadsAs(world[w][n]) ELSE "FAILED"
  BY <1>2a, <1>3 DEF HandlerRow
<1>6. hs'[h].settled = "SUCCEEDED" => world[w][n] = "applied"
  BY <1>5 DEF ReadsAs
<1>7. HandlerTrue(h)'
  BY <1>1, <1>5, <1>6, LedgerAssumption DEF HandlerTrue
<1> QED
  BY <1>1, <1>4, <1>7, SameWorld, VerifyKeeps DEF RowStays

\* A call starts an attempt of a row in progress; no other handler waits for
\* one.
LEMMA CallVerified ==
    ASSUME VerifyInv, LedgerInv', NEW h \in Handler, Call(h)
    PROVE  VerifyInv'
<1> DEFINE r == hs[h].req
<1>1. /\ UNCHANGED ledger /\ hs[h].pc = "calling"
      /\ world' = [world EXCEPT ![r] = Append(@, "open")]
      /\ hs' = [hs EXCEPT ![h] = [@ EXCEPT !.pc = "waiting", !.ref = Len(world[r]) + 1]]
  BY DEF Call
<1>2. /\ r \in Request /\ ledger[r].state = "IN_PROGRESS"
      /\ \A i \in Handler \ {h} : hs[i].pc \in Busy => hs[i].req \in Request \ {r}
  BY <1>1 DEF VerifyInv, LedgerInv, HandlersCarry, RowsOwned, Busy, Uncalled
<1>3. /\ world \in [Request -> Seq({"open", "applied", "refused"})]
      /\ hs \in [Handler -> HandlerRow] /\ hs[h].settled = "none"
  BY <1>1 DEF VerifyInv, LedgerInv, TypeOK, HandlerTrue
<1> HIDE DEF r
<1>4. /\ Len(world'[r]) = Len(world[r]) + 1 /\ Len(world'[r]) \in DOMAIN world'[r]
      /\ \A n \in DOMAIN world[r] : n \in DOMAIN world'[r] /\ world'[r][n] = world[r][n]
      /\ \A q \in Request \ {r} : world'[q] = world[q]
  <2>1. ASSUME NEW s \in Seq({"open", "applied", "refused"})
        PROVE  /\ Len(Append(s, "open")) = Len(s) + 1
               /\ Len(s) + 1 \in DOMAIN Append(s, "open")
               /\ \A n \in DOMAIN s : n \in DOMAIN Append(s, "open")
                                        /\ Append(s, "open")[n] = s[n]
    OBVIOUS
  <2> QED
    BY <1>1, <1>2, <1>3, <2>1
<1>5. \A i \in Handler \ {h} : hs'[i] = hs[i]
  BY <1>1, <1>3
<1>6. /\ hs'[h].pc = "waiting" /\ hs'[h].req = r /\ hs'[h].ref = Len(world[r]) + 1
      /\ hs'[h].settled = "none"
  BY <1>1, <1>3 DEF HandlerRow, r
<1>7. HandlerTrue(h)'
  BY <1>4, <1>6 DEF HandlerTrue
<1>8. ASSUME NEW i \in Handler \ {h} PROVE HandlerTrue(i)'
  <2>1. HandlerTrue(i) /\ hs'[i] = hs[i]
    BY <1>5 DEF VerifyInv
  <2>2. hs[i].pc \in {"waiting", "answered"} => hs[i].req \in Request \ {r}
    BY <1>2 DEF Busy
  <2>3. hs[i].about \in Write => hs[i].about \in Request
    BY DEF Request
  <2>4. hs'[i].pc = "waiting" =>
           hs'[i].ref = Len(world'[hs'[i].req]) /\ hs'[i].ref \in DOMAIN world'[hs'[i].req]
    BY <1>4, <2>1, <2>2 DEF HandlerTrue
  <2>5. hs'[i].pc = "answered" /\ hs'[i].req \in Write \cup Message =>
           /\ hs'[i].ref \in {0, Len(world'[hs'[i].req])}
           /\ hs'[i].out = "SUCCEEDED" => Applied(hs[i].req)'
    BY <1>4, <2>1, <2>2 DEF HandlerTrue, Applied
  <2>6. hs'[i].settled = "SUCCEEDED" =>
           /\ hs'[i].about \in Write /\ hs'[i].ref \in DOMAIN world'[hs'[i].about]
           /\ world'[hs'[i].about][hs'[i].ref] = "applied"
    BY <1>4, <2>1, <2>3 DEF HandlerTrue
  <2> QED
    BY <2>1, <2>4, <2>5, <2>6 DEF HandlerTrue, Applied
<1>9. ASSUME NEW q \in Write \cup Message PROVE RowTrue(q)'
  BY <1>1, <1>2, <1>4 DEF RowTrue, VerifyInv, Applied, Request, Unresolved
<1> QED
  BY <1>7, <1>8, <1>9 DEF VerifyInv

\* A stored receipt names its attempt; other rows stay or are deleted.
LEMMA ReceiptRefs ==
    ASSUME TypeOK, NEW r \in Request, NEW st, NEW ref,
           StoreReceipt(r, st, ref)
    PROVE  /\ ledger'[r].state = st /\ ledger'[r].ref = ref
           /\ \A q \in Request \ {r} : RowStays(q)
<1>1. PICK cached \in BOOLEAN :
        LET L == IF cached THEN Trimmed(ledger, r) ELSE ledger
        IN  ledger' = WithReceipt(L, r, st, ref, cached /\ Fits(L))
  BY DEF StoreReceipt
<1> DEFINE L == IF cached THEN Trimmed(ledger, r) ELSE ledger
           keep == cached /\ Fits(L)
<1>2. ledger \in [Request -> Row]
  BY DEF TypeOK
<1>3. L \in [Request -> Row] /\ ledger' = WithReceipt(L, r, st, ref, keep)
  BY <1>1, <1>2, TrimmedRows
<1>4. \A q \in Request : \/ L[q].state = "ABSENT"
                         \/ L[q].state = ledger[q].state /\ L[q].ref = ledger[q].ref
  <2> DEFINE M == Without(ledger, DueRows(ledger))
             drop == Oldest(Receipts(M) \ {r}, Excess(Receipts(M), ReceiptMax))
  <2>1. M \in [Request -> Row]
    BY <1>2, WithoutType
  <2>2. \A q \in Request : M[q] = AbsentRow \/ M[q] = ledger[q]
    BY DEF Without
  <2>3. \A q \in Request : Trimmed(ledger, r)[q] =
           IF q \in drop THEN [M[q] EXCEPT !.resp = FALSE] ELSE M[q]
    BY DEF Trimmed
  <2>4. AbsentRow.state = "ABSENT"
    BY DEF AbsentRow, EmptyRow
  <2> HIDE DEF M, drop
  <2>5. \A q \in Request : Trimmed(ledger, r)[q].state = M[q].state
                             /\ Trimmed(ledger, r)[q].ref = M[q].ref
    BY <2>1, <2>3 DEF Row
  <2> QED
    BY <2>2, <2>4, <2>5
<1> HIDE DEF L, keep
<1>5. /\ \A q \in Request \ {r} : ledger'[q] = L[q]
      /\ ledger'[r].state = st /\ ledger'[r].ref = ref
  BY <1>3 DEF WithReceipt, Row
<1> QED
  BY <1>4, <1>5 DEF RowStays

\* The answer of an attempt, and the receipt of a status read.
LEMMA CompleteVerified ==
    ASSUME VerifyInv, LedgerInv', NEW h \in Handler, Complete(h)
    PROVE  VerifyInv'
<1> DEFINE r == hs[h].req
<1>1. /\ hs[h].pc = "answered" /\ UNCHANGED world
      /\ StoreReceipt(r, hs[h].out, IF r \in Read THEN 0 ELSE hs[h].ref)
      /\ hs' = [hs EXCEPT ![h] = IF @.settled # "none" THEN [@ EXCEPT !.pc = "completed"]
                                 ELSE IdleHandler]
  BY DEF Complete
<1>2. TypeOK /\ r \in Request /\ HandlerTrue(h)
  BY <1>1 DEF VerifyInv, LedgerInv, HandlersCarry, Busy
<1>3. /\ ledger'[r].state = hs[h].out
      /\ ledger'[r].ref = IF r \in Read THEN 0 ELSE hs[h].ref
      /\ \A q \in Request \ {r} : RowStays(q)
  BY <1>1, <1>2, ReceiptRefs
<1>4. \A i \in Handler \ {h} : hs'[i] = hs[i]
  BY <1>1, <1>2 DEF TypeOK
<1>5. HandlerTrue(h)'
  <2>1. CASE hs[h].settled = "none"
    <3>1. hs'[h] = IdleHandler
      BY <1>1, <1>2, <2>1 DEF TypeOK
    <3> QED
      BY <3>1, QuietHandler DEF IdleHandler, HandlerAt
  <2>2. CASE hs[h].settled # "none"
    <3>1. /\ hs'[h].pc = "completed" /\ hs'[h].settled = hs[h].settled
          /\ hs'[h].about = hs[h].about /\ hs'[h].ref = hs[h].ref
      BY <1>1, <1>2, <2>2 DEF TypeOK, HandlerRow
    <3> QED
      BY <1>1, <1>2, <3>1 DEF HandlerTrue
  <2> QED
    BY <2>1, <2>2
<1>6. ASSUME NEW q \in Write \cup Message, q = r PROVE RowTrue(q)'
  <2>1. q \notin Read
    BY LedgerAssumption
  <2>2. /\ ledger'[q].ref \in {0, Len(world[q])}
        /\ ledger'[q].state = "SUCCEEDED" => Applied(q)
    BY <1>1, <1>2, <1>3, <1>6, <2>1 DEF HandlerTrue
  <2> QED
    BY <1>1, <2>2 DEF RowTrue, Applied
<1>7. \A q \in Write \cup Message : RowStays(q) \/ RowTrue(q)'
  <2>1. \A q \in Write \cup Message : q # r => RowStays(q)
    BY <1>3 DEF Request
  <2> QED
    BY <1>6, <2>1
<1> QED
  BY <1>1, <1>4, <1>5, <1>7, SameWorld, VerifyKeeps

\* A reconciled row takes what the read saw of its last attempt.
LEMMA ReconcileVerified ==
    ASSUME VerifyInv, LedgerInv', NEW h \in Handler, Reconcile(h)
    PROVE  VerifyInv'
<1> DEFINE w == hs[h].about
<1>1. /\ hs[h].pc = "completed" /\ UNCHANGED world
      /\ ledger[w].state \in Unresolved /\ ledger[w].ref = hs[h].ref
      /\ StoreReceipt(w, hs[h].settled, hs[h].ref)
      /\ hs' = [hs EXCEPT ![h] = IdleHandler]
  BY DEF Reconcile
<1>2. /\ TypeOK /\ w \in Write /\ w \in Request /\ HandlerTrue(h) /\ RowTrue(w)
      /\ hs[h].settled \in {"SUCCEEDED", "FAILED"}
  BY <1>1 DEF VerifyInv, LedgerInv, HandlersCarry, Request, TypeOK, HandlerRow
<1>3. /\ ledger'[w].state = hs[h].settled
      /\ \A q \in Request \ {w} : RowStays(q)
  BY <1>1, <1>2, ReceiptRefs
<1>4. \A i \in Handler \ {h} : hs'[i] = hs[i]
  BY <1>1, <1>2 DEF TypeOK
<1>5. HandlerTrue(h)'
  <2>1. hs'[h] = IdleHandler
    BY <1>1, <1>2 DEF TypeOK
  <2> QED
    BY <2>1, QuietHandler DEF IdleHandler, HandlerAt
<1>6. hs[h].settled = "SUCCEEDED" => Applied(w)
  <2>1. ASSUME hs[h].settled = "SUCCEEDED"
        PROVE  hs[h].ref \in DOMAIN world[w] /\ world[w][hs[h].ref] = "applied"
    BY <1>2, <2>1 DEF HandlerTrue
  <2>2. /\ DOMAIN world[w] = 1..Len(world[w]) /\ Len(world[w]) \in Nat
        /\ Applied(w) <=> Len(world[w]) \in DOMAIN world[w]
                            /\ world[w][Len(world[w])] = "applied"
    BY <1>2, Worlds DEF VerifyInv
  <2>3. ASSUME hs[h].ref \in DOMAIN world[w] PROVE hs[h].ref = Len(world[w])
    <3>1. hs[h].ref # 0
      BY <2>2, <2>3
    <3> QED
      BY <1>1, <1>2, <3>1 DEF RowTrue
  <2> QED
    BY <2>1, <2>2, <2>3
<1>7. ASSUME NEW q \in Write \cup Message PROVE RowStays(q) \/ RowTrue(q)'
  <2>1. CASE q = w
    <3> HIDE DEF w
    <3> QED
      BY <1>1, <1>2, <1>3, <1>6, <2>1 DEF RowTrue, Applied, Unresolved
  <2>2. CASE q # w
    BY <1>3, <2>2 DEF Request
  <2> QED
    BY <2>1, <2>2
<1> QED
  BY <1>1, <1>4, <1>5, <1>7, SameWorld, VerifyKeeps

-----------------------------------------------------------------------------
\* No handler, no row and no attempt: nothing to be false.
LEMMA VerifyInit == Init => VerifyInv
<1> SUFFICES ASSUME Init PROVE VerifyInv
  OBVIOUS
<1>1. \A h \in Handler : hs[h].pc = "idle" /\ hs[h].settled = "none"
  BY DEF Init, IdleHandler, HandlerAt
<1>2. \A r \in Write \cup Message : ledger[r].state = "ABSENT"
  BY DEF Init, Request, AbsentRow, EmptyRow
<1> QED
  BY <1>1, <1>2, InitHolds DEF VerifyInv, HandlerTrue, RowTrue, Unresolved

\* Every step keeps receipts true, by the lemma of its group.
LEMMA VerifyStep == VerifyInv /\ [Next]_vars => VerifyInv'
<1> SUFFICES ASSUME VerifyInv, [Next]_vars PROVE VerifyInv'
  OBVIOUS
<1>0. LedgerInv'
  BY NextKeeps DEF VerifyInv
<1>1. CASE UNCHANGED vars
  <2>1. UNCHANGED <<ledger, hs, world>>
    BY <1>1 DEF vars
  <2> QED
    BY <1>0, <2>1, SameWorld, VerifyKeeps DEF RowStays
<1>2. CASE \/ \E g \in Grant, r \in Request : MintGrant(g, r)
           \/ \E g \in Grant : GrantExpires(g)
           \/ \E r \in Request : RequestWindowEnds(r) \/ ReceiptExpires(r)
           \/ \E h \in Handler, g \in Grant, r \in Rest : RestAuthorize(h, r, g)
           \/ \E h \in Handler : Consume(h) \/ Refuse(h) \/ Attach(h) \/ Die(h)
  BY <1>0, <1>2, QuietVerified
<1>3. CASE \E h \in Handler, g \in Grant : Reserve(h, g) \/ ReserveReplays(h, g)
  BY <1>0, <1>3, ReserveVerified
<1>4. CASE \E r \in Write \cup Message : \E n \in DOMAIN world[r] : ProviderSettles(r, n)
  BY <1>0, <1>4, SettleVerified
<1>5. CASE \E h \in Handler : Call(h)
  BY <1>0, <1>5, CallVerified
<1>6. CASE \E h \in Handler : AnswerWrite(h) \/ AnswerRead(h)
  BY <1>0, <1>6, AnswerVerified, ReadVerified
<1>7. CASE \E h \in Handler : Complete(h) \/ Reconcile(h)
  BY <1>0, <1>7, CompleteVerified, ReconcileVerified
<1> QED
  BY <1>1, <1>2, <1>3, <1>4, <1>5, <1>6, <1>7 DEF Next, HandlerStep

\* A receipt that says SUCCEEDED is about an attempt the provider carried out,
\* whether the attempt's own handler stored it or a status read did.
THEOREM ReceiptsAreTrue == Spec => []VerifiedIsTrue
<1>1. VerifyInv => VerifiedIsTrue
  BY DEF VerifyInv, RowTrue, Applied, VerifiedIsTrue
<1>2. Spec => []VerifyInv
  BY VerifyInit, VerifyStep, PTL DEF Spec
<1> QED
  BY <1>1, <1>2, PTL
=============================================================================
