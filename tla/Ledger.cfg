SPECIFICATION MCSpec
CONSTANTS
    Write = {o1}
    Message = {m1, m2, m3}
    Read = {}
    Rest = {b1}
    Grant = {g1, g2, g3}
    Handler = {h1, h2}
    LedgerMax = 2
    TombstoneMax = 1
    ReceiptMax = 1
    NoGrant = NoGrant
    Scenes = {"mixed", "messages"}
INVARIANT NoBlindRepeat
INVARIANT GrantUsedOnce
INVARIANT AnswerFindsRow
INVARIANT WithinBudgets
SYMMETRY Symmetry
CHECK_DEADLOCK FALSE
