SPECIFICATION MCSpec
CONSTANTS
    Write = {o1}
    Message = {}
    Read = {s1}
    Rest = {}
    Grant = {g1, g2, g3}
    Handler = {h1, h2}
    LedgerMax = 2
    TombstoneMax = 2
    ReceiptMax = 0
    NoGrant = NoGrant
    Scenes = {"all"}
INVARIANT VerifiedIsTrue
SYMMETRY Symmetry
CHECK_DEADLOCK FALSE
