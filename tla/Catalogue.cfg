SPECIFICATION MCSpec
CONSTANTS
    Endpoint = {e1}
    Route = {r1, r2}
    ApiKey = {a1, a2}
    Key = {k1}
    Thread = {t1, t2}
    Principal = {op1, org1}
    op1 = op1
    org1 = org1
    ws1 = ws1
    b1 = b1
    Legacy = Legacy
    ScopeOf <- MCScopeOf
    Binding = {b1, b2}
    Nothing = Nothing
    MaxVersion = 4
    MaxReactor = 3
SYMMETRY MCSymmetry
INVARIANT TypeOK
INVARIANT NoLostEdit
INVARIANT PublishedSourceExisted
INVARIANT ReplaysAgree
PROPERTY PublishedWhilePermitted
CHECK_DEADLOCK FALSE
