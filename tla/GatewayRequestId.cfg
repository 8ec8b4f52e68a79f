SPECIFICATION MCSpec
CONSTANTS
    Endpoint = {e1}
    Route = {rt1}
    ApiKey = {a1}
    Key = {k1}
    Thread = {t1}
    Principal = {op1}
    op1 = op1
    Legacy = Legacy
    ScopeOf <- MCScopeOf
    Binding = {b1}
    Nothing = Nothing
    MaxVersion = 2
    MaxReactor = 1
    Request = {q1}
    Header = {h1}
    Quota = 1
    Billed = TRUE
INVARIANT HeaderNamesAudit
CHECK_DEADLOCK FALSE
