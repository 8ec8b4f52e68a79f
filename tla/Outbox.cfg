SPECIFICATION MCSpec
CONSTANTS
    RestKey = {r1}
    Event = {e1}
    Link = {l1}
    Notice = {n1}
    Kinds = {"query", "comment"}
    Worker = {w1, w2}
    Caller = {c1, c2}
    ReadAttempts = 3
    MaxFence = 4
    NoOp = NoOp
    NoJob = NoJob
    Scenes = {"rest", "wecom", "messages"}
INVARIANT TypeOK
INVARIANT AtMostOneEffect
INVARIANT TerminalIsTrue
INVARIANT OperationMatchesJob
INVARIANT ReplyFollowsOutcome
INVARIANT EventShowsReply
PROPERTY ImplementsContract
SYMMETRY Symmetry
CHECK_DEADLOCK FALSE
