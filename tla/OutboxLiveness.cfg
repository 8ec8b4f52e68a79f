SPECIFICATION FairMCSpec
CONSTANTS
    RestKey = {r1, r2}
    Event = {}
    Link = {l1}
    Notice = {n1}
    Kinds = {"close"}
    Worker = {w1}
    Caller = {c1}
    ReadAttempts = 2
    MaxFence = 2
    NoOp = NoOp
    NoJob = NoJob
    Scenes = {"rest", "messages"}
PROPERTY ResolvedOnlyByRead
PROPERTY LeasesEnd
