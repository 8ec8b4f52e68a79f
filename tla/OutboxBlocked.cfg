SPECIFICATION FairMCSpec
CONSTANTS
    RestKey = {}
    Event = {e1}
    Link = {}
    Notice = {}
    Kinds = {"comment"}
    Worker = {w1}
    Caller = {c1}
    ReadAttempts = 3
    MaxFence = 3
    NoOp = NoOp
    NoJob = NoJob
    Scenes = {"wecom"}
PROPERTY LeasesEnd
CHECK_DEADLOCK FALSE
