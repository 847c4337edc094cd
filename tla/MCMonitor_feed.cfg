SPECIFICATION Spec
CONSTANTS
    q1 = q1
    q2 = q2
    c1 = c1
    c2 = c2
    f1 = f1
    api = api
    Gateway = Gateway
    Req <- TwoReqs
    Client <- OneClient
    Reading <- None
    Follower <- OneFollower
    Service <- OneService
    Outcome <- ServiceOutcome
    maxRecentEvents = 2
    ChanCap = 1
    Lines = 1
    FileErrors = TRUE
    MaxEvents = 3
SYMMETRY ReqSymmetry
CHECK_DEADLOCK FALSE
INVARIANTS
    TypeOK
    SnapshotExact
PROPERTIES
    IsFeed
