SPECIFICATION FairSpec
CONSTANTS
    q1 = q1
    q2 = q2
    c1 = c1
    c2 = c2
    f1 = f1
    api = api
    Gateway = Gateway
    Req <- TwoReqs
    Client <- TwoClients
    Reading <- OneClient
    Follower <- None
    Service <- None
    Outcome <- OneOutcome
    maxRecentEvents = 2
    ChanCap = 1
    Lines = 1
    FileErrors = FALSE
    MaxEvents = 2
CHECK_DEADLOCK FALSE
INVARIANTS
    LossesAccounted
PROPERTIES
    RequestsFinish
    EventsArrive
    LeaversForgotten
