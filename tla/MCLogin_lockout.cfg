SPECIFICATION Spec
CONSTANTS
    r1 = r1
    r2 = r2
    alice = alice
    bob = bob
    t1 = t1
    t2 = t2
    t3 = t3
    NoUser = NoUser
    NoText = NoText
    TrimSpace <- OneCode
    Req <- TwoReqs
    User <- TwoUsers
    Account <- TwoUsers
    Enrolled <- OneUser
    Founder <- NoFounder
    Text <- OneText
    MaxFailedAttempts = 2
    LockoutDuration = 2
    ReplayTTL = 3
    CodeWindow = 3
    ChallengeTTL = 1
    SessionTTL = 1
    MaxTime = 2
    MaxTokens = 2
SYMMETRY ReqSymmetry
INVARIANTS
    LockNewerThanChecks
    LockoutBound
PROPERTY
    EarlyUnlock
