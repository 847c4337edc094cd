SPECIFICATION Spec
CONSTANTS
    r1 = r1
    r2 = r2
    alice = alice
    bob = bob
    t1 = t1
    t2 = t2
    t3 = t3
    NoUser = NoUser
    NoText = NoText
    TrimSpace <- OneCode
    Req <- TwoReqs
    User <- OneUser
    Account <- OneUser
    Enrolled <- OneUser
    Founder <- NoFounder
    Text <- TwoTexts
    MaxFailedAttempts = 1
    LockoutDuration = 1
    ReplayTTL = 2
    CodeWindow = 2
    ChallengeTTL = 2
    SessionTTL = 2
    MaxTime = 3
    MaxTokens = 3
SYMMETRY ReqSymmetry
INVARIANT CodeAcceptedOnce
