SPECIFICATION Spec
CONSTANTS
    r1 = r1
    r2 = r2
    alice = alice
    bob = bob
    t1 = t1
    t2 = t2
    t3 = t3
    NoUser = NoUser
    NoText = NoText
    TrimSpace <- OneCode
    Req <- TwoReqs
    User <- OneUser
    Account <- OneUser
    Enrolled <- OneUser
    Founder <- OneUser
    Text <- ThreeTexts
    MaxFailedAttempts = 1
    LockoutDuration = 1
    ReplayTTL = 0
    CodeWindow = 1
    ChallengeTTL = 0
    SessionTTL = 0
    MaxTime = 1
    MaxTokens = 3
SYMMETRY ReqSymmetry
INVARIANTS
    TypeOK
    ReplaySpacing
    AcceptedOnceInWindow
    SessionPerAcceptance
    ChallengeBound
