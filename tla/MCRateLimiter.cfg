SPECIFICATION Spec
CONSTANTS
    r1 = r1
    r2 = r2
    k1 = k1
    k2 = k2
    NoKey = NoKey
    Req <- TwoReqs
    Key <- OneKey
    Rule <- ThreeRules
    StaleAfter = 600
    Delay <- MinuteOrIdle
    MaxTime = 722
    MaxSweeps = 2
    MaxRpm = 2
    MaxBurst = 2
    MinBurst = 1
SYMMETRY ReqSymmetry
INVARIANTS
    TypeOK
    RateEnvelope
    BurstHonoured
