SPECIFICATION Spec
CONSTANTS
    i1 = i1
    i2 = i2
    p1 = p1
    p2 = p2
    NoPassword = NoPassword
    Nobody = Nobody
    Corrupt = Corrupt
    Proc <- ServerOnly
    Id <- TwoIds
    Password <- TwoPasswords
    DeliveryTTL = 1
    Lifetime <- ShortOrImmortal
    MaxTime = 2
    MaxBoots = 3
SYMMETRY IdSymmetry
CHECK_DEADLOCK FALSE
INVARIANTS
    TypeOK
    ClaimedOnce
    RevokeSticks
    NoRevealAfterRevoke
