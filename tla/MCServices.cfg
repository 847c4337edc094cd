SPECIFICATION Spec
CONSTANTS
    r1 = r1
    r2 = r2
    a = a
    b = b
    p1 = p1
    p2 = p2
    Req <- TwoReqs
    Service <- TwoServices
    NoService = NoService
    Password <- TwoPasswords
    NoPassword = NoPassword
    NoFile = NoFile
    Cut = Cut
    MaxRevisions = 2
SYMMETRY Symmetry
CHECK_DEADLOCK FALSE
INVARIANTS
    TypeOK
    CatalogKept
    SecretInForce
    SealedSecretsSurvive
