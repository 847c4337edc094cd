SPECIFICATION Spec
CONSTANTS
    r1 = r1
    r2 = r2
    root = root
    bob = bob
    eve = eve
    Req <- TwoReqs
    Name <- ThreeNames
    Root = root
    NoName = NoName
    Corrupt = Corrupt
    Faults <- AnyFault
    MaxSecrets = 3
    MaxBoots = 2
SYMMETRY ReqSymmetry
CHECK_DEADLOCK FALSE
INVARIANTS
    TypeOK
    SecretInUse
    
    UsersDurable
