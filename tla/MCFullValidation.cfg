SPECIFICATION Spec
CONSTANTS
    None = None
    a = a
    b = b
    z = z
    Validators = {a, b, z}
    Faulty = {z}
    UNL <- MCUNL
    Quorum <- MCQuorum
    Ledgers = {1, 2, 3}
    Seq <- RivalSeq
    Ancestors <- RivalAncestors
    SetExpires = 0
    MaxTime = 2
    MaxBoots = 1
    MaxSigned = 2
SYMMETRY Interchangeable
CHECK_DEADLOCK FALSE
INVARIANTS
    ForkNeedsForgetting
    
