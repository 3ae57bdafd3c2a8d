SPECIFICATION FairSpec
CONSTANTS
    None = None
    Ledgers <- MCLedgers
    Parent <- MCParent
    Window = 2
    Nodes = {"a", "b"}
    Offers <- Moving
    Held = {2}
    Early = 1
    Wall = 1
    Local = 3
    SetExpires = 1
    Freshness = 1
    InitialUNL = {"a", "b"}
    KeepRanges = {}
    LocalSeqs = {}
    MaxTime = 2
    MaxInflight = 1
    MaxTrustChanges = 1
INVARIANTS
    FlagsFollowTrust
    CurrentIsTracked
    WaitingIsCurrent
    NoFalseAccusation
PROPERTY
    WaitingResolved
