SPECIFICATION Spec
CONSTANTS
    None = None
    Ledgers <- MCLedgers
    Parent <- MCParent
    Window = 2
    Nodes = {"a"}
    Offers <- Conflicting
    Held = {1, 2, 3}
    Early = 4
    Wall = 4
    Local = 3
    SetExpires = 2
    Freshness = 1
    InitialUNL = {"a"}
    KeepRanges <- Ranges
    LocalSeqs = {2}
    MaxTime = 4
    MaxInflight = 1
    MaxTrustChanges = 0
INVARIANTS
    NoEquivocationCounted
PROPERTY
    KeptSetsSurvive
