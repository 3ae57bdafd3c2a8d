SPECIFICATION Spec
CONSTANTS
    None = None
    Ledgers <- MCLedgers
    Parent <- MCParent
    Window = 2
    Nodes = {"a", "b"}
    Offers <- Changing
    Held = {1}
    Early = 3
    Wall = 3
    Local = 3
    SetExpires = 2
    Freshness = 1
    InitialUNL = {"a"}
    KeepRanges = {}
    LocalSeqs = {}
    MaxTime = 1
    MaxInflight = 1
    MaxTrustChanges = 1
PROPERTY
    OnlyTrustedInTrie
