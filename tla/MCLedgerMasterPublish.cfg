SPECIFICATION FairSpec
CONSTANTS
    NoOne = NoOne
    Ledgers <- MCLedgers
    Parent <- MCParent
    Window = 3
    Validators = {"a", "b"}
    Quorum = 1
    Signed <- Chained
    Builds = {1}
    Workers = {"w", "x"}
    MaxJump = 3
    MaxLedgerGap = 2
    MaxFailures = 0
CHECK_DEADLOCK FALSE
PROPERTIES
    PublishedIsChain
    ValidAdvances
    ValidIsPublished
