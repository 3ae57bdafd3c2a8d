SPECIFICATION Spec
CONSTANTS
    NoOne = NoOne
    Ledgers <- MCLedgers
    Parent <- MCParent
    Window = 3
    Validators = {"a", "b", "c"}
    Quorum = 2
    Signed <- AllOfTwoAmong
    Builds = {1, 2, 4}
    Workers = {"w"}
    MaxJump = 3
    MaxLedgerGap = 0
    MaxFailures = 1
CHECK_DEADLOCK FALSE
INVARIANTS
    TypeOK
    
    ValidIsBacked
    PublishedIsValidated
