SPECIFICATION Spec
CONSTANTS
    Ledgers <- MCLedgers
    Parent <- MCParent
    Window = 4
    MaxHeld = 4
INVARIANTS
    TypeOK
    CheckInvariants
    SupportIsExact
    PreferredAsDocumented
