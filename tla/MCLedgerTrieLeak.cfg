SPECIFICATION Spec
CONSTANTS
    Ledgers <- MCLedgers
    Parent <- MCParent
    Window = 1
    MaxHeld = 4
INVARIANTS
    TipSupportCountsValidations
