SPECIFICATION MCSpec
CONSTANTS
    NumJobs = 3
    Credits = {1, 2}
    Amounts = {1}
    Welcome = 2
    MaxMoves = 2
    Refs = {r1}
CONSTRAINTS
    FewMoves
    TwoNewJobs
INVARIANTS
    WalletTypeOK
    ReservedIsResiduals
    BalanceIsLedgerSum
    JobPaysWhatItCaptured
    HeldCreditsCanBeReleased
    ClosedHoldsNothing
    LedgerReplays
PROPERTIES
    ClosedAmountsAreFinal
    ImplementsAccount
    OnlyRepairChangesDrift
CHECK_DEADLOCK FALSE
