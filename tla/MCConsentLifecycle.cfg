SPECIFICATION Spec
CONSTANTS
    a = a
    b = b
    a1 = a1
    b1 = b1
    d1 = d1
    d2 = d2
    Consents <- MCConsents
    Terms <- MCTerms
    Direct <- MCDirect
    Request <- MCRequest
    Derived <- MCDerived
    Uses <- MCUses
    Audiences <- MCAudiences
    DerivedDays = 2
    Window = 1
    HoldScopes <- MCHoldScopes
    Review = 1
    Term = 2
    MaxTime = 2
    MaxInputs = 2
    Tightenable = {b}
    MaxPending = 1
    Indexable = {d1}
INVARIANT UseNeedsEveryAuthority
INVARIANT DeletionIsWhole
INVARIANT ExportsAreOwn
PROPERTY HoldStopsDeletion
CHECK_DEADLOCK FALSE
