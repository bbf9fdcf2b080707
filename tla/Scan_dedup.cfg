\* What the scan says of its count, on three transactions.
SPECIFICATION Spec
CONSTANTS
    None = None
    Accounts = 2
    PageSize = 2
    Cap = 3
    Window = 1
    SampleSize = 2
    Genesis = 10
    MaxSlot = 2
    MaxTransactions = 3
INVARIANTS
    CountedOnce
