\* Two accounts, pages of two, up to four transactions in three slots.
SPECIFICATION Spec
CONSTANTS
    None = None
    Accounts = 2
    PageSize = 2
    Cap = 3
    Window = 1
    SampleSize = 2
    Genesis = 10
    MaxSlot = 2
    MaxTransactions = 4
INVARIANTS
    CountsTheWindow
    OnceUnlessInterleaved
    SampleOfBoth
