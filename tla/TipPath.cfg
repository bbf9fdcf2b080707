\* Up to three transfers to two tip accounts and another, anywhere among the keys; three
\* may be worth more than Width, two less.
SPECIFICATION PathSpec
CONSTANTS
    None = None
    NotFound = NotFound
    TipAccount = {t1, t2}
    Other = other
    Payer = payer
    Lamports = {2, 3}
    Balance = {1}
    MaxInstructions = 3
    MinTip = 3
    Width = 8
    Supply = 7
INVARIANTS
    SentIsTipped
    RefusedIsShort
    UnresolvedEncloses
    PaidIsWhatArrived
    BidIsChargedOrRefunded
    BidExplainsPayment
    CheckForeseesReport
