\* Two calls of any kind sharing one client's counters.
SPECIFICATION Spec
CONSTANTS
    Call = {c1, c2}
    MinTx = 2
    MaxTx = 5
    MaxBatch = 2
    MaxBody = 14
    Byte = 4
    Lengths = {1, 2, 5, 6}
SYMMETRY CallSymmetry
INVARIANTS
    Ledger
    ToldWhatWasTaken
PROPERTIES
    SubmitRefined
