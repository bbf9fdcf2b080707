\* One call: is every timeout a transport error?
SPECIFICATION Spec
CONSTANTS
    Call = {c1}
    MinTx = 2
    MaxTx = 5
    MaxBatch = 2
    MaxBody = 14
    Byte = 4
    Lengths = {1, 2, 5, 6}
INVARIANTS
    TimeoutsCounted
