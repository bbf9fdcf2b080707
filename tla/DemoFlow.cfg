\* The demo's times, with an RPC that answers within 5 s.
SPECIFICATION Spec
CONSTANTS
    None = None
    MinTip = 2
    MaxLamports = 8
    Percentiles = {None, 0, 1, 3, 9}
    HashTimeout = 15
    SendTimeout = 5
    RpcTimeout = 5
    PollFor = 75
    Nap = 2
    Lifetime = 60
    Confirm = 5
INVARIANTS
    TipSuffices
    EndsInTime
    ExpiredIsFinal
