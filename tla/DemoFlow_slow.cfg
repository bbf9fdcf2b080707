\* The 30 s that Verifier::new gives an answer.
SPECIFICATION Spec
CONSTANTS
    None = None
    MinTip = 2
    MaxLamports = 8
    Percentiles = {3}
    HashTimeout = 15
    SendTimeout = 5
    RpcTimeout = 30
    PollFor = 75
    Nap = 2
    Lifetime = 60
    Confirm = 5
INVARIANTS
    ExpiredIsFinal
