\* Two calls and one disturbance, besides any timeouts and dropped calls: every
\* property of the client, and progress by the network or by the deadline alone.
SPECIFICATION LiveSpec
CONSTANTS
    Call = {c1, c2}
    None = None
    BatchSize = 2
    MaxFaults = 1
INVARIANTS
    NoLostWakeup
    SingleFlight
    ErrorNotOlder
    FailedNotHeld
    StatsAgree
    IInv
PROPERTIES
    RetryOnFresh
    DropHasCause
    SlotRefined
    SubmitRefined
    CallsReturn
    RecoversAfterOutage
