\* The code's times in steps of 5 s; three connections, a pool of two.
SPECIFICATION Spec
CONSTANTS
    Conn = {k1, k2, k3}
    Interval = 12
    Timeout = 1
    ServerIdle = 13
    PoolIdle = 18
    MaxIdle = 2
INVARIANTS
    KeptWarm
PROPERTIES
    KeepsPinging
