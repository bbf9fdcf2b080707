SPECIFICATION FairSpec
CONSTANTS
    Addr = {a1, a2, a3}
    V6 = {a3}
    Live = {a2}
    None = None
    MaxConnects = 2
INVARIANTS
    TypeOK
PROPERTIES
    ErrorIsExhaustive
    DeadAddressHarmless
