\* The code's own times; one kind of frame.
SPECIFICATION Spec
CONSTANTS
    None = None
    Frame = {f1}
    ConnectTimeout = 10
    ReadTimeout = 45
    MinBackoff = 1
    MaxBackoff = 30
    Handle = handle
    Subscriber = {s1}
    MaxDry = 8
INVARIANTS
    TypeOK
    BackoffGrows
    SilentStreamLeft
    EndsOnlyDropped
PROPERTIES
    OrphansReturn
    FirstFrameReaches
