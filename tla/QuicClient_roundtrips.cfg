\* One call: is every response covered by the round trips?
SPECIFICATION Spec
CONSTANTS
    Call = {c1}
    None = None
    BatchSize = 1
    MaxFaults = 1
INVARIANTS
    RoundtripsCoverResponses
