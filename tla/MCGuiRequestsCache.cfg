SPECIFICATION Spec
CONSTANTS
    Query = {q1}
    Listing = {l1}
    Update = {u1}
    MaxActive = 1
    MaxEarly = 1
    Policy <- Alternating
    None = None
INVARIANTS
    NoStaleMetadata
