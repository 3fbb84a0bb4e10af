SPECIFICATION FairSpec
CONSTANTS
    Query = {q1, q2, q3}
    Listing = {l1}
    Update = {u1}
    MaxActive = 2
    MaxEarly = 1
    Policy <- Alternating
    None = None
INVARIANTS
    CancelledIsStopped
    PolicyIsRespected
    SlotIsRunning
    NoJobAfterClose
PROPERTIES
    CloseTerminates
