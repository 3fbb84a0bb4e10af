SPECIFICATION AdapterSpec
CONSTANTS
    Caller = {c1}
    Updater = {u1}
    Rotator = {}
    Closer = {}
    Entry = {e1, e2}
    MaxCalls = 2
    Enabled <- AlwaysEnabled
    None = None
INVARIANTS
    NoStaleAdapter
