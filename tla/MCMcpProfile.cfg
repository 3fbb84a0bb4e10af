SPECIFICATION McpFairSpec
CONSTANTS
    Caller = {c1, c2}
    Updater = {u1}
    Rotator = {r1}
    Closer = {k1}
    Entry = {e1, e2}
    MaxCalls = 2
    Enabled <- Alternating
    Creator = {s1}
    Revoker = {v1, v2}
    Switch = {w1}
    Ref = {a1, a2}
    ProbesFirst = FALSE
    None = None
INVARIANTS
    AdaptersAreOwned
    PreparedIsUnused
    PrincipalIsRecorded
PROPERTIES
    RetireReturns
    PrincipalChangesUnserved
