SPECIFICATION AccountSpec
CONSTANTS
    Creator = {c1}
    Revoker = {r1, r2}
    Switch = {w1}
    Ref = {a1, a2, a3}
    ProbesFirst = TRUE
    None = None
INVARIANTS
    PreparedIsUnused
