SPECIFICATION Spec
CONSTANTS
    k1 = k1
    k2 = k2
    fileA = fileA
    fileB = fileB
    c1 = c1
    c2 = c2
    a1 = a1
    a2 = a2
    a3 = a3
    None = None
    Caller = {c1, c2}
    Admin = {a1, a2, a3}
    Cancellable = {}
    Conn = {k1}
    Entry = {e1, e2}
    MaxVersion = 2
    FileOf <- OneConn
    GetKinds <- Gets
    AdminKinds <- AwaitKinds
SYMMETRY Symmetry
INVARIANTS
    AwaitClosesAll
