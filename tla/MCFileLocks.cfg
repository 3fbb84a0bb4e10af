SPECIFICATION FairLocksSpec
CONSTANTS
    k1 = k1
    k2 = k2
    fileA = fileA
    fileB = fileB
    a1 = a1
    a2 = a2
    None = None
    Caller = {c1}
    Admin = {a1, a2}
    Maintainer = {a1}
    Prober = {}
    Cancellable = {}
    Conn = {k1, k2}
    Entry = {e1, e2}
    MaxVersion = 1
    FileOf <- TwoConns
    GetKinds <- Gets
    AdminKinds <- Kinds
    Proc = {p1, p2, p3}
    Key = {f1, f2}
    Mutex = {l1, l2}
INVARIANTS
    PrunesUnused
PROPERTIES
    FileWorkEnds
    ImplementsKeyedLock
    EverybodyServed
