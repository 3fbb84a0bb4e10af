SPECIFICATION MSpec
CONSTANTS
    k1 = k1
    k2 = k2
    fileA = fileA
    fileB = fileB
    a1 = a1
    None = None
    Caller = {c1, c2}
    Admin = {a1}
    Maintainer = {a1}
    Prober = {x1}
    Cancellable = {c1}
    Conn = {k1, k2}
    Entry = {e1, e2}
    MaxVersion = 1
    FileOf <- TwoConns
    GetKinds <- Gets
    AdminKinds <- MaintainerOnly
SYMMETRY Symmetry
INVARIANTS
    FailedCloseStopsFn
    NoManagedProviderDuringFn
