SPECIFICATION SessionSpec
CONSTANTS
    None = None
    MaxMounts = 2
    MaxChunks = 1
    Unnamed = Unnamed
    MaxShows = 2
    MaxOutput = 2
    Connection = {c1, c2}
    MaxTabs = 3
    MaxFresh = 1
    MaxJobs = 2
    MaxToolLines = 1
    MaxExports = 2
    MaxExportJobs = 1
    MaxPending = 1
    Caller = {a1, a2}
    MaxLoops = 2
    MaxStarts = 3
INVARIANTS
    NoOrphanSession
    ShellOutputIsKept
    TabsAgree
    JobsKeepTheirWord
    WatcherGoesOn
SYMMETRY Symmetry
CHECK_DEADLOCK FALSE
