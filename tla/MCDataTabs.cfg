SPECIFICATION DataSpec
CONSTANTS
    None = None
    Text = {"single", "batch"}
    StatementsOf <- MCStatementsOf
    Chained = {"chain"}
    StatementKind <- MCStatementKind
    Limits = {0, 1}
    MaxRuns = 3
    Char = {"k", "n", "quote", "$", "-", "/", "*", ";"}
    MaxLength = 6
    Rows = 3
    PageSizes = {1, 2}
    FirstSize = 2
    Searches = {"", "x"}
    MaxDeletes = 1
    MaxMoves = 3
    Batches <- MCBatches
    Patterns = {"*", "a"}
    MaxSessions = 1
    CacheBudget = 1
    MaxFetches = 4
    Documents = 4
    PageLimit = 2
    Queries = {"", "x"}
    MaxRemoved = 1
    MaxClicks = 6
    Inputs = {"i", "j"}
    Found = 4
    LargeOnes = {1}
    PageRows = 2
    MaxPipeRuns = 4
    MaxEdits = 2
    Source = {"s1", "s2"}
    Unsafe = "delete"
    Statements = {"select"}
    MaxFedRuns = 3
    Chattable = {c1, c2}
    MaxChats = 2
    MaxDeltas = 1
INVARIANTS
    ChatPanelIsTrue
    ReadOnlySendsSelects
    CutsWhereNativeSees
    NothingIsSkipped
    GridIsCurrent
    RetainedLeaseIsKept
    ViewsFollowTheirRuns
PROPERTIES
    NothingSentAfterAbort
    PagesAbutWithoutJumps
CHECK_DEADLOCK FALSE
