SPECIFICATION EditorSpec
CONSTANTS
    Runs = {r1, r2}
    SideRuns = {}
    Tabs = {t1, t2}
    MaxStatements = 2
    StreamsBreak = FALSE
    Calls <- MCCalls
    Cancels = {k1}
    QueryIds = {r1, r2}
    Users = {ann}
    Admins = {}
    Pids = {p1, p2}
    NoQueryId = NoQueryId
    None = None
INVARIANT CancelledRunStops
SYMMETRY Symmetry
CHECK_DEADLOCK FALSE
