SPECIFICATION EditorFairSpec
CONSTANTS
    Runs = {r1}
    SideRuns = {s1}
    Tabs = {t1}
    MaxStatements = 2
    StreamsBreak = TRUE
    Calls <- MCCalls
    Cancels = {k1}
    QueryIds = {r1}
    Users = {ann}
    Admins = {}
    Pids = {p1}
    NoQueryId = NoQueryId
    None = None
CHECK_DEADLOCK FALSE
INVARIANTS EditorInv LoneRunIsCancelled
PROPERTIES SpinnerStops
