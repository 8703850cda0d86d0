SPECIFICATION FairSpec
CONSTANTS
    Calls = {c1, c2}
    Cancels = {k1}
    QueryIds = {q1}
    Users = {ann, bob}
    Admins = {bob}
    Pids = {p1, p2}
    NoQueryId = NoQueryId
    None = None
CHECK_DEADLOCK FALSE
INVARIANTS ExecInv LoneIdIsRegistered AuditFaithful
PROPERTIES CancelHitsItsTarget EveryCallCleansUp
