SPECIFICATION Spec
CHECK_DEADLOCK FALSE
CONSTANTS
    r1 = r1
    r2 = r2
    r3 = r3
    p1 = p1
    k1 = k1
    None = None
    NoSession = NoSession
    Request = {r1, r2, r3}
    Session = {NoSession, p1}
    Key = {k1}
    Sent = {"approve", "reject", "approve_always"}
    MaxDecisions = 2
    Info <- MCInfo
INVARIANTS
    ProceedsOnlyApproved
    AlwaysWasSaid
    PendingIsWaiting
PROPERTIES
    LateDecisionRefused
    RequestsEnd
