CONSTANTS
    a = a
    b = b
    m1 = m1
    m2 = m2
    n1 = n1
    n2 = n2
    Local = local
    None = None
    Call = {a, b}
    Module = {m1, m2}
    Remote = {n1, n2}
    Profiles <- MCProfiles
    Strategies = {"least_loaded"}
    Affinity <- MCAffinity
    Capable <- MCCapable
    Limit <- MCLimit
    MaxParallel <- MCMaxParallel
    Cooldown <- MCCooldown
    Fallbacks <- MCFallbacks
    Threshold = 2
    Charged <- MCCharged
    NodeFallback = TRUE
    MaxNodeRetries = 2
SPECIFICATION Spec
CHECK_DEADLOCK FALSE
INVARIANTS LimitsAccounted LoadAccounted QuarantineMatchesFailures EachNodeOnce
PROPERTIES ImplementsLimiter DispatchEnds
