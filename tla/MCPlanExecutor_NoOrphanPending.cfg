SPECIFICATION Spec
CONSTANTS
    a1 = a1
    a2 = a2
    a3 = a3
    None = None
    Action <- MCAction
    Plan <- MCPlan
    Origin <- Origins
CHECK_DEADLOCK FALSE
INVARIANT
    NoOrphanPending
