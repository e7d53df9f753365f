SPECIFICATION Spec
CHECK_DEADLOCK FALSE
CONSTANTS
    Calls = 2
    Monitor = Monitor
    Manager = Manager
    MaxWorkers = 2
    MaxRestarts = 1
    Agendas <- MCAgendas
INVARIANTS ExecuteAfterInitialize PendingIsAwaited
PROPERTY CallsEnd
