SPECIFICATION Spec
CHECK_DEADLOCK FALSE
CONSTANTS
    Action = {a1, a2, a3, a4}
    Mode = {"sequential", "parallel"}
INVARIANTS
    TypeOK
    WavesRespectGraph
    SameWaveIndependent
    ParallelIsEarliest
PROPERTIES
    WavesEnd
