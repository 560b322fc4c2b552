SPECIFICATION Spec
CONSTANTS
    ann = ann
    Unit = 2
    InitialCapital = 100
    MaxDrawdownPct = 10
    MaxPositionPct = 4
    MaxLossPct = 2
    Agents <- mcAgents
    Scenarios <- placing
INVARIANTS SimulatedHasNoEffect
