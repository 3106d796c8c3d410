SPECIFICATION Spec
CONSTANTS
    Nodes = {1, 2, 3, 4}
    Source = Source
    Graphs <- Submitted
INVARIANTS
    PlanIsSound
    VerdictIsRight
CHECK_DEADLOCK FALSE
