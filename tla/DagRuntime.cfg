SPECIFICATION FairSpec
CONSTANTS
    Nodes = {1, 2, 3, 4, 5}
    Source = Source
    Plans <- FanAndChains
    MaxParallelism = 2
    Items = {2, 5}
    MaxItems = 2
    Faults = {"input", "operator", "output", "effect", "hook"}
INVARIANTS
    InputsAreThere
    JournalInOrder
    WaveDrains
PROPERTIES
    CancelStops
    DataflowKept
    RunEnds
CHECK_DEADLOCK FALSE
