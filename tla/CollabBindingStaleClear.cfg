SPECIFICATION Spec
CONSTANTS
    w1 = w1  w2 = w2  w3 = w3
    s1 = s1  s2 = s2
    Workers <- MCWorkers
    Sessions <- MCSessions
    SessionOf <- MCSessionOf
    NoOne = NoOne
    Pool = 2
    MaxFaults = 1
    MaxEffects = 3
SYMMETRY SessionSymmetry
PROPERTIES
    GrantKept
CHECK_DEADLOCK FALSE
