SPECIFICATION Spec
CONSTANTS
    t1 = t1  a1 = a1  a2 = a2
    Tasks = {t1}
    Agents = {a1, a2}
    Trees = {w1}
    NoTask = NoTask  NoAgent = NoAgent  NoTree = NoTree
    Ceo = a1
    Masters = {a2, NoAgent}
    Probes = {TRUE, FALSE}
    Commands = {"board", "contract", "block", "force", "readonly", "relocate",
                "cancel"}
    MaxSubject = 3
    MaxCalls = 1
INVARIANTS
    MergeOwed
    ResourcesFollowOwner
    MergedWasReviewed
PROPERTIES
    ClosedIsFinal
    CompleteStays
    ProvedDelivery
CHECK_DEADLOCK FALSE
