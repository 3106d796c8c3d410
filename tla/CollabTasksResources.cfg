SPECIFICATION Spec
CONSTANTS
    Tasks = {t1, t2}
    Agents = {a1, a2}
    Trees = {w1}
    NoTask = NoTask  NoAgent = NoAgent  NoTree = NoTree
    Ceo = a1
    Masters = {a2}
    Probes = {FALSE}
    Commands = {"wait", "force", "relocate", "git", "work"}
    MaxSubject = 1
    MaxCalls = 1
SYMMETRY TaskSymmetry
INVARIANTS
    OneHolderWorks
PROPERTIES
    CleanupSparesOthers
    VerifiedMeansGone
CHECK_DEADLOCK FALSE
