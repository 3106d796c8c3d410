SPECIFICATION FairSpec
CONSTANTS
    Targets <- FiveTargets
    AppSdk = 1
    Dirs = {1, 2, 3}
    Staged = {1, 2, 4, 5}
    Nested = {4}
    Original = {1, 3, 5}
    ParentAtFirst = FALSE
    Reqs = {r1, r2}
    MaxResets = 2
    MaxFaults = 3
    None = None
    Torn = Torn
    r1 = r1
    r2 = r2
INVARIANTS
    RecoveryAccepts
    LeavesNothing
    AppliedIsCommitted
    SettledStay
PROPERTIES
    ResetKept
    PendingEnds
CHECK_DEADLOCK FALSE
