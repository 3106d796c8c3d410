SPECIFICATION Spec
CONSTANTS
    d1 = d1  i1 = i1  i2 = i2
    bA = bA  gMail = gMail  gApp = gApp
    None = None
    Msgs <- RetryMsgs
    Immediate <- RetryDirect
    Buckets <- RetryBuckets
    BucketOf <- RetryBucketOf
    Groups = {gMail, gApp}
    GroupOf <- RetryGroupOf
    AppServer = {gApp}
    AdapterMayFail = TRUE
    Receipts = {"delivered", "unknown"}
    Window = 1
    MaxClock = 1
    MaxLosses = 1
SYMMETRY UpdateSymmetry
INVARIANTS
    JournalReplayable
    ReplayAgrees
    HandedAtMostOnce
PROPERTIES
    PromiseKept
CHECK_DEADLOCK FALSE
