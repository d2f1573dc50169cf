\* Two threads, as one that outlives its stop runs beside the next: a lost or
\* late answer, a crash and a restart under fairness.
CONSTANTS
    Docs = {d1}
    NoDoc = NoDoc
    Threads = {t1, t2}
    NoThread = NoThread
    MaxRev = 1
    MaxFaults = 1
    MaxRestarts = 1
    MaxCrashes = 1
SPECIFICATION FairSpec
INVARIANTS
    StoredBeforeMarked
PROPERTIES
    RevocationIsLearned
    PendingIsDrained
\* A revoked device stops for good.
CHECK_DEADLOCK FALSE
