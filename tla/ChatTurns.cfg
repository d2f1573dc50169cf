\* Two turns, two requests, faults.
CONSTANTS
    Turns = {t1, t2}
    Requests = {r1, r2}
    NoTurn = NoTurn
    Faults = TRUE
SPECIFICATION FairSpec
INVARIANTS
    OneActiveTurn
    DoneMeansSaved
PROPERTIES
    TerminalTurnIsFinal
    RequestEnds
    OrphanIsReconciled
