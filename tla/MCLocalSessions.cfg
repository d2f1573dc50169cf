\* Two grants, two sessions; lifetimes of one or two seconds, as sessions that
\* live as long as their nonces are the tightest case that SessionAssumption has.
CONSTANTS
    Grants = {g1, g2}
    Sessions = {s1, s2}
    Nonces = {n1}
    GrantTTL = 1
    SessionLifetime = 2
    NonceLifetime = 2
    Skew = 2
    MaxTime = 5
    MaxGenerations = 2
SPECIFICATION Spec
SYMMETRY Symmetry
INVARIANTS
    NoReplay
    GrantOpensOnce
\* The clock stops at MaxTime.
CHECK_DEADLOCK FALSE
