---- MODULE MCLocalSessions ----
EXTENDS LocalSessions, TLC

\* Grants and sessions are interchangeable; no property tells them apart.
Symmetry == Permutations(Grants) \cup Permutations(Sessions)

====
