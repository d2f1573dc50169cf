\* Two users who sign in one after the other in one tab.
CONSTANTS
    u1 = u1
    d1 = d1
    Users = {u1, u2}
    Devices = {d1}
    Owner <- OneComputer
    Ids = {i1, i2, i3}
    MaxStarts = 2
    MaxFaults = 1
    None = None
SPECIFICATION FairSpec
INVARIANTS
    SessionBelongsToUser
PROPERTIES
    DocumentsRecover
