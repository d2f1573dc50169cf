SPECIFICATION FairSpec
CONSTANTS
  Requests = {"r1", "r2", "r3"}
  UserOf <- MCUserOf
  KindOf <- MCKindOf
  Leases = {1, 2, 3, 4}
  Ttl = 2
  Cost = 2
  Burst = 2
  UserLimit = 1
  GlobalLimit = 2
INVARIANTS
    LimitsHold
PROPERTIES
    LeaseIsItsHolders
    CapacityReturns
