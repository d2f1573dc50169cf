\* One user with several requests, one indexing job at a time, one fault.
CONSTANTS
    Users = {u1}
    IndexJobs = {i1}
    NoJob = NoJob
    MaxRetries = 1
    MaxFaults = 1
SPECIFICATION FairSpec
INVARIANTS
    ReadersAreServed
PROPERTIES
    JobsSettle
    OrphanIsCollected
\* A collected document stays so.
CHECK_DEADLOCK FALSE
