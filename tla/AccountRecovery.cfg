\* One account and its document, one backup, one loss of both stores.
CONSTANTS
    MaxRetries = 1
    MaxFaults = 1
    MaxDisasters = 1
SPECIFICATION FairSpec
INVARIANTS
    DeletedStaysDeleted
PROPERTIES
    SharedSurvives
    DeletionEnds
