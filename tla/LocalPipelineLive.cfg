\* One document, one job, two crashes: every job and every handler ends.
CONSTANTS
    Docs = {d1}
    NoDoc = NoDoc
    MaxJobs = 1
    MaxArts = 3
    NChunks = 1
    MaxCrashes = 2
SPECIFICATION FairSpec
PROPERTIES
    RunningJobEnds
    HandlerEnds
