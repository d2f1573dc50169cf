\* One document, its requests, the worker and one reader: two jobs, one crash.
CONSTANTS
    Docs = {d1}
    NoDoc = NoDoc
    MaxArts = 3
    MaxJobs = 2
    NChunks = 2
    MaxCrashes = 1
SPECIFICATION QSpec
INVARIANTS
    JobInv
    ReadyIsComplete
    NothingLeftOfDeleted
    ActiveArtifactIsOwned
    QuietQueryIsComplete
PROPERTIES
    ImplementsJobContract
