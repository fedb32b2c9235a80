\* One worker that may die once: what the queue promises.
SPECIFICATION FairSpec
CONSTANTS
    u1 = u1
    w1 = w1
    w2 = w2
    NoUser = NoUser
    Users <- OneUser
    MaxDocs = 2
    MaxJobs = 2
    MaxActiveExports = 1
    Workers <- OneWorker
    FirstWorker = w1
    MaxChunks = 2
    MaxMishaps = 1
INVARIANTS
    TypeOK
    RowsTellTheTruth
    WorkerKeepsItsRow
    ActiveExportsHaveTheirDocument
PROPERTIES
    ImplementsLifecycle
    EveryJobSettles
    CancelInTimeIsHonoured
