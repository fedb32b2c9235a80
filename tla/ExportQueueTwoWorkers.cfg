\* The worker loop restarted under a running export: what is left of it.
SPECIFICATION FairSpec
CONSTANTS
    u1 = u1
    w1 = w1
    w2 = w2
    NoUser = NoUser
    Users <- OneUser
    MaxDocs = 1
    MaxJobs = 1
    MaxActiveExports = 1
    Workers <- TwoWorkers
    FirstWorker = w1
    MaxChunks = 1
    MaxMishaps = 2
INVARIANTS
    ActiveExportsHaveTheirDocument
PROPERTY EveryJobSettles
