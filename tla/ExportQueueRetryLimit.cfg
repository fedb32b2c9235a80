\* One client that retries.
SPECIFICATION Spec
CONSTANTS
    u1 = u1
    w1 = w1
    w2 = w2
    NoUser = NoUser
    Users <- OneUser
    MaxDocs = 1
    MaxJobs = 3
    MaxActiveExports = 1
    Workers <- OneWorker
    FirstWorker = w1
    MaxChunks = 1
    MaxMishaps = 0
INVARIANT ActiveExportsWithinLimit
