\* A slow export, a restarted loop, and a heartbeat that runs out.
SPECIFICATION Spec
CONSTANTS
    u1 = u1
    w1 = w1
    w2 = w2
    NoUser = NoUser
    Users <- OneUser
    MaxDocs = 1
    MaxJobs = 1
    MaxActiveExports = 1
    Workers <- TwoWorkers
    FirstWorker = w1
    MaxChunks = 1
    MaxMishaps = 1
INVARIANT CompletedHasNoFailure
