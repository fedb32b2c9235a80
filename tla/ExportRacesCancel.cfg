\* A cancellation between the worker's last check and its last write.
SPECIFICATION Spec
CONSTANTS
    u1 = u1
    w1 = w1
    c1 = c1
    c2 = c2
    NoUser = NoUser
    Users <- OneUser
    MaxDocs = 1
    MaxJobs = 1
    MaxActiveExports = 1
    Workers <- OneWorker
    FirstWorker = w1
    MaxChunks = 1
    MaxMishaps = 0
    Clients <- OneClient
    Splits <- WholeBook
PROPERTY CompletedJobsAreNotCanceled
