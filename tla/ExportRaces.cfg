\* Two request threads and a worker that may die, between each other's reads and
\* writes.
SPECIFICATION FairSpec
CONSTANTS
    u1 = u1
    w1 = w1
    c1 = c1
    c2 = c2
    NoUser = NoUser
    Users <- OneUser
    MaxDocs = 1
    MaxJobs = 1
    MaxActiveExports = 1
    Workers <- OneWorker
    FirstWorker = w1
    MaxChunks = 1
    MaxMishaps = 1
    Clients <- TwoClients
    Splits <- WholeBook
INVARIANTS
    TypeOK
    RowsStayReadable
PROPERTY EveryJobSettles
