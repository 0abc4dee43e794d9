\* Two workers, two queue places, four requests: served by a worker, queued, run at once.
SPECIFICATION FairSpec
CONSTANTS
    r1 = r1
    r2 = r2
    r3 = r3
    r4 = r4
    r5 = r5
    w1 = w1
    w2 = w2
    fd1 = fd1
    fd2 = fd2
    Requests = {r1, r2, r3, r4}
    Workers = {w1, w2}
    Fds = {fd1, fd2}
    None = None
    MaxChildren = 2
    MaxPending = 2
PROPERTIES
    Completes
INVARIANTS
    TypeOK
    CountersExact
    NoneWaitsForIdle
    WorkersOwned
    OwnAnswers
