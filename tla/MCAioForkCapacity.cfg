\* One request more than there are workers and queue places.
SPECIFICATION Spec
CONSTANTS
    r1 = r1
    r2 = r2
    r3 = r3
    r4 = r4
    r5 = r5
    w1 = w1
    w2 = w2
    fd1 = fd1
    fd2 = fd2
    Requests = {r1, r2, r3, r4, r5}
    Workers = {w1, w2}
    Fds = {fd1, fd2}
    None = None
    MaxChildren = 2
    MaxPending = 2
SYMMETRY MCSymmetry
PROPERTIES
    ImplementsService
