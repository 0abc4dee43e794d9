CONSTANTS
    Versions = {"v1", "v2"}
    Catalog <- MCCatalog
    Release <- MCRelease
    Size <- MCSize
    Fits = {"v1"}
    Dirs = {d1, d2}
    Shipped <- MCShipped
    MaxOps = 3
    MaxFaults = 2
SPECIFICATION Spec
INVARIANTS FreshWritesKeepABank OneWritePerBackup
PROPERTIES WritesTheConfirmed ValidatedIsWritten
SYMMETRY MCDirs
CHECK_DEADLOCK FALSE
