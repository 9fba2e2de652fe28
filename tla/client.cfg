SPECIFICATION Spec
CONSTANTS
    NHDR = 2
    NBUFS = 2
    BUFSZ = 2
    CHUNK = 3
    RES = 3
    DEFSZ = 3
    Jobs <- MCJobs
    Sinks <- MCSinks
    MaxJobs = 3
INVARIANTS FilesMatch FilesCover FilesChain
PROPERTY AllRead
CHECK_DEADLOCK FALSE
