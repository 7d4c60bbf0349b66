SPECIFICATION FairSpec
CONSTANTS
    Procs = {leader, descendant}
    Leader = leader
    Streams = {stdout, stderr}
    PrefixLimit = 1
    SuffixLimit = 2
    ReadSize = 2
    ChanCap = 1
    PipeCap = 2
    MaxTimeout = 1
    MaxBytes = 4
INVARIANTS
    OutputTrue
    NoRunaway
PROPERTIES
    Returns
