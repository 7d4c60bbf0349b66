SPECIFICATION Spec
CONSTANTS
    Writers = {exec1, exec2}
    Guarded = {}
    NoWriter = NoWriter
    Ids = {i1, i2}
    NoId = NoId
    MaxVer = 1
    MaxCrashes = 1
    MaxFails = 0
    MaxRewrites = 0
INVARIANTS
    NeverInterleave
