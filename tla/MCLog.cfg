SPECIFICATION Spec
CONSTANTS
    Writers = {mutation, exec}
    Guarded = {mutation}
    NoWriter = NoWriter
    Ids = {i1, i2}
    NoId = NoId
    MaxVer = 2
    MaxCrashes = 2
    MaxFails = 1
    MaxRewrites = 1
INVARIANTS
    NoSilentLoss
    CrashSafe
