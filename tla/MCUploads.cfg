SPECIFICATION Spec
CONSTANTS
    Uploads = {a, b}
    NoUpload = NoUpload
    NoFile = NoFile
    OldFile = OldFile
    MaxCrashes = 1
    MaxFails = 1
    MaxTimeouts = 1
INVARIANTS
    InstallsSound
    FailsClean
PROPERTIES
    NoClobber
