SPECIFICATION FairSpec
CONSTANTS
    Contents <- SmallContents
    MaxChanges = 2
    ReadMax = 3
    ListMax = 2
    Names = {1, 2, 3, 4}
    PipeCap = 2
    MaxFaults = 1
    NoLocal = NoLocal
    Theirs = Theirs
    Garbled = Garbled
    Root <- RootDir
    ScratchRoot <- Scratch
    Trees <- SmallTrees
    ClientPaths <- SmallPaths
    MaxLinks = 3
INVARIANTS
    PagesSound
    DownloadSound
    StaysInside
    OperationFound
PROPERTIES
    NoClobberLocal
    UndoSpares
    ReadersReturn
