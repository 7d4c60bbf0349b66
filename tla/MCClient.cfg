SPECIFICATION FairSpec
CONSTANTS
    Calls = {a, b}
    NoCall = NoCall
    PipeCap = 2
INVARIANTS
    CallsKeptApart
    ClosedIsFinal
    NoStaleWaiter
PROPERTIES
    EofReturns
    WrittenReturns
