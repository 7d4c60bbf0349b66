SPECIFICATION FairSpec
CONSTANTS
    Calls = {a, b}
    NoCall = NoCall
    Attempts = 2
    MaxFaults = 2
INVARIANTS
    SlotSound
PROPERTIES
    BlockedByLost
    NobodyHangs
    Recovers
