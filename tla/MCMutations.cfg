SPECIFICATION Spec
CONSTANTS
    r1 = r1
    r2 = r2
    r3 = r3
    c1 = c1
    c2 = c2
    c3 = c3
    p1 = p1
    t1 = t1
    t2 = t2
    Rids = {r1, r2}
    NoRid = NoRid
    Tasks = {t1, t2}
    NoTask = NoTask
    Paths = {p1}
    Contents = {c1, c2}
    Absent = Absent
    Unresolvable = Unresolvable
    NoMatch = NoMatch
    Workloads <- MutationWorkloads
    InitialFiles <- AnyWorkspace
    HistoryLimit <- NoLimit
    MaxOps = 4
    MaxSends = 4
    MaxCrashes = 1
    MaxFails = 0
    MaxExternal = 0
INVARIANTS
    TypeOK
    SingleOwner
    NoPhantom
PROPERTIES
    ImplementsService
