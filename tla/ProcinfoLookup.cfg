\* A lookup of the packet thread overlaps a refresh.
SPECIFICATION MCSpec
CONSTANTS
    Table = {t1, t2, t3}
    NULL = NULL
    Sockets <- MCSockets
    AnyAddr <- MCAny
    Flows <- MCFlows
    NoAnswer = NoAnswer
    Pids = {p, q}
    Inodes = {s1, s2}
    Names = {"a", "b", "c"}
    MaxChanges = 3
CHECK_DEADLOCK FALSE
INVARIANT LookupReadsAllocated
