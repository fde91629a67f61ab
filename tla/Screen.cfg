\* Aggregating, ordering, freezing and pausing while packets arrive.
SPECIFICATION Spec
CONSTANTS
    Flow <- MCFlow
    Star <- MCStar
    Rank <- MCRank
    history_divs <- MCDivs
    NoThread = NoThread
    PacketLengths = {1}
    HISTORY_LENGTH = 3
    MaxBytes = 3
    Sessions <- MCSessions
INVARIANTS ListedLinesExist
PROPERTIES LinesAddUp ListIsInOrder FrozenOrderStays PeakIsWindowMax
