\* The peaks while the order is frozen.
SPECIFICATION Spec
CONSTANTS
    Flow <- MCFlow
    Star <- MCStar
    Rank <- MCRank
    history_divs <- MCDivs
    NoThread = NoThread
    PacketLengths = {1}
    HISTORY_LENGTH = 3
    MaxBytes = 3
    Sessions <- MCSessions
PROPERTIES PeaksAreOfTheWindow
