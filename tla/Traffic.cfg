\* Frames of every kind are classified; bytes are recorded while the history rotates.
SPECIFICATION MCSpec
CONSTANTS
    Host <- MCHost
    LinkLocal <- MCLinkLocal
    Nets <- MCNets
    Port <- MCPort
    Protocols <- MCProtocols
    Mac = {mine, other, third, broadcast}
    MyMac = mine
    BroadcastMac = broadcast
    ZeroMac = zero
    NoFrame = NoFrame
    Flow = {f1, f2}
    NoHistory = NoHistory
    HISTORY_LENGTH = 3
    PacketLengths = {1, 2}
    MaxBytes = 4
INVARIANTS IInv SlotsAddUp DirectionIsRight
PROPERTIES ImplementsWindow ConversationIsOneFlow
