SPECIFICATION Spec
CONSTANTS
    BufLen = 7
    BufferSize = 3
    MaxRecv = 2
    MaxPackets = 5
    MaxWire = 3
    Packets <- SmallPackets
INVARIANTS TypeOK RingIsQueue ParserInStep
PROPERTY FramesAreWhole
CHECK_DEADLOCK FALSE
