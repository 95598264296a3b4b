SPECIFICATION SenderFairSpec
CONSTANTS
    rtp = rtp
    p2p = p2p
    Readers = {rtp, p2p}
    RtpSenders = {rtp}
    P2pSenders = {p2p}
    Wants <- SenderWants
    Kinds <- SenderKinds
    Modes <- SenderModes
    MAX_FRAME_QUEUE_NUM = 2
    SmoothLag = 1
    LostJump = 1
    FRAME_NO_MOD = 2
    MaxNoFrame = 1
    MaxPlays = 1
    MaxFrames = 4
INVARIANTS TypeOK CountIsExact SenderTypeOK SentDecodes SentInOrder
PROPERTIES SenderEnds
CHECK_DEADLOCK FALSE
