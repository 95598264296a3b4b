SPECIFICATION SenderFairSpec
CONSTANTS
    rtp = rtp
    p2p = p2p
    Readers = {r1, r2}
    RtpSenders = {}
    P2pSenders = {}
    Wants <- NoWants
    Kinds = {"sps"}
    Modes <- AllModes
    MAX_FRAME_QUEUE_NUM = 3
    SmoothLag = 1
    LostJump = 1
    FRAME_NO_MOD = 13
    MaxNoFrame = 0
    MaxPlays = 0
    MaxFrames = 6
PROPERTIES LogSpec Drains
CHECK_DEADLOCK FALSE
