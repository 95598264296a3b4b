--------------------------- MODULE MCStreamSender ---------------------------
\* Finite instances of StreamSender, and of FrameQueue in it, for TLC.
EXTENDS StreamSender

CONSTANTS rtp, p2p

AllModes    == {-1, -2, -3}
SenderModes == {-1}
SenderKinds == {"sps", "slice", "spsLike"}

NoWants     == [r \in {} |-> {}]
SenderWants == [r \in {rtp, p2p} |-> IF r = rtp THEN {"video", "audio"} ELSE {"video"}]
=============================================================================
