---------------------------- MODULE MCRtspReceive ----------------------------
\* Finite instances of RtspReceive for TLC.
EXTENDS RtspReceive

SmallPackets == [kind : {"start", "rtcp"}, size : {1, 2}]
                \cup [kind : Kinds \ {"start", "rtcp"}, size : {1}]
=============================================================================
