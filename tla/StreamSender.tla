---------------------------- MODULE StreamSender ----------------------------
(***************************************************************************)
(* The threads that follow a frame queue and send it to a client, composed *)
(* with the queue: RTP over TCP (hs_rtpLib.c) and peer to peer, direct or  *)
(* relayed (p2pLib.c).  Both begin with an SPS frame, send what follows as *)
(* long as the frame numbers do, and look for the next SPS frame when they *)
(* do not.                                                                 *)
(*                                                                         *)
(* A sender is a reader of FrameQueue; the other readers stay as they are  *)
(* there.  What a thread does between two accesses to shared state is one  *)
(* step: the unlocked test of a get, the get, and the use of a frame.      *)
(***************************************************************************)
EXTENDS FrameQueue

CONSTANTS RtpSenders,    \* threads in RTP_TcpSendH264ThrFxn
          P2pSenders,    \* threads in SendRealStream or SendRelayStream
          Wants,         \* sender -> the media its session has asked for
          Kinds,         \* kinds of frames the camera sends; "spsLike" is an
                         \* audio frame that begins as an SPS frame would
          FRAME_NO_MOD,  \* frame numbers have 16 bits (65536)
          MaxNoFrame,    \* empty gets an RTP sender puts up with (100)
          MaxPlays       \* bound: sessions started

Senders == RtpSenders \cup P2pSenders

ASSUME SenderAssumption ==
    /\ RtpSenders \cap P2pSenders = {} /\ Senders \subseteq Readers
    /\ Wants \in [Senders -> SUBSET {"video", "audio"}]
    /\ \A r \in P2pSenders : Wants[r] = {"video"}
    /\ Kinds \subseteq {"sps", "slice", "audio", "spsLike"}
    /\ -1 \in Modes
    /\ FRAME_NO_MOD \in Nat \ {0}
    /\ MaxNoFrame \in Nat
    /\ MaxPlays \in Nat

VARIABLES kind,       \* frame -> its kind, "none" before it is inserted
          run,        \* sender -> sessStat is PLAY (RTP), run is 1 (P2P)
          waitIFrame, \* sender -> an SPS frame was found and nothing is missing
          frameNo,    \* sender -> number of the last frame it went on with
          noFrame,    \* sender -> empty gets in a row (RTP only)
          leaving,    \* sender -> it has left its loop
          sent,       \* sender -> video frames sent in this session
          plays       \* number of sessions started

threads    == <<run, waitIFrame, frameNo, noFrame, leaving, sent, plays>>
senderVars == <<vars, kind, threads>>

-----------------------------------------------------------------------------
(* Faults a change to the code could introduce (see FrameQueue).           *)

\* Frame numbers are not cut to 16 bits.
NoUnmasked(f) == f

\* A lost frame is not noticed.
ContinuesBlindly(r) == waitIFrame[r] \/ kind[held[r]] \in {"sps", "spsLike"}

\* The exit on a failed send does not give the frame back.
SendFailsLeaks(r) ==
    /\ pc[r] = "using"
    /\ leaving' = [leaving EXCEPT ![r] = TRUE]
    /\ held' = [held EXCEPT ![r] = NULL]
    /\ pc' = [pc EXCEPT ![r] = "idle"]
    /\ UNCHANGED <<ring, count, cursors, kept, last, kind, run, waitIFrame,
                   frameNo, noFrame, sent, plays>>

\* An RTP sender that finds nothing polls for ever.
PollEmptyForever(r) ==
    /\ pc[r] = "idle" /\ run[r] /\ ~leaving[r]
    /\ r \in RtpSenders
    /\ UNCHANGED senderVars

-----------------------------------------------------------------------------
(* Frames as a sender sees them.                                           *)

\* The number in the head of a frame.
No(f) == f % FRAME_NO_MOD

Media(f) == IF kind[f] \in {"audio", "spsLike"} THEN "audio" ELSE "video"

\* The test of the fifth byte, whatever the medium.
LooksLikeSps(f) == kind[f] \in {"sps", "spsLike"}

\* The frame a sender holds carries on what it has sent.
Continues(r) == IF waitIFrame[r]
                THEN (frameNo[r] + 1) % FRAME_NO_MOD = No(held[r])
                ELSE LooksLikeSps(held[r])

-----------------------------------------------------------------------------
(* Sessions.                                                               *)

\* The reply to PLAY, PlayRealStream or PlayRelayStream creates a thread.
Play(r) ==
    /\ plays < MaxPlays
    /\ StartReader(r, -1)
    /\ plays' = plays + 1
    /\ run' = [run EXCEPT ![r] = TRUE]
    /\ UNCHANGED <<kind, waitIFrame, frameNo, noFrame, leaving, sent>>

\* The server takes the session out of PLAY; StopRealStream,
\* StopRelayStream, ClientDisconnect, RelayClientDisconnect.
Stop(r) ==
    /\ run[r]
    /\ run' = [run EXCEPT ![r] = FALSE]
    /\ UNCHANGED <<vars, kind, waitIFrame, frameNo, noFrame, leaving, sent, plays>>

\* The end of a thread.  An RTP thread leaves STOP behind; run stays as it
\* is when a P2P thread ends by itself.
Leave(r) ==
    /\ leaving[r] \/ ~run[r]
    /\ StopReader(r)
    /\ run' = [run EXCEPT ![r] = @ /\ r \in P2pSenders]
    /\ waitIFrame' = [waitIFrame EXCEPT ![r] = FALSE]
    /\ frameNo' = [frameNo EXCEPT ![r] = 0]
    /\ noFrame' = [noFrame EXCEPT ![r] = 0]
    /\ leaving' = [leaving EXCEPT ![r] = FALSE]
    /\ sent' = [sent EXCEPT ![r] = {}]
    /\ UNCHANGED <<kind, plays>>

-----------------------------------------------------------------------------
(* The loop of a thread.                                                   *)

Looping(r) == pc[r] = "idle" /\ run[r] /\ ~leaving[r]

\* The get has given NULL: an RTP sender has had enough after MaxNoFrame of
\* them, a P2P sender (its exit is commented out) never.
CountEmpty(r) ==
    /\ IF r \in P2pSenders THEN UNCHANGED <<noFrame, leaving>>
       ELSE IF noFrame[r] >= MaxNoFrame
       THEN leaving' = [leaving EXCEPT ![r] = TRUE] /\ UNCHANGED noFrame
       ELSE noFrame' = [noFrame EXCEPT ![r] = @ + 1] /\ UNCHANGED leaving
    /\ UNCHANGED <<run, waitIFrame, frameNo, sent, plays>>

\* Nothing new; or, for an RTP sender, no queue: it asks the channel for the
\* queue in every turn, a P2P sender only at its start.
PollEmpty(r) ==
    /\ Looping(r)
    /\ CaughtUp(r) \/ (r \in RtpSenders /\ ~open)
    /\ CountEmpty(r)
    /\ UNCHANGED <<vars, kind>>

Poll(r) ==
    /\ Looping(r)
    /\ open \/ r \in P2pSenders
    /\ GetEnter(r)
    /\ UNCHANGED <<kind, threads>>

Miss(r) ==
    /\ GetLost(r) \/ (GetHit(r) /\ pFrameInfo[Begin(r)] = NULL)
    /\ CountEmpty(r)
    /\ UNCHANGED kind

Got(r) ==
    /\ GetHit(r) /\ pFrameInfo[Begin(r)] # NULL
    /\ noFrame' = [noFrame EXCEPT ![r] = 0]
    /\ UNCHANGED <<kind, run, waitIFrame, frameNo, leaving, sent, plays>>

\* A frame before the first SPS, or after a lost one, is not sent.
Skip(r) ==
    /\ pc[r] = "using"
    /\ ~Continues(r)
    /\ FreeFrame(r)
    /\ waitIFrame' = [waitIFrame EXCEPT ![r] = FALSE]
    /\ UNCHANGED <<kind, run, frameNo, noFrame, leaving, sent, plays>>

Carry(r) ==
    /\ pc[r] = "using"
    /\ Continues(r)
    /\ waitIFrame' = [waitIFrame EXCEPT ![r] = TRUE]
    /\ frameNo' = [frameNo EXCEPT ![r] = No(held[r])]
    /\ UNCHANGED <<kind, run, noFrame, plays>>

\* The frame is sent, whole, or is of a medium the session did not ask for.
\* A P2P sender does not free audio frames.
Send(r) ==
    /\ Carry(r)
    /\ IF r \in P2pSenders /\ Media(held[r]) = "audio" THEN Forget(r) ELSE FreeFrame(r)
    /\ sent' = [sent EXCEPT ![r] = IF "video" \in Wants[r] /\ Media(held[r]) = "video"
                                   THEN @ \cup {held[r]} ELSE @]
    /\ UNCHANGED leaving

\* The connection fails or times out, or the session is taken out of PLAY
\* between two pieces of the frame.
SendFails(r) ==
    /\ Carry(r)
    /\ Media(held[r]) \in Wants[r]
    /\ IF r \in P2pSenders THEN Forget(r) ELSE FreeFrame(r)
    /\ leaving' = [leaving EXCEPT ![r] = TRUE]
    /\ UNCHANGED sent

-----------------------------------------------------------------------------
SenderInit ==
    /\ Init
    /\ kind = [f \in Frames |-> "none"]
    /\ run = [r \in Senders |-> FALSE]
    /\ waitIFrame = [r \in Senders |-> FALSE]
    /\ frameNo = [r \in Senders |-> 0]
    /\ noFrame = [r \in Senders |-> 0]
    /\ leaving = [r \in Senders |-> FALSE]
    /\ sent = [r \in Senders |-> {}]
    /\ plays = 0

\* The network thread puts a frame of some kind into the queue.
InsertKind == /\ Insert
              /\ \E k \in Kinds : kind' = [kind EXCEPT ![inserted + 1] = k]
              /\ UNCHANGED threads

\* What the other users of the queue do.
QueueStep ==
    /\ \/ FreeAll
       \/ Uninit
       \/ \E r \in Readers \ Senders : \/ \E mode \in Modes : StartReader(r, mode)
                                       \/ StopReader(r)
                                       \/ ReaderStep(r)
    /\ UNCHANGED <<kind, threads>>

\* The steps of a running thread, whatever they find.
Loop(r) == PollEmpty(r) \/ Poll(r) \/ Miss(r) \/ Got(r) \/ Skip(r) \/ Send(r) \/ Leave(r)

SenderNext == \/ InsertKind
              \/ QueueStep
              \/ \E r \in Senders : Play(r) \/ Stop(r) \/ Loop(r) \/ SendFails(r)

SenderSpec == SenderInit /\ [][SenderNext]_senderVars

\* Every thread is scheduled and a send always returns: after three seconds
\* without progress by SO_SNDTIMEO (hs_rtpLib.c:872).  No frame has to come, no
\* session has to be stopped, no send has to fail.
SenderFairSpec ==
    /\ SenderSpec
    /\ \A r \in Senders : WF_senderVars(Loop(r) \/ SendFails(r))
    /\ \A r \in Readers \ Senders :
           WF_senderVars(ReaderStep(r) /\ UNCHANGED <<kind, threads>>)

-----------------------------------------------------------------------------
SenderTypeOK ==
    /\ kind \in [Frames -> Kinds \cup {"none"}]
    /\ run \in [Senders -> BOOLEAN]
    /\ waitIFrame \in [Senders -> BOOLEAN]
    /\ frameNo \in [Senders -> 0..FRAME_NO_MOD-1]
    /\ noFrame \in [Senders -> 0..MaxNoFrame]
    /\ leaving \in [Senders -> BOOLEAN]
    /\ sent \in [Senders -> SUBSET Frames]
    /\ plays \in 0..MaxPlays

\* Between s and f the sender has missed g, and with it FRAME_NO_MOD frames in a
\* row: their numbers come round, and it cannot notice.
Unnoticed(r, g, s, f) ==
    \E a \in s+1..f-FRAME_NO_MOD :
        LET missed == a..a+FRAME_NO_MOD-1 IN g \in missed /\ missed \cap sent[r] = {}

\* What a client is sent can be decoded: with every video frame it has been sent a
\* frame the sender takes for an SPS frame and every video frame from that one on,
\* however often the writer has overrun the sender or flushed the queue in between.
\* Missing may be what was lost in runs of FRAME_NO_MOD frames and more; and as the
\* test looks at no frame's type (hs_rtpLib.c:897), the first may be audio.
FollowsSps(r, f) ==
    \E s \in 1..f :
        /\ LooksLikeSps(s)
        /\ Media(s) = "audio" \/ s \in sent[r]
        /\ \A g \in s..f : \/ Media(g) = "audio" \/ g \in sent[r]
                            \/ Unnoticed(r, g, s, f)

SentDecodes == \A r \in Senders : \A f \in sent[r] : FollowsSps(r, f)

\* Nor is it sent a frame twice, or one after a newer one: what a sender has in
\* hand is newer than all it has sent in its session, however often the writer
\* has lapped it, flushed the queue or inserted between its two looks at it.
SentInOrder ==
    \A r \in Senders : pc[r] = "using" => \A f \in sent[r] : f < held[r]

\* A thread whose session is stopped ends, and so do RTP threads of a stream
\* that gives no frames any more, and of one that is gone: the join in
\* RTSP_SessionClose returns.
SenderEnds ==
    \A r \in Senders :
        ~run[r] \/ (r \in RtpSenders /\ (~open \/ inserted = MaxFrames))
            ~> pc[r] = "off"
=============================================================================
