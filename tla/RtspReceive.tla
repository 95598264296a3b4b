---------------------------- MODULE RtspReceive ----------------------------
(***************************************************************************)
(* How a camera's RTSP stream becomes frames (rtspCLib, buffer_ring.c and  *)
(* the loop of RTSP_GetStream).  One thread receives whatever TCP has into *)
(* a ring, then takes packets out of it for as long as more than           *)
(* BufferSize bytes are there, and puts video fragments together in        *)
(* packetBuf.  The parser never asks whether the packet it begins is       *)
(* complete: BufferSize is what stands between it and the end of the data. *)
(*                                                                         *)
(* A byte of the stream is a unit.  The interleaved, RTP and FU headers of *)
(* a packet are one unit that knows the packet's kind and size; a payload  *)
(* unit knows which part of which video frame it is.  A payload byte is    *)
(* never taken for a header by accident.                                   *)
(***************************************************************************)
EXTENDS Integers, Sequences

CONSTANTS BufLen,      \* MAX_FRAME_BUFFER_LEN, the size of the ring
          BufferSize,  \* RTSP_DATA_MAIN_BUFER_SIZE, RTSP_DATA_SUB_BUFER_SIZE
          MaxRecv,     \* what one recv returns at most: the socket's buffer
          Packets,     \* the packets a camera sends: their kind and payload size
          MaxPackets,  \* bound: packets the camera sends
          MaxWire      \* bound: units in flight

\* The fragments of a video frame, a frame in one packet, audio or a payload
\* type nobody handles, an RTCP packet, the reply to GET_PARAMETER, and what the
\* parser gives up on.
VideoKinds == {"start", "middle", "end", "single"}
Kinds      == VideoKinds \cup {"audio", "rtcp", "reply", "undefined"}

ASSUME ReceiveAssumption ==
    /\ BufLen \in Nat \ {0}
    /\ BufferSize \in Nat \ {0}
    /\ MaxRecv \in Nat \ {0}
    /\ MaxPackets \in Nat
    /\ MaxWire \in Nat
    /\ Packets \subseteq [kind : Kinds, size : Nat \ {0}]
    \* A whole packet is smaller than what always stays in the ring, and a
    \* receive never fills the ring.
    /\ \A p \in Packets : p.size < BufferSize
    /\ BufferSize + MaxRecv < BufLen

VARIABLES camera,      \* packets sent; the video frame, how much of it, more to come
          wire,        \* units sent and not received yet
          replied,     \* the reply to PLAY has been read
          buf, dataStart, dataEnd,   \* ringBuf
          startFlag,   \* a first receive began with '$'
          packetBuf,   \* BufferAddr[0 .. DataEnd), the frame being put together
          video,       \* the last frame inserted into the video frame queue
          pending,     \* history: units received and kept, not parsed yet
          synced       \* history: a frame's first fragment came in this session

vars == <<camera, wire, replied, buf, dataStart, dataEnd, startFlag, packetBuf,
          video, pending, synced>>
net  == <<camera, wire, replied>>

\* A unit: [kind, frame, n].  For a header n is the payload size; the payload
\* units of frame f are numbered 1, 2, ... and the very last one is "last".
Header(kind, f, size) == [kind |-> kind, frame |-> f, n |-> size]
Payload(kind, f, n)   == [kind |-> kind, frame |-> f, n |-> n]
Garbage  == Payload("garbage", 0, 0)
IsHeader(u) == u.kind \in Kinds
Cells    == 0..BufLen - 1

-----------------------------------------------------------------------------
(* buffer_ring.c.  Equal cursors mean "full" to these functions unless they *)
(* are zero, when they mean "empty".                                        *)

\* ring_used_size and ring_free_size_ex
UsedSize(start, end) ==
    IF end # 0 /\ end = start THEN BufLen - start
                              ELSE (end - start + BufLen) % BufLen

FreeSizeEx == IF dataEnd # 0 /\ dataEnd = dataStart THEN 0
              ELSE IF dataStart > dataEnd THEN dataStart - dataEnd
              ELSE BufLen - dataEnd

\* ring_pop_n at a given start: the units read and the start after it.  A pop
\* that fails reads nothing and leaves the start alone.
CanPop(start, n) == UsedSize(start, dataEnd) >= n
Popped(start, n) == [i \in 1..n |-> IF CanPop(start, n)
                                    THEN buf[(start + i - 1) % BufLen]
                                    ELSE Garbage]
AfterPop(start, n) == IF CanPop(start, n) THEN (start + n) % BufLen ELSE start

-----------------------------------------------------------------------------
(* The camera: fragments of one frame in order, anything else between them. *)

\* The payload of the next video packet of the camera's frame.
VideoUnits(f, sent, size, final) ==
    [i \in 1..size |-> Payload(IF final /\ i = size THEN "last" ELSE "data", f, sent + i)]

Send(p, f, payload) == wire' = wire \o <<Header(p.kind, f, p.size)>> \o payload

CameraSends(p) ==
    /\ camera.packets < MaxPackets
    /\ Len(wire) + 1 + p.size <= MaxWire
    /\ \/ /\ p.kind \in {"start", "single"}
          /\ ~camera.more
          /\ LET f == camera.frame + 1 IN
             /\ Send(p, f, VideoUnits(f, 0, p.size, p.kind = "single"))
             /\ camera' = [packets |-> camera.packets + 1, frame |-> f,
                           sent |-> p.size, more |-> p.kind = "start"]
       \/ /\ p.kind \in {"middle", "end"}
          /\ camera.more
          /\ Send(p, camera.frame,
                  VideoUnits(camera.frame, camera.sent, p.size, p.kind = "end"))
          /\ camera' = [camera EXCEPT !.packets = @ + 1, !.sent = @ + p.size,
                                      !.more = p.kind = "middle"]
       \/ /\ p.kind \notin VideoKinds
          /\ Send(p, 0, [i \in 1..p.size |-> Payload("other", 0, i)])
          /\ camera' = [camera EXCEPT !.packets = @ + 1]
    /\ UNCHANGED <<replied, buf, dataStart, dataEnd, startFlag, packetBuf, video,
                   pending, synced>>

\* RTSP_TcpRecvRtspMsg reads the reply to PLAY with one large recv: whatever of
\* the stream has already arrived is taken with it.
ReadReply(n) ==
    /\ ~replied
    /\ n \in 0..Len(wire)
    /\ replied' = TRUE
    /\ wire' = SubSeq(wire, n + 1, Len(wire))
    /\ UNCHANGED <<camera, buf, dataStart, dataEnd, startFlag, packetBuf, video,
                   pending, synced>>

-----------------------------------------------------------------------------
(* The thread.  It receives only when the parser has stopped.               *)

Receiving == replied /\ UsedSize(dataStart, dataEnd) <= BufferSize

\* Fault: the parser also goes on when just BufferSize is there.
ParsingAtReserve == replied /\ UsedSize(dataStart, dataEnd) >= BufferSize

Parsing == replied /\ UsedSize(dataStart, dataEnd) > BufferSize

\* RtspParseRtpPacketInfo.  The headers first; what it does with the payload is the
\* business of the actions below.
Current   == buf[dataStart]
AfterHead == (dataStart + 1) % BufLen

Parse(kind) ==
    /\ Parsing
    /\ Current.kind = kind
    /\ pending' = SubSeq(pending, Current.n + 2, Len(pending))
    /\ UNCHANGED <<camera, wire, replied, buf, dataEnd, startFlag>>

-----------------------------------------------------------------------------
(* Faults a change to the code could introduce, each set in the place of    *)
(* the definition it is a variant of to see that a property notices it.     *)

\* ring_set_data_end does not wrap.
RecvUnwrapped(n) ==
    /\ Receiving
    /\ n \in 1..FreeSizeEx
    /\ n <= MaxRecv /\ n <= Len(wire)
    /\ buf' = [i \in Cells |-> IF i \in dataEnd..dataEnd + n - 1
                               THEN wire[i - dataEnd + 1] ELSE buf[i]]
    /\ wire' = SubSeq(wire, n + 1, Len(wire))
    /\ startFlag' = (startFlag \/ wire[1].kind \in Kinds \ {"reply"})
    /\ IF startFlag'
       THEN /\ dataEnd' = dataEnd + n
            /\ pending' = pending \o SubSeq(wire, 1, n)
       ELSE UNCHANGED <<dataEnd, pending>>
    /\ UNCHANGED <<camera, replied, dataStart, packetBuf, video, synced>>

\* The audio payload is popped into the buffer of the video frame.
ParseAudioShared ==
    /\ Parse("audio")
    /\ packetBuf' = packetBuf \o Popped(AfterHead, Current.n)
    /\ dataStart' = AfterPop(AfterHead, Current.n)
    /\ UNCHANGED <<video, synced>>

\* The new session begins without ring_reset.
ReconnectKeepsRing ==
    /\ camera' = [camera EXCEPT !.sent = 0, !.more = FALSE]
    /\ wire' = <<>>
    /\ replied' = FALSE
    /\ startFlag' = FALSE
    /\ pending' = <<>>
    /\ synced' = FALSE
    /\ UNCHANGED <<buf, dataStart, dataEnd, packetBuf, video>>

-----------------------------------------------------------------------------
(* What the thread does with the network and with each kind of packet.      *)

\* recv writes at dataEnd without wrapping; the units count only when the stream
\* has started, which a receive beginning with '$' makes it do.
Recv(n) ==
    /\ Receiving
    /\ n \in 1..FreeSizeEx
    /\ n <= MaxRecv /\ n <= Len(wire)
    /\ buf' = [i \in Cells |-> IF i \in dataEnd..dataEnd + n - 1
                               THEN wire[i - dataEnd + 1] ELSE buf[i]]
    /\ wire' = SubSeq(wire, n + 1, Len(wire))
    /\ startFlag' = (startFlag \/ wire[1].kind \in Kinds \ {"reply"})
    /\ IF startFlag'
       THEN /\ dataEnd' = (dataEnd + n) % BufLen
            /\ pending' = pending \o SubSeq(wire, 1, n)
       ELSE UNCHANGED <<dataEnd, pending>>
    /\ UNCHANGED <<camera, replied, dataStart, packetBuf, video, synced>>

\* GetPacketBufferAddr(FRAME_START) begins the frame anew, with the NAL byte made
\* from the headers.
ParseStart ==
    /\ Parse("start")
    /\ packetBuf' = <<Current>> \o Popped(AfterHead, Current.n)
    /\ dataStart' = AfterPop(AfterHead, Current.n)
    /\ synced' = TRUE
    /\ UNCHANGED video

ParseMiddle ==
    /\ Parse("middle")
    /\ packetBuf' = packetBuf \o Popped(AfterHead, Current.n)
    /\ dataStart' = AfterPop(AfterHead, Current.n)
    /\ UNCHANGED <<video, synced>>

ParseEnd ==
    /\ Parse("end")
    /\ packetBuf' = packetBuf \o Popped(AfterHead, Current.n)
    /\ dataStart' = AfterPop(AfterHead, Current.n)
    /\ video' = packetBuf'
    /\ UNCHANGED synced

ParseSingle ==
    /\ Parse("single")
    /\ packetBuf' = Popped(AfterHead, Current.n)
    /\ dataStart' = AfterPop(AfterHead, Current.n)
    /\ video' = packetBuf'
    /\ synced' = TRUE

\* Audio has a buffer of its own and leaves the video frame alone.
ParseAudio ==
    /\ Parse("audio")
    /\ dataStart' = AfterPop(AfterHead, Current.n)
    /\ UNCHANGED <<packetBuf, video, synced>>

\* ring_set_data_start skips the packet without asking whether it is there.
ParseSkip ==
    /\ Parse("rtcp") \/ Parse("reply")
    /\ dataStart' = (AfterHead + Current.n) % BufLen
    /\ UNCHANGED <<packetBuf, video, synced>>

\* The connection is closed and the camera invited again: the ring is reset,
\* packetBuf is not.
Reconnect ==
    /\ camera' = [camera EXCEPT !.sent = 0, !.more = FALSE]
    /\ wire' = <<>>
    /\ replied' = FALSE
    /\ dataStart' = 0 /\ dataEnd' = 0
    /\ startFlag' = FALSE
    /\ pending' = <<>>
    /\ synced' = FALSE
    /\ UNCHANGED <<buf, packetBuf, video>>

\* The parser gives up on a packet it does not know, or on what is no header.
ParseFails ==
    /\ Parsing
    /\ Current.kind \notin Kinds \ {"undefined"}
    /\ Reconnect

\* A failing recv, two timeouts, no room in the ring, or a message to the thread.
HangUp == Receiving /\ Reconnect

Init ==
    /\ camera = [packets |-> 0, frame |-> 0, sent |-> 0, more |-> FALSE]
    /\ wire = <<>>
    /\ replied = FALSE
    /\ buf = [i \in Cells |-> Garbage]
    /\ dataStart = 0 /\ dataEnd = 0
    /\ startFlag = FALSE
    /\ packetBuf = <<>>
    /\ video = <<>>
    /\ pending = <<>>
    /\ synced = FALSE

Next == \/ \E p \in Packets : CameraSends(p)
        \/ \E n \in 0..MaxWire : ReadReply(n)
        \/ \E n \in 1..MaxRecv : Recv(n)
        \/ ParseStart \/ ParseMiddle \/ ParseEnd \/ ParseSingle
        \/ ParseAudio \/ ParseSkip \/ ParseFails
        \/ HangUp

Spec == Init /\ [][Next]_vars

-----------------------------------------------------------------------------
Units == [kind : Kinds \cup {"data", "last", "other", "garbage"}, frame : Nat, n : Nat]

TypeOK ==
    /\ camera \in [packets : Nat, frame : Nat, sent : Nat, more : BOOLEAN]
    /\ wire \in Seq(Units)
    /\ replied \in BOOLEAN
    /\ buf \in [Cells -> Units]
    /\ dataStart \in Cells
    /\ dataEnd \in Cells
    /\ startFlag \in BOOLEAN
    /\ packetBuf \in Seq(Units)
    /\ video \in Seq(Units)
    /\ pending \in Seq(Units)
    /\ synced \in BOOLEAN

\* The ring is the queue of units received and not parsed, in order, for every
\* split of the stream into receives and every position at which cursors wrap:
\* the sizes it reports are exact although equal cursors are ambiguous.
RingIsQueue ==
    /\ UsedSize(dataStart, dataEnd) = Len(pending)
    /\ \A i \in 1..Len(pending) : buf[(dataStart + i - 1) % BufLen] = pending[i]

\* The parser stays in step with the camera: when it begins a packet, what is at
\* dataStart is a header and the packet has been received to its end, although
\* it never checks; so only a packet it does not know makes it give up.
ParserInStep ==
    Parsing => /\ IsHeader(Current)
               /\ Len(pending) > Current.n

\* A frame that reaches the frame queue after the session's first frame start is
\* one frame of the camera, from its first unit to its last, without a gap, a
\* repetition or a piece of another frame or of an earlier session; and it is later
\* than anything of which the frame before it was made, over all reconnects.
Body(s)      == IF s[1].kind = "start" THEN Tail(s) ELSE s
Whole(s, f)  == Body(s) = VideoUnits(f, 0, Len(Body(s)), TRUE)
Before(s, f) == \A i \in 1..Len(s) : s[i].frame < f

FramesAreWhole ==
    [][video' # video /\ synced' =>
          \E f \in 1..MaxPackets : Whole(video', f) /\ Before(video, f)]_vars
=============================================================================
