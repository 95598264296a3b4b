----------------------------- MODULE RtspServer -----------------------------
(***************************************************************************)
(* Session lifecycle of the RTSP server (rtspSLib.c) and the RTP senders   *)
(* it starts (hs_rtpLib.c).  One server thread accepts connections, reads  *)
(* requests, answers them and closes sessions; every TCP session in PLAY   *)
(* has a sender thread of its own, which writes sessStat as well, and      *)
(* which nobody locks out.                                                 *)
(*                                                                         *)
(* A session is the memory it lives in, used again after free().  Any      *)
(* request may come in any state, and a reply may fail at any time: the    *)
(* client is gone or its socket is full.  SETUP of a session that streams  *)
(* is answered like any other: the session is READY again while its sender *)
(* runs, and what it was counted and joined by is forgotten.  Two history  *)
(* variables, again and left, say how often that has happened; no action   *)
(* but for the bound of the model reads them.                              *)
(***************************************************************************)
EXTENDS Integers, FiniteSets, FiniteSetsExt

CONSTANTS Sessions,   \* memory for sessions
          Channels,   \* what a client can ask for
          AvTypes,    \* media with a UDP sender each, VIDEO before AUDIO
          Addrs,      \* IP address and UDP port; clients may share one
          MAX_TARGETS,\* UDP targets of one sender (RTP_MAX_SENDER)
          MaxDrift,   \* bound: how far below zero clientCnt may fall
          MaxAgain,   \* bound: SETUPs of a channel's streaming sessions
          NONE        \* no session, no channel, no address

ASSUME RtspAssumption == /\ IsFiniteSet(Sessions)
                         /\ AvTypes \subseteq {"VIDEO", "AUDIO"}
                         /\ MAX_TARGETS \in Nat
                         /\ MaxDrift \in Nat
                         /\ MaxAgain \in Nat
                         /\ NONE \notin Sessions \cup Channels \cup Addrs

VARIABLES sessStat,   \* "free", or the sessStat of the session
          channel,    \* channel of the last SETUP
          transport,  \* "UDP" or "TCP"
          ports,      \* where the client wants each av type over UDP
          sender,     \* thread tcpThrId names: "none", "running" or "exited"
          buffer,     \* is pRtpTcpSender allocated
          stray,      \* running sender threads that no tcpThrId names any more
          targets,    \* entries for an address in the list of a UDP sender
          clientCnt,  \* channel -> number of clients
          step, cur,  \* what the server thread does, and for which session
          again,      \* history: SETUPs of the session while it streamed
          left        \* history: such SETUPs of sessions on the channel

request == <<channel, transport, ports>>
thread  == <<sender, buffer, stray>>
server  == <<step, cur>>
history == <<again, left>>
vars    == <<sessStat, request, thread, targets, clientCnt, server, history>>

Streaming(s) == sessStat[s] \in {"PLAY", "STOP"}   \* sessStat >= RTSP_STATE_PLAY

\* What a session was asked for; what free() leaves behind of it means nothing.
Forget(s) == /\ channel' = [channel EXCEPT ![s] = NONE]
             /\ transport' = [transport EXCEPT ![s] = "UDP"]
             /\ ports' = [ports EXCEPT ![s] = [av \in AvTypes |-> NONE]]

\* The server thread has a request of s in its hands.
Serving(s) == /\ sessStat[s] # "free"
              /\ step = "loop" \/ (step = "serving" /\ cur = s)

Looping == step' = "loop" /\ cur' = NONE
At(doing, s) == step' = doing /\ cur' = s

-----------------------------------------------------------------------------
(* Faults a change to the code could introduce, each set in the place of   *)
(* the definition it is a variant of to see that a property notices it.    *)

\* Only a session that is still in PLAY is taken off its channel's count.
ListDelPlayOnly(s) ==
    /\ sessStat' = [sessStat EXCEPT ![s] = "free"]
    /\ clientCnt' = IF sessStat[s] = "PLAY"
                    THEN [clientCnt EXCEPT ![channel[s]] = @ - 1]
                    ELSE clientCnt
    /\ stray' = IF sender[s] = "running" THEN [stray EXCEPT ![s] = @ + 1] ELSE stray
    /\ sender' = [sender EXCEPT ![s] = "none"]
    /\ Forget(s)
    /\ UNCHANGED history

\* The sender is not told to stop before it is joined.
CloseTcpNoStop(s) == /\ Streaming(s)
                     /\ transport[s] = "TCP"
                     /\ At("joining", s)
                     /\ UNCHANGED <<sessStat, request, thread, targets, clientCnt, history>>

\* The sender is not joined before the session is freed.
CloseUnjoined(s) ==
    /\ step = "joining" /\ cur = s
    /\ buffer' = [buffer EXCEPT ![s] = FALSE]
    /\ sessStat' = [sessStat EXCEPT ![s] = "free"]
    /\ clientCnt' = [clientCnt EXCEPT ![channel[s]] = @ - 1]
    /\ stray' = IF sender[s] = "running" THEN [stray EXCEPT ![s] = @ + 1] ELSE stray
    /\ sender' = [sender EXCEPT ![s] = "none"]
    /\ Forget(s)
    /\ Looping
    /\ UNCHANGED <<targets, history>>

\* The sender announces its exit with RTSP_TCP_EXIT, which nobody looks for.
SenderExitUnseen(s) ==
    /\ step # "crashed"
    /\ sender[s] = "running"
    /\ sender' = [sender EXCEPT ![s] = "exited"]
    /\ sessStat' = [sessStat EXCEPT ![s] = "TCP_EXIT"]
    /\ UNCHANGED <<request, buffer, stray, targets, clientCnt, server, history>>

-----------------------------------------------------------------------------
(* Closing.                                                                *)

\* free(): a sender that was not joined runs on with nobody to join it.
ListDel(s) ==
    /\ sessStat' = [sessStat EXCEPT ![s] = "free"]
    /\ clientCnt' = IF Streaming(s) /\ channel[s] # NONE
                    THEN [clientCnt EXCEPT ![channel[s]] = @ - 1]
                    ELSE clientCnt
    /\ stray' = IF sender[s] = "running" THEN [stray EXCEPT ![s] = @ + 1] ELSE stray
    /\ sender' = [sender EXCEPT ![s] = "none"]
    /\ Forget(s)
    /\ UNCHANGED history

\* RTSP_SessionClose of a session that does not stream.
CloseQuiet(s) == /\ ~Streaming(s)
                 /\ ListDel(s)
                 /\ Looping
                 /\ UNCHANGED <<buffer, targets>>

\* Of a TCP session: STOP, and then the thread waits in pthread_join.
CloseTcp(s) == /\ Streaming(s)
               /\ transport[s] = "TCP"
               /\ sessStat' = [sessStat EXCEPT ![s] = "STOP"]
               /\ At("joining", s)
               /\ UNCHANGED <<request, thread, targets, clientCnt, history>>

\* Of a UDP session: an entry with its address goes, if there is one.
Entry(s) == {e \in Channels \X AvTypes \X Addrs :
                 e[1] = channel[s] /\ e[3] = ports[s][e[2]]}

CloseUdp(s) == /\ Streaming(s)
               /\ transport[s] = "UDP"
               /\ channel[s] # NONE
               /\ targets' = [e \in DOMAIN targets |->
                                 IF e \in Entry(s) /\ targets[e] > 0
                                 THEN targets[e] - 1 ELSE targets[e]]
               /\ ListDel(s)
               /\ Looping
               /\ UNCHANGED buffer

\* A session that was stopped before any SETUP has channel -1, and what lies
\* before the first sender is no pointer.
CloseCrash(s) == /\ Streaming(s)
                 /\ transport[s] = "UDP"
                 /\ channel[s] = NONE
                 /\ At("crashed", NONE)
                 /\ UNCHANGED <<sessStat, request, thread, targets, clientCnt, history>>

Close(s) == CloseQuiet(s) \/ CloseTcp(s) \/ CloseUdp(s) \/ CloseCrash(s)

\* The join has returned.
CloseJoined(s) ==
    /\ step = "joining" /\ cur = s
    /\ sender[s] # "running"
    /\ buffer' = [buffer EXCEPT ![s] = FALSE]
    /\ ListDel(s)
    /\ Looping
    /\ UNCHANGED targets

-----------------------------------------------------------------------------
(* Requests.                                                               *)

\* accept and RTSP_SessionCreate: what the memory held before is forgotten, but
\* for the threads that still use it.  The request that came with the
\* connection is served in the same turn of the loop.
Accept(s) ==
    /\ step = "loop"
    /\ sessStat[s] = "free"
    /\ \A c \in Channels : clientCnt[c] > -MaxDrift
    /\ sessStat' = [sessStat EXCEPT ![s] = "INIT"]
    /\ Forget(s)
    /\ sender' = [sender EXCEPT ![s] = "none"]
    /\ buffer' = [buffer EXCEPT ![s] = FALSE]
    /\ again' = [again EXCEPT ![s] = stray[s]]
    /\ At("serving", s)
    /\ UNCHANGED <<stray, targets, clientCnt, left>>

\* OPTIONS, DESCRIBE, SET_PARAMETER, PAUSE and unknown methods only answer.
Answer(s) ==
    /\ Serving(s)
    /\ Looping
    /\ UNCHANGED <<sessStat, request, thread, targets, clientCnt, history>>

\* The reply fails, the request is malformed or a PLAY that is not READY, or
\* recv finds the client gone.
Drop(s) == Serving(s) /\ Close(s)

\* SETUP, whatever the session does.
Setup(s) == \E c \in Channels :
    /\ Serving(s)
    /\ Streaming(s) => \A d \in Channels : left[d] < MaxAgain
    /\ channel' = [channel EXCEPT ![s] = c]
    /\ \/ /\ transport' = [transport EXCEPT ![s] = "TCP"]
          /\ UNCHANGED ports
       \/ \E av \in AvTypes, a \in Addrs :
              /\ transport' = [transport EXCEPT ![s] = "UDP"]
              /\ ports' = [ports EXCEPT ![s][av] = a]
       \/ UNCHANGED <<transport, ports>>           \* neither a port nor TCP
    /\ again' = IF Streaming(s) THEN [again EXCEPT ![s] = @ + 1] ELSE again
    /\ left' = IF Streaming(s) /\ channel[s] # NONE
               THEN [left EXCEPT ![channel[s]] = @ + 1] ELSE left
    /\ At("answering", s)
    /\ UNCHANGED <<sessStat, thread, targets, clientCnt>>

SetupReply(s) ==
    /\ step = "answering" /\ cur = s
    /\ sessStat' = [sessStat EXCEPT ![s] = "READY"]
    /\ Looping
    /\ UNCHANGED <<request, thread, targets, clientCnt, history>>

\* PLAY over TCP: the sender thread runs from here on, before the reply is sent;
\* one that runs already is forgotten.
PlayTcp(s) ==
    /\ Serving(s)
    /\ sessStat[s] = "READY"
    /\ transport[s] = "TCP"
    /\ buffer' = [buffer EXCEPT ![s] = TRUE]
    /\ \/ /\ sessStat' = [sessStat EXCEPT ![s] = "PLAY"]
          /\ sender' = [sender EXCEPT ![s] = "running"]
          /\ stray' = IF sender[s] = "running" THEN [stray EXCEPT ![s] = @ + 1] ELSE stray
       \/ /\ sessStat' = [sessStat EXCEPT ![s] = "STOP"]   \* no thread: 911
          /\ UNCHANGED <<sender, stray>>
    /\ At("replying", s)
    /\ UNCHANGED <<request, targets, clientCnt, history>>

\* PLAY over UDP: an entry for every av type that has a port, one more if the
\* address has one already.
Full(c, av) == MapThenSumSet(LAMBDA a : targets[<<c, av, a>>], Addrs) >= MAX_TARGETS

Add(s, avs) == targets' = [e \in DOMAIN targets |->
    IF e \in Entry(s) /\ e[2] \in avs THEN targets[e] + 1 ELSE targets[e]]

PlayUdp(s) ==
    /\ Serving(s)
    /\ sessStat[s] = "READY"
    /\ transport[s] = "UDP"
    /\ \A av \in AvTypes : ports[s][av] # NONE => ~Full(channel[s], av)
    /\ Add(s, AvTypes)
    /\ At("replying", s)
    /\ UNCHANGED <<sessStat, request, thread, clientCnt, history>>

\* One sender is full: the entries before it stay.
PlayUdpFull(s) ==
    /\ Serving(s)
    /\ sessStat[s] = "READY"
    /\ transport[s] = "UDP"
    /\ \E av \in AvTypes : ports[s][av] # NONE /\ Full(channel[s], av)
    /\ Add(s, {av \in AvTypes \cap {"VIDEO"} : ~Full(channel[s], av)})
    /\ At("failing", s)
    /\ UNCHANGED <<sessStat, request, thread, clientCnt, history>>

PlayReply(s) ==
    /\ step = "replying" /\ cur = s
    /\ sessStat' = [sessStat EXCEPT ![s] = "PLAY"]
    /\ clientCnt' = [clientCnt EXCEPT ![channel[s]] = @ + 1]
    /\ Looping
    /\ UNCHANGED <<request, thread, targets, history>>

\* The handler fails after it changed the session, which is then closed.
ReplyFails(s) == /\ step \in {"answering", "replying", "failing"}
                 /\ cur = s
                 /\ Close(s)

Teardown(s) ==
    /\ Serving(s)
    /\ sessStat' = [sessStat EXCEPT ![s] = "STOP"]
    /\ Looping
    /\ UNCHANGED <<request, thread, targets, clientCnt, history>>

\* RTSP_SessionStatCheck, at every turn of the loop.
StatCheck(s) == /\ step = "loop"
                /\ sessStat[s] = "STOP"
                /\ Close(s)

-----------------------------------------------------------------------------
\* A sender leaves its loop when it reads another state than PLAY, when nothing
\* was to send for a second, and when a send fails; it always writes STOP.
SenderExit(s) ==
    /\ step # "crashed"
    /\ sender[s] = "running"
    /\ sender' = [sender EXCEPT ![s] = "exited"]
    /\ sessStat' = [sessStat EXCEPT ![s] = "STOP"]
    /\ UNCHANGED <<request, buffer, stray, targets, clientCnt, server, history>>

\* One that nobody knows of writes into whatever session the memory holds now.
StrayExit(s) ==
    /\ step # "crashed"
    /\ stray[s] > 0
    /\ stray' = [stray EXCEPT ![s] = @ - 1]
    /\ sessStat' = IF sessStat[s] = "free" THEN sessStat
                   ELSE [sessStat EXCEPT ![s] = "STOP"]
    /\ UNCHANGED <<request, sender, buffer, targets, clientCnt, server, history>>

-----------------------------------------------------------------------------
Init ==
    /\ sessStat = [s \in Sessions |-> "free"]
    /\ channel = [s \in Sessions |-> NONE]
    /\ transport = [s \in Sessions |-> "UDP"]
    /\ ports = [s \in Sessions |-> [av \in AvTypes |-> NONE]]
    /\ sender = [s \in Sessions |-> "none"]
    /\ buffer = [s \in Sessions |-> FALSE]
    /\ stray = [s \in Sessions |-> 0]
    /\ targets = [e \in Channels \X AvTypes \X Addrs |-> 0]
    /\ clientCnt = [c \in Channels |-> 0]
    /\ step = "loop"
    /\ cur = NONE
    /\ again = [s \in Sessions |-> 0]
    /\ left = [c \in Channels |-> 0]

ServerStep(s) ==
    \/ Accept(s) \/ Answer(s) \/ Drop(s) \/ Setup(s) \/ SetupReply(s) \/ Teardown(s)
    \/ PlayTcp(s) \/ PlayUdp(s) \/ PlayUdpFull(s) \/ PlayReply(s) \/ ReplyFails(s)
    \/ StatCheck(s) \/ CloseJoined(s)

Next == \E s \in Sessions : ServerStep(s) \/ SenderExit(s) \/ StrayExit(s)

Spec == Init /\ [][Next]_vars

\* The handler at work returns (every socket has a send timeout); every turn of
\* the loop begins with the check for stopped sessions, so a session that is
\* stopped again and again is closed there, unless its client sets it up before
\* each check; and a sender that reads STOP leaves its loop.  No client has to
\* send anything.
FairSpec ==
    /\ Spec
    /\ \A s \in Sessions :
          /\ WF_vars(cur = s /\ ServerStep(s))
          /\ SF_vars(sessStat[s] = "STOP" /\ (StatCheck(s) \/ Setup(s)))
          /\ WF_vars(SenderExit(s) /\ sessStat[s] # "PLAY")

-----------------------------------------------------------------------------
TypeOK ==
    /\ sessStat \in [Sessions -> {"free", "INIT", "READY", "PLAY", "STOP"}]
    /\ channel \in [Sessions -> Channels \cup {NONE}]
    /\ transport \in [Sessions -> {"UDP", "TCP"}]
    /\ ports \in [Sessions -> [AvTypes -> Addrs \cup {NONE}]]
    /\ sender \in [Sessions -> {"none", "running", "exited"}]
    /\ buffer \in [Sessions -> BOOLEAN]
    /\ stray \in [Sessions -> Nat]
    /\ targets \in [Channels \X AvTypes \X Addrs -> Nat]
    /\ clientCnt \in [Channels -> Int]
    /\ step \in {"loop", "serving", "answering", "replying", "failing", "joining",
                 "crashed"}
    /\ cur \in Sessions \cup {NONE}
    /\ again \in [Sessions -> Nat]
    /\ left \in [Channels -> Nat]

\* Sender threads and sessions, in every order of a sender's own exit, the
\* client's requests and the closing.  A sender thread runs on with nobody to
\* join it, on memory that is or will be freed (rtspSLib.c:865-873 and
\* :898-928 free without a join, and a second PLAY overwrites tcpThrId), only
\* after the session was set up again while it streamed, and at most once for
\* each such SETUP, which :1484-1671 answers in every state.  A session that
\* was not set up while it streamed has a sender only with a send buffer, both
\* belong to a TCP session that streams, and both are gone once it is freed.
SenderHasSession ==
    \A s \in Sessions :
        /\ stray[s] <= again[s]
        /\ again[s] = 0 => /\ sender[s] # "none" => buffer[s]
                           /\ buffer[s] => Streaming(s) /\ transport[s] = "TCP"

\* clientCnt, by which RTSP_CheckChn refuses clients, claims a client that is
\* not there only where one that streamed from the channel was set up again
\* (SETUP takes it off no count, and closing it takes it off at most one, that
\* of its new channel), and at most one for each such SETUP.
Clients(c) == {s \in Sessions : Streaming(s) /\ channel[s] = c}

CountIsBounded ==
    \A c \in Channels : clientCnt[c] <= Cardinality(Clients(c)) + left[c]

\* The reply to TEARDOWN says "Connection: Close" (rtspSLib.c:960): a session
\* that is stopped is closed and freed, although its sender thread has to be
\* joined first, unless its client makes it READY with a SETUP before the next
\* check for stopped sessions.  A session stopped before any SETUP ends the
\* server instead: its close goes through a sender of channel -1 (:903).
StoppedIsClosed ==
    \A s \in Sessions :
        sessStat[s] = "STOP" /\ cur # s
            ~> sessStat[s] \in {"free", "READY"} \/ step = "crashed"

\* hs_rtpLib.c:283 says "reached the max sender target host" when it refuses a
\* target: there are then as many sessions streaming to that sender.
Receivers(c, av) == {s \in Sessions : /\ Streaming(s) /\ transport[s] = "UDP"
                                      /\ channel[s] = c /\ ports[s][av] # NONE}

RefusedOnlyWhenFull ==
    [][\A s \in Sessions : PlayUdpFull(s) =>
          \E av \in AvTypes :
              /\ ports[s][av] # NONE
              /\ Cardinality(Receivers(channel[s], av)) >= MAX_TARGETS]_vars
=============================================================================
