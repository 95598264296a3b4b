--------------------------- MODULE NetworkStream ---------------------------
(***************************************************************************)
(* The threads that fetch the stream of one camera channel (networkLib.c). *)
(* Users of a channel (decoder, recorder, proxy) start and stop it; the    *)
(* first start creates a network thread, the last stop sends it EXIT       *)
(* through the message queue of the channel.  The count, the queue and     *)
(* runFlag each have a mutex, and nothing spans two of them.               *)
(*                                                                         *)
(* Nothing in src/ sends PAUSE, STOP, NEXT or WAIT, so only RUN, EXIT and  *)
(* RESTART are modelled.  malloc and pthread_create succeed; the limit on  *)
(* socket numbers is not reached.                                          *)
(***************************************************************************)
EXTENDS Integers, Sequences, FiniteSets

CONSTANTS Callers,    \* threads that call networkStartStream and its sisters
          Threads,    \* network threads that may exist at once
          Types,      \* NETWORK_INVITE_TYPE_*
          StrayStops, \* do callers stop what they have not started
          MaxUsed,    \* bound: users of one type
          MaxMsgs,    \* bound: messages queued or about to be, when a call begins
          NONE

ASSUME NetworkAssumption == /\ NONE \notin Threads
                            /\ IsFiniteSet(Types)
                            /\ StrayStops \in BOOLEAN
                            /\ MaxUsed \in Nat /\ MaxMsgs \in Nat

VARIABLES call,       \* what a caller still has to do
          useNum,     \* useNumDecode, useNumRecord, useNumProxy
          msgQueue,   \* messages, oldest first
          runFlag,    \* of the channel; "PAUSE" is 0
          isConnect,  \* of the channel
          published,  \* the thread whose frame queue is in pVideoFrameQueue
          pc,         \* where a thread is
          message,    \* what GetMessageFromQueue has returned to it
          connectFlag \* threads that have a connection

channel == <<useNum, msgQueue, runFlag, isConnect, published>>
vars    == <<call, channel, pc, message, connectFlag>>

Messages == {"RUN", "EXIT", "RESTART"}

\* Past the check for a running thread, and not yet gone.
Working == {"asleep", "published", "top", "judge", "dial", "stream",
            "ended", "flagged", "unhooked"}

\* networkGetStreamUsedNum: the sum of the counts, as a number of pairs.
UsedNum(n) == Cardinality(UNION {{ty} \X (1 .. n[ty]) : ty \in Types})

Goto(t, l) == pc' = [pc EXCEPT ![t] = l]

\* GetMessageFromQueue.
GetMessage(t) ==
    IF msgQueue = <<>>
    THEN /\ message' = [message EXCEPT ![t] = NONE]
         /\ UNCHANGED <<msgQueue, runFlag>>
    ELSE /\ message' = [message EXCEPT ![t] = Head(msgQueue)]
         /\ msgQueue' = Tail(msgQueue)
         /\ runFlag' = Head(msgQueue)

-----------------------------------------------------------------------------
(* Faults a change to the code could introduce, each set in the place of   *)
(* the definition it is a variant of to see that a property notices it.    *)

\* The thread does not say that it has ended.
EndSilently(t) ==
    /\ pc[t] = "ended"
    /\ Goto(t, "flagged")
    /\ UNCHANGED <<call, channel, message, connectFlag>>

\* pVideoFrameQueue keeps the queue that is torn down next.
UnhookNothing(t) ==
    /\ pc[t] = "flagged"
    /\ Goto(t, "unhooked")
    /\ UNCHANGED <<call, channel, message, connectFlag>>

\* A count of 0 is taken from as well.
DelUnguarded(n) == n - 1

\* EXIT is sent only when the count is below 0, which it never is.
UnusedBelow(n) == n < 0

\* A thread whose EXIT was taken in the inner loop goes on without asking for users.
JudgeOnUnasked(t) ==
    /\ pc[t] = "judge"
    /\ message[t] # "EXIT"
    /\ runFlag' = IF message[t] = "RESTART" THEN "RUN" ELSE runFlag
    /\ Goto(t, "dial")
    /\ UNCHANGED <<call, useNum, msgQueue, isConnect, published, message, connectFlag>>

\* isConnect stays set when the connection is closed.
TopKeepsConnect(t) ==
    /\ pc[t] = "top"
    /\ GetMessage(t)
    /\ connectFlag' = connectFlag \ {t}
    /\ Goto(t, "judge")
    /\ UNCHANGED <<call, useNum, isConnect, published>>

-----------------------------------------------------------------------------
(* The callers.                                                            *)

\* The queue has no limit and queueLinkIn never waits.  What is bounded is where a
\* call begins: with room for its message, and for its thread, in the instance.
Coming == {c \in Callers : call[c] \in {"run", "exit", "restart"}}
Room   == Len(msgQueue) + Cardinality(Coming) < MaxMsgs

Spare  == {t \in Threads : pc[t] = "none"}
ThreadLeft ==
    Cardinality(Spare) > Cardinality({c \in Callers : call[c] \in {"run", "create"}})

\* networkAddStreamUsedNum under its mutex; the first user goes on.
Start(c) == \E ty \in Types :
    /\ call[c] = "idle"
    /\ useNum[ty] < MaxUsed
    /\ UsedNum(useNum) = 0 => Room /\ ThreadLeft
    /\ useNum' = [useNum EXCEPT ![ty] = @ + 1]
    /\ call' = [call EXCEPT ![c] = IF UsedNum(useNum') = 1 THEN "run" ELSE "idle"]
    /\ UNCHANGED <<msgQueue, runFlag, isConnect, published, pc, message, connectFlag>>

\* networkDelStreamUsedNum; a count of 0 stays 0, and sends EXIT as well.
Del(n) == IF n > 0 THEN n - 1 ELSE n
Unused(n) == n <= 0

Stop(c) == \E ty \in Types :
    /\ call[c] = "idle"
    /\ StrayStops \/ useNum[ty] > 0
    /\ UsedNum(useNum) <= 1 => Room
    /\ useNum' = [useNum EXCEPT ![ty] = Del(@)]
    /\ call' = [call EXCEPT ![c] = IF Unused(UsedNum(useNum')) THEN "exit" ELSE "idle"]
    /\ UNCHANGED <<msgQueue, runFlag, isConnect, published, pc, message, connectFlag>>

Restart(c) ==
    /\ call[c] = "idle"
    /\ Room
    /\ call' = [call EXCEPT ![c] = "restart"]
    /\ UNCHANGED <<channel, pc, message, connectFlag>>

\* queueLinkIn under g_msgMutex.
Send(c, do, type, next) ==
    /\ call[c] = do
    /\ msgQueue' = Append(msgQueue, type)
    /\ call' = [call EXCEPT ![c] = next]
    /\ UNCHANGED <<useNum, runFlag, isConnect, published, pc, message, connectFlag>>

SendRun(c)     == Send(c, "run", "RUN", "create")
SendExit(c)    == Send(c, "exit", "EXIT", "idle")
SendRestart(c) == Send(c, "restart", "RESTART", "idle")

\* pthread_create.
Create(c) == \E t \in Threads :
    /\ call[c] = "create"
    /\ pc[t] = "none"
    /\ Goto(t, "born")
    /\ message' = [message EXCEPT ![t] = NONE]
    /\ call' = [call EXCEPT ![c] = "idle"]
    /\ UNCHANGED <<channel, connectFlag>>

-----------------------------------------------------------------------------
(* The network thread.                                                     *)

\* "is already invite stream": the new thread leaves again.  Otherwise it sleeps
\* for a second before it claims the channel.
Check(t) ==
    /\ pc[t] = "born"
    /\ Goto(t, IF runFlag \in {"PAUSE", "EXIT"} THEN "asleep" ELSE "none")
    /\ UNCHANGED <<call, channel, message, connectFlag>>

Publish(t) ==
    /\ pc[t] = "asleep"
    /\ published' = t
    /\ Goto(t, "published")
    /\ UNCHANGED <<call, useNum, msgQueue, runFlag, isConnect, message, connectFlag>>

Begin(t) ==
    /\ pc[t] = "published"
    /\ runFlag' = "RUN"
    /\ Goto(t, "top")
    /\ UNCHANGED <<call, useNum, msgQueue, isConnect, published, message, connectFlag>>

\* The top of the outer loop: a message is taken, an old connection is closed.
Top(t) ==
    /\ pc[t] = "top"
    /\ GetMessage(t)
    /\ connectFlag' = connectFlag \ {t}
    /\ isConnect' = IF t \in connectFlag THEN 0 ELSE isConnect
    /\ Goto(t, "judge")
    /\ UNCHANGED <<call, useNum, published>>

\* No user, or EXIT: the thread ends.
JudgeEnd(t) ==
    /\ pc[t] = "judge"
    /\ UsedNum(useNum) = 0 \/ message[t] = "EXIT"
    /\ Goto(t, "ended")
    /\ UNCHANGED <<call, channel, message, connectFlag>>

JudgeOn(t) ==
    /\ pc[t] = "judge"
    /\ UsedNum(useNum) # 0 /\ message[t] # "EXIT"
    /\ runFlag' = IF message[t] = "RESTART" THEN "RUN" ELSE runFlag
    /\ Goto(t, "dial")
    /\ UNCHANGED <<call, useNum, msgQueue, isConnect, published, message, connectFlag>>

\* The channel is disabled, or the camera does not answer.
DialFails(t) ==
    /\ pc[t] = "dial"
    /\ Goto(t, "top")
    /\ UNCHANGED <<call, channel, message, connectFlag>>

\* RTSP_GetStream, ONVIF_GetStream, Private_Protocol_GetStream.
DialOk(t) ==
    /\ pc[t] = "dial"
    /\ connectFlag' = connectFlag \cup {t}
    /\ isConnect' = 1
    /\ Goto(t, "stream")
    /\ UNCHANGED <<call, useNum, msgQueue, runFlag, published, message>>

\* The inner loop: EXIT and RESTART leave it, RUN and no message do not.
Poll(t) ==
    /\ pc[t] = "stream"
    /\ GetMessage(t)
    /\ Goto(t, IF message'[t] \in {"EXIT", "RESTART"} THEN "top" ELSE "stream")
    /\ UNCHANGED <<call, useNum, isConnect, published, connectFlag>>

\* No data for six seconds, or a broken connection.
Broken(t) ==
    /\ pc[t] = "stream"
    /\ Goto(t, "top")
    /\ UNCHANGED <<call, channel, message, connectFlag>>

\* The end of the thread, which may take long: a camera is unsubscribed from.
End(t) ==
    /\ pc[t] = "ended"
    /\ runFlag' = "EXIT"
    /\ Goto(t, "flagged")
    /\ UNCHANGED <<call, useNum, msgQueue, isConnect, published, message, connectFlag>>

Unhook(t) ==
    /\ pc[t] = "flagged"
    /\ published' = NONE
    /\ Goto(t, "unhooked")
    /\ UNCHANGED <<call, useNum, msgQueue, runFlag, isConnect, message, connectFlag>>

\* streamUninitFrameQueue of the thread's own queue.
UninitQueue(t) ==
    /\ pc[t] = "unhooked"
    /\ Goto(t, "none")
    /\ UNCHANGED <<call, channel, message, connectFlag>>

-----------------------------------------------------------------------------
Init ==
    /\ call = [c \in Callers |-> "idle"]
    /\ useNum = [ty \in Types |-> 0]
    /\ msgQueue = <<>>
    /\ runFlag = "PAUSE"
    /\ isConnect = 0
    /\ published = NONE
    /\ pc = [t \in Threads |-> "none"]
    /\ message = [t \in Threads |-> NONE]
    /\ connectFlag = {}

CallStep(c) == SendRun(c) \/ SendExit(c) \/ SendRestart(c) \/ Create(c)

ThreadStep(t) ==
    \/ Check(t) \/ Publish(t) \/ Begin(t)
    \/ Top(t) \/ JudgeEnd(t) \/ JudgeOn(t) \/ DialFails(t) \/ DialOk(t)
    \/ Poll(t)
    \/ End(t) \/ Unhook(t) \/ UninitQueue(t)

Next == \/ \E c \in Callers : Start(c) \/ Stop(c) \/ Restart(c) \/ CallStep(c)
        \/ \E t \in Threads : ThreadStep(t) \/ Broken(t)

Spec == Init /\ [][Next]_vars

\* Threads are scheduled, a call that was begun is finished, the inner loop polls
\* its queue between two reads with a timeout, and a camera that is called again
\* and again answers once.  A connection may last for ever.
FairSpec ==
    /\ Spec
    /\ \A c \in Callers : WF_vars(CallStep(c))
    /\ \A t \in Threads : WF_vars(ThreadStep(t)) /\ SF_vars(DialOk(t))

-----------------------------------------------------------------------------
TypeOK ==
    /\ call \in [Callers -> {"idle", "run", "create", "exit", "restart"}]
    /\ useNum \in [Types -> 0 .. MaxUsed]
    /\ msgQueue \in Seq(Messages)
    /\ runFlag \in Messages \cup {"PAUSE"}
    /\ isConnect \in {0, 1}
    /\ published \in Threads \cup {NONE}
    /\ pc \in [Threads -> Working \cup {"none", "born"}]
    /\ message \in [Threads -> Messages \cup {NONE}]
    /\ connectFlag \in SUBSET Threads

\* networkLib.h:73 says that a runFlag of 1 means that the thread is running: it
\* is never left at RUN by threads that have all ended, which would turn every
\* later start away with "is already invite stream".
RunFlagHasThread ==
    runFlag \in {"RUN", "RESTART"} =>
        \E t \in Threads : pc[t] \in {"top", "judge", "dial", "stream", "ended"}

\* Decoder, recorder and RTSP server read through pVideoFrameQueue: it is never
\* the queue of a thread that has torn its queue down.
PublishedIsAlive ==
    published # NONE => pc[published] \in Working \ {"asleep", "unhooked"}

\* DESCRIBE is refused where networkCheckStreamExist says no: isConnect is set
\* only while some thread has a connection.
ConnectHasThread ==
    isConnect = 1 => \E t \in connectFlag : pc[t] \in {"stream", "top"}

Idle == \A t \in Threads : pc[t] = "none"
OneAtWork == \A t, u \in Threads : pc[t] \in Working /\ pc[u] \in Working => t = u
NoUser == UsedNum(useNum) = 0 /\ \A c \in Callers : call[c] \notin {"run", "create"}

\* A thread that has looked at the use count looks at it again only after its
\* connection has broken.  If the last user stops in between, an EXIT is still on
\* its way to that thread, whatever RUN, RESTART and older EXIT the queue holds; as
\* long as no two threads ever worked at once, no other thread has taken it.
ExitComing == \/ \E c \in Callers : call[c] = "exit"
              \/ \E i \in DOMAIN msgQueue : msgQueue[i] = "EXIT"
LastStopHeard ==
    (\E t \in Threads : pc[t] \in {"dial", "stream"}) /\ UsedNum(useNum) = 0 => ExitComing
LastStopIsHeard == []OneAtWork => []LastStopHeard

\* When nobody uses the channel any more its thread ends, also one that streams
\* from a camera which never breaks the connection, as long as no two threads
\* ever worked at once.
UnusedEnds == []OneAtWork /\ <>[]NoUser => <>[]Idle

\* The same with nothing said about the threads: networkStopStream is "stop the
\* video stream" of a channel (networkLib.c:1293).
StopStops == <>[]NoUser => <>[]Idle

\* networkLib.c:1247: the first user's start really requests the video, so that
\* once no call is under way whoever uses a channel gets a connection whose queue
\* can be read.
Served == published # NONE /\ pc[published] = "stream"
Settled == \A c \in Callers : call[c] = "idle"
FirstUserServed ==
    UsedNum(useNum) > 0 /\ Settled ~> Served \/ UsedNum(useNum) = 0
=============================================================================
