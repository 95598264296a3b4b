------------------------ MODULE NetworkStreamProofs ------------------------
(***************************************************************************)
(* What runFlag, isConnect and pVideoFrameQueue say about the threads of a *)
(* channel holds for any number of callers and network threads.  Each of   *)
(* the three is inductive with the types of the variables it speaks of.    *)
(* The last part shows that the EXIT of the last stop is not lost.         *)
(***************************************************************************)
EXTENDS NetworkStream, CountingLemmas, FiniteSetTheorems, TLAPS

CallersDo == \E c \in Callers : Start(c) \/ Stop(c) \/ Restart(c)
                                \/ SendRun(c) \/ SendExit(c) \/ SendRestart(c)

\* The callers, thread creation aside, leave the threads and the channel's flags
\* alone, and keep the types of what they change.
LEMMA CallersKeep ==
    ASSUME TypeOK, CallersDo
    PROVE  /\ UNCHANGED <<pc, message, published, connectFlag, runFlag, isConnect>>
           /\ msgQueue' \in Seq(Messages)
           /\ useNum' \in [Types -> 0 .. MaxUsed]
           /\ call' \in [Callers -> {"idle", "run", "create", "exit", "restart"}]
<1>1. PICK c \in Callers : Start(c) \/ Stop(c) \/ Restart(c)
                           \/ SendRun(c) \/ SendExit(c) \/ SendRestart(c)
    BY DEF CallersDo
<1>2. CASE Start(c)
    BY <1>2, NetworkAssumption DEF TypeOK, Start, NetworkAssumption
<1>3. CASE Stop(c)
    BY <1>3, NetworkAssumption DEF TypeOK, Stop, Del, NetworkAssumption
<1>4. CASE Restart(c)
    BY <1>4 DEF TypeOK, Restart, channel
<1>5. ASSUME NEW do, NEW type \in Messages, NEW next \in {"idle", "create"},
             Send(c, do, type, next)
      PROVE  /\ UNCHANGED <<pc, message, published, connectFlag, runFlag, isConnect, useNum>>
             /\ msgQueue' \in Seq(Messages)
             /\ call' \in [Callers -> {"idle", "run", "create", "exit", "restart"}]
    <2>1. Append(msgQueue, type) \in Seq(Messages)
        BY DEF TypeOK
    <2> QED
        BY <1>5, <2>1 DEF TypeOK, Send
<1>6. CASE SendRun(c) \/ SendExit(c) \/ SendRestart(c)
    BY <1>5, <1>6 DEF TypeOK, SendRun, SendExit, SendRestart, Messages
<1> QED
    BY <1>1, <1>2, <1>3, <1>4, <1>6

\* Next with its actions in the order the proofs go through them.
LEMMA Actions ==
    ASSUME Next
    PROVE  \/ CallersDo
           \/ \E c \in Callers : Create(c)
           \/ \E t \in Threads : ThreadStep(t) \/ Broken(t)
BY DEF Next, CallStep, CallersDo

-----------------------------------------------------------------------------
\* Taking a message leaves a queue of messages and a message or NONE.
LEMMA GetMessageType ==
    ASSUME TypeOK, NEW t \in Threads, GetMessage(t)
    PROVE  /\ msgQueue' \in Seq(Messages)
           /\ runFlag' \in Messages \cup {"PAUSE"}
           /\ message' \in [Threads -> Messages \cup {NONE}]
<1>1. /\ msgQueue \in Seq(Messages)
      /\ runFlag \in Messages \cup {"PAUSE"}
      /\ message \in [Threads -> Messages \cup {NONE}]
    BY DEF TypeOK
<1>2. CASE msgQueue = <<>>
    BY <1>1, <1>2 DEF GetMessage
<1>3. CASE msgQueue # <<>>
    <2>1. Head(msgQueue) \in Messages /\ Tail(msgQueue) \in Seq(Messages)
        BY <1>1, <1>3
    <2> QED
        BY <1>1, <1>3, <2>1 DEF GetMessage
<1> QED
    BY <1>2, <1>3

\* Every step keeps the types.
LEMMA TypeStep ==
    ASSUME TypeOK, [Next]_vars
    PROVE  TypeOK'
<1>1. CASE UNCHANGED vars
    BY <1>1 DEF TypeOK, vars, channel
<1>2. CASE CallersDo
    BY <1>2, CallersKeep DEF TypeOK
<1>3. CASE \E c \in Callers : Create(c)
    BY <1>3 DEF TypeOK, Create, Goto, channel
<1>4. ASSUME NEW t \in Threads, ThreadStep(t) \/ Broken(t)
      PROVE  TypeOK'
    <2>1. CASE Check(t) \/ Publish(t) \/ Begin(t)
        BY <2>1 DEF TypeOK, Check, Publish, Begin, Goto, channel, Working, Messages
    <2>2. CASE Top(t) \/ Poll(t)
        BY <2>2, GetMessageType DEF TypeOK, Top, Poll, Goto, Working
    <2>3. CASE JudgeEnd(t) \/ JudgeOn(t) \/ DialFails(t) \/ DialOk(t) \/ Broken(t)
        BY <2>3 DEF TypeOK, JudgeEnd, JudgeOn, DialFails, DialOk, Broken, Goto,
                    channel, Working, Messages
    <2>4. CASE End(t) \/ Unhook(t) \/ UninitQueue(t)
        BY <2>4 DEF TypeOK, End, Unhook, UninitQueue, Goto, channel, Working, Messages
    <2> QED
        BY <1>4, <2>1, <2>2, <2>3, <2>4 DEF ThreadStep
<1> QED
    BY <1>1, <1>2, <1>3, <1>4, Actions

\* The types hold after networkLibInit.
LEMMA TypeInit == Init => TypeOK
<1>1. 0 \in 0 .. MaxUsed
    BY NetworkAssumption DEF NetworkAssumption
<1> QED
    BY <1>1 DEF Init, TypeOK, Messages

\* For any number of callers, threads, types and messages, every variable keeps
\* its type: no counter is taken below 0, and runFlag is always a flag.
THEOREM TypeCorrect == Spec => []TypeOK
<1>1. TypeOK /\ [Next]_vars => TypeOK'
    BY TypeStep
<1> QED
    BY <1>1, TypeInit, PTL DEF Spec

-----------------------------------------------------------------------------
(* runFlag.                                                                *)

\* A step that leaves some thread inside the loop keeps the claim of runFlag.
LEMMA RunFlagStep ==
    ASSUME TypeOK, RunFlagHasThread, [Next]_vars
    PROVE  RunFlagHasThread'
<1> DEFINE Inside == {"top", "judge", "dial", "stream", "ended"}
<1>1. CASE UNCHANGED vars
    BY <1>1 DEF RunFlagHasThread, vars, channel
<1>2. CASE CallersDo
    BY <1>2, CallersKeep DEF RunFlagHasThread
<1>3. CASE \E c \in Callers : Create(c)
    BY <1>3 DEF RunFlagHasThread, TypeOK, Create, Goto, channel
<1>4. ASSUME NEW t \in Threads, ThreadStep(t) \/ Broken(t)
      PROVE  RunFlagHasThread'
    <2>1. CASE Begin(t) \/ Top(t) \/ JudgeEnd(t) \/ JudgeOn(t) \/ DialFails(t)
               \/ DialOk(t) \/ Poll(t) \/ Broken(t)
        <3>1. pc'[t] \in Inside
            BY <2>1 DEF TypeOK, Begin, Top, JudgeEnd, JudgeOn, DialFails, DialOk,
                        Poll, Broken, Goto
        <3> QED
            BY <3>1 DEF RunFlagHasThread
    <2>2. CASE Check(t) \/ Publish(t) \/ Unhook(t) \/ UninitQueue(t)
        <3>1. /\ runFlag' = runFlag
              /\ pc[t] \notin Inside
              /\ \A u \in Threads \ {t} : pc'[u] = pc[u]
            BY <2>2 DEF TypeOK, Check, Publish, Unhook, UninitQueue, Goto, channel
        <3> QED
            BY <3>1 DEF RunFlagHasThread
    <2>3. CASE End(t)
        BY <2>3 DEF End, RunFlagHasThread
    <2> QED
        BY <1>4, <2>1, <2>2, <2>3 DEF ThreadStep
<1> QED
    BY <1>1, <1>2, <1>3, <1>4, Actions

\* For any number of callers and threads, runFlag is never left at RUN by threads
\* that have all ended (networkLib.h:73).
THEOREM RunFlagCorrect == Spec => []RunFlagHasThread
<1>1. Init => RunFlagHasThread
    BY DEF Init, RunFlagHasThread
<1>2. TypeOK /\ RunFlagHasThread /\ [Next]_vars => TypeOK' /\ RunFlagHasThread'
    BY TypeStep, RunFlagStep
<1> QED
    BY <1>1, <1>2, TypeInit, PTL DEF Spec

-----------------------------------------------------------------------------
(* pVideoFrameQueue.                                                       *)

\* Every step keeps the published queue alive.
LEMMA PublishedStep ==
    ASSUME TypeOK, PublishedIsAlive, [Next]_vars
    PROVE  PublishedIsAlive'
<1>1. CASE UNCHANGED vars
    BY <1>1 DEF PublishedIsAlive, vars, channel
<1>2. CASE CallersDo
    BY <1>2, CallersKeep DEF PublishedIsAlive
<1>3. CASE \E c \in Callers : Create(c)
    BY <1>3 DEF PublishedIsAlive, TypeOK, Create, Goto, channel, Working
<1>4. ASSUME NEW t \in Threads, ThreadStep(t) \/ Broken(t)
      PROVE  PublishedIsAlive'
    <2>1. CASE Publish(t) \/ Unhook(t)
        BY <2>1, NetworkAssumption
        DEF PublishedIsAlive, TypeOK, Publish, Unhook, Goto, Working, NetworkAssumption
    <2>2. CASE Check(t) \/ UninitQueue(t)
        \* t is not the thread whose queue is published.
        BY <2>2 DEF PublishedIsAlive, TypeOK, Check, UninitQueue, Goto, channel, Working
    <2>3. CASE Begin(t) \/ Top(t) \/ JudgeEnd(t) \/ JudgeOn(t) \/ DialFails(t)
               \/ DialOk(t) \/ Poll(t) \/ Broken(t) \/ End(t)
        <3>1. /\ published' = published
              /\ pc'[t] \in Working \ {"asleep", "unhooked"}
              /\ \A u \in Threads \ {t} : pc'[u] = pc[u]
            BY <2>3 DEF TypeOK, Begin, Top, JudgeEnd, JudgeOn, DialFails, DialOk,
                        Poll, Broken, End, Goto, channel, Working
        <3> QED
            BY <3>1 DEF PublishedIsAlive, TypeOK
    <2> QED
        BY <1>4, <2>1, <2>2, <2>3 DEF ThreadStep
<1> QED
    BY <1>1, <1>2, <1>3, <1>4, Actions

\* For any number of callers and threads, the frame queue that readers find is
\* never one that was torn down.
THEOREM PublishedCorrect == Spec => []PublishedIsAlive
<1>1. Init => PublishedIsAlive
    BY DEF Init, PublishedIsAlive
<1>2. TypeOK /\ PublishedIsAlive /\ [Next]_vars => TypeOK' /\ PublishedIsAlive'
    BY TypeStep, PublishedStep
<1> QED
    BY <1>1, <1>2, TypeInit, PTL DEF Spec

-----------------------------------------------------------------------------
(* isConnect.                                                              *)

\* Every step keeps isConnect to threads with a connection.
LEMMA ConnectStep ==
    ASSUME TypeOK, ConnectHasThread, [Next]_vars
    PROVE  ConnectHasThread'
<1>1. CASE UNCHANGED vars
    BY <1>1 DEF ConnectHasThread, vars, channel
<1>2. CASE CallersDo
    BY <1>2, CallersKeep DEF ConnectHasThread
<1>3. CASE \E c \in Callers : Create(c)
    BY <1>3 DEF ConnectHasThread, TypeOK, Create, Goto, channel
<1>4. ASSUME NEW t \in Threads, ThreadStep(t) \/ Broken(t)
      PROVE  ConnectHasThread'
    <2>1. CASE Top(t)
        \* Either t clears isConnect, or the thread with a connection is another.
        BY <2>1 DEF ConnectHasThread, TypeOK, Top, Goto
    <2>2. CASE DialOk(t)
        BY <2>2 DEF ConnectHasThread, TypeOK, DialOk, Goto
    <2>3. CASE Poll(t) \/ Broken(t)
        BY <2>3 DEF ConnectHasThread, TypeOK, Poll, Broken, Goto, channel
    <2>4. CASE Check(t) \/ Publish(t) \/ Begin(t) \/ JudgeEnd(t) \/ JudgeOn(t)
               \/ DialFails(t) \/ End(t) \/ Unhook(t) \/ UninitQueue(t)
        <3>1. /\ isConnect' = isConnect /\ connectFlag' = connectFlag
              /\ pc[t] \notin {"stream", "top"}
              /\ \A u \in Threads \ {t} : pc'[u] = pc[u]
            BY <2>4 DEF TypeOK, Check, Publish, Begin, JudgeEnd, JudgeOn, DialFails,
                        End, Unhook, UninitQueue, Goto, channel
        <3> QED
            BY <3>1 DEF ConnectHasThread, TypeOK
    <2> QED
        BY <1>4, <2>1, <2>2, <2>3, <2>4 DEF ThreadStep
<1> QED
    BY <1>1, <1>2, <1>3, <1>4, Actions

\* For any number of callers and threads, isConnect is set only while one of the
\* threads has a connection.
THEOREM ConnectCorrect == Spec => []ConnectHasThread
<1>1. Init => ConnectHasThread
    BY DEF Init, ConnectHasThread
<1>2. TypeOK /\ ConnectHasThread /\ [Next]_vars => TypeOK' /\ ConnectHasThread'
    BY TypeStep, ConnectStep
<1> QED
    BY <1>1, <1>2, TypeInit, PTL DEF Spec

-----------------------------------------------------------------------------
(* The EXIT of the last stop.                                              *)

\* Finitely many finite sets have a finite union.
LEMMA UnionFinite ==
    ASSUME NEW S, IsFiniteSet(S), NEW T, NEW f \in [S -> T],
           \A x \in S : IsFiniteSet(f[x]),
           NEW A, \A z : z \in A <=> \E x \in S : z \in f[x]
    PROVE  IsFiniteSet(A)
<1>1. IsFiniteSet({f[x] : x \in S})
    BY ValuesBounded
<1>2. \A s \in {f[x] : x \in S} : IsFiniteSet(s)
    OBVIOUS
<1>3. A = UNION {f[x] : x \in S}
    OBVIOUS
<1> QED
    BY <1>1, <1>2, <1>3, FS_UNION

\* The sum of the counts is 0 when every count is, and only then.
LEMMA UsedZero ==
    ASSUME NEW n \in [Types -> Nat]
    PROVE  UsedNum(n) = 0 <=> \A ty \in Types : n[ty] = 0
<1> DEFINE All == UNION {{ty} \X (1 .. n[ty]) : ty \in Types}
<1>f. PICK f : f = [ty \in Types |-> {ty} \X (1 .. n[ty])]
    OBVIOUS
<1>1. \A ty \in Types : IsFiniteSet(f[ty])
    <2> SUFFICES ASSUME NEW ty \in Types PROVE IsFiniteSet({ty} \X (1 .. n[ty]))
        BY <1>f
    <2>1. IsFiniteSet({ty})
        BY FS_Singleton
    <2>2. IsFiniteSet(1 .. n[ty])
        BY FS_Interval
    <2> QED
        BY <2>1, <2>2, FS_Product
<1>2. f \in [Types -> {{ty} \X (1 .. n[ty]) : ty \in Types}]
    BY <1>f
<1>3. IsFiniteSet(All)
    <2>1. PICK A : A = All
        OBVIOUS
    <2>2. \A z : z \in A <=> \E ty \in Types : z \in f[ty]
        BY <1>f, <2>1
    <2>3. IsFiniteSet(A)
        BY <1>1, <1>2, <2>2, NetworkAssumption, UnionFinite DEF NetworkAssumption
    <2> QED
        BY <2>1, <2>3
<1>4. Cardinality(All) = 0 <=> All = {}
    BY <1>3, FS_EmptySet
<1>5. All = {} <=> \A ty \in Types : n[ty] = 0
    <2>1. ASSUME NEW ty \in Types, n[ty] # 0
          PROVE  <<ty, 1>> \in All
        BY <2>1
    <2>2. ASSUME NEW x \in All
          PROVE  \E ty \in Types : n[ty] # 0
        BY <2>2
    <2> QED
        BY <2>1, <2>2
<1> QED
    BY <1>4, <1>5 DEF UsedNum

\* A caller's step keeps the EXIT that is on its way, and the last stop sends one.
LEMMA HeardCallers ==
    ASSUME TypeOK, LastStopHeard, CallersDo
    PROVE  LastStopHeard'
<1> DEFINE AtWork == \E t \in Threads : pc[t] \in {"dial", "stream"}
<1>1. PICK c \in Callers : Start(c) \/ Stop(c) \/ Restart(c)
                           \/ SendRun(c) \/ SendExit(c) \/ SendRestart(c)
    BY DEF CallersDo
<1>2. pc' = pc
    BY CallersKeep
<1>3. CASE Start(c)
    <2>1. ExitComing => ExitComing'
        BY <1>3 DEF ExitComing, Start, TypeOK
    <2>2. /\ useNum \in [Types -> Nat] /\ useNum' \in [Types -> Nat]
          /\ \E ty \in Types : useNum'[ty] = useNum[ty] + 1
          /\ \A ty \in Types : useNum'[ty] >= useNum[ty]
        BY <1>3, NetworkAssumption DEF Start, TypeOK, NetworkAssumption
    <2>3. UsedNum(useNum') # 0
        BY <2>2, UsedZero
    <2> QED
        BY <2>3 DEF LastStopHeard
<1>4. CASE Stop(c)
    <2>1. UsedNum(useNum') = 0 => call'[c] = "exit"
        BY <1>4 DEF Stop, Unused, TypeOK
    <2> QED
        BY <2>1 DEF LastStopHeard, ExitComing
<1>5. CASE Restart(c)
    BY <1>2, <1>5 DEF LastStopHeard, ExitComing, Restart, TypeOK, channel
<1>6. ASSUME NEW do, NEW type \in Messages, NEW next \in {"idle", "create"},
             Send(c, do, type, next), do = "exit" <=> type = "EXIT"
      PROVE  LastStopHeard'
    <2>1. msgQueue \in Seq(Messages) /\ msgQueue' = Append(msgQueue, type)
        BY <1>6 DEF Send, TypeOK
    <2>2. /\ \A i \in DOMAIN msgQueue : i \in DOMAIN msgQueue' /\ msgQueue'[i] = msgQueue[i]
          /\ Len(msgQueue) + 1 \in DOMAIN msgQueue'
          /\ msgQueue'[Len(msgQueue) + 1] = type
        BY <2>1
    <2>3. ExitComing => ExitComing'
        BY <1>6, <2>2 DEF ExitComing, Send, TypeOK
    <2> QED
        BY <1>2, <1>6, <2>3 DEF LastStopHeard, Send
<1>7. CASE SendRun(c) \/ SendExit(c) \/ SendRestart(c)
    BY <1>6, <1>7 DEF SendRun, SendExit, SendRestart, Messages
<1> QED
    BY <1>1, <1>3, <1>4, <1>5, <1>7

\* A thread that works alone takes only messages that are meant for it.
LEMMA HeardStep ==
    ASSUME TypeOK, LastStopHeard, OneAtWork, [Next]_vars
    PROVE  LastStopHeard'
<1>1. CASE UNCHANGED vars
    BY <1>1 DEF LastStopHeard, ExitComing, vars, channel
<1>2. CASE CallersDo
    BY <1>2, HeardCallers
<1>3. CASE \E c \in Callers : Create(c)
    BY <1>3 DEF LastStopHeard, ExitComing, TypeOK, Create, Goto, channel
<1>4. ASSUME NEW t \in Threads, ThreadStep(t) \/ Broken(t)
      PROVE  LastStopHeard'
    <2>1. CASE \/ Check(t) \/ Publish(t) \/ Begin(t) \/ JudgeEnd(t) \/ DialFails(t)
               \/ DialOk(t) \/ Broken(t) \/ End(t) \/ Unhook(t) \/ UninitQueue(t)
        <3>1. /\ UNCHANGED <<call, msgQueue, useNum>>
              /\ pc'[t] \in {"dial", "stream"} => pc[t] \in {"dial", "stream"}
              /\ \A u \in Threads \ {t} : pc'[u] = pc[u]
            BY <2>1 DEF TypeOK, Check, Publish, Begin, JudgeEnd, DialFails, DialOk,
                        Broken, End, Unhook, UninitQueue, Goto, channel
        <3> QED
            BY <3>1 DEF LastStopHeard, ExitComing
    <2>2. CASE JudgeOn(t)
        BY <2>2 DEF JudgeOn, LastStopHeard
    <2>3. CASE Top(t)
        \* t is the one at work, and does not yet stream.
        <3>1. \A u \in Threads : pc'[u] \notin {"dial", "stream"}
            BY <2>3 DEF Top, Goto, TypeOK, OneAtWork, Working
        <3> QED
            BY <3>1 DEF LastStopHeard
    <2>4. CASE Poll(t)
        <3>1. /\ pc[t] = "stream" /\ UNCHANGED <<call, useNum>> /\ GetMessage(t)
              /\ pc' = [pc EXCEPT ![t] =
                           IF message'[t] \in {"EXIT", "RESTART"} THEN "top" ELSE "stream"]
            BY <2>4 DEF Poll, Goto
        <3>2. \A u \in Threads \ {t} : pc'[u] \notin {"dial", "stream"}
            BY <3>1 DEF TypeOK, OneAtWork, Working
        <3>3. CASE msgQueue = <<>>
            BY <3>1, <3>2, <3>3 DEF GetMessage, LastStopHeard, ExitComing
        <3>4. CASE msgQueue # <<>> /\ Head(msgQueue) = "EXIT"
            <4>1. message'[t] = "EXIT"
                BY <3>1, <3>4 DEF GetMessage, TypeOK
            <4> QED
                BY <3>1, <3>2, <4>1 DEF LastStopHeard, TypeOK
        <3>5. CASE msgQueue # <<>> /\ Head(msgQueue) # "EXIT"
            <4>1. msgQueue \in Seq(Messages) /\ msgQueue' = Tail(msgQueue)
                BY <3>1, <3>5 DEF GetMessage, TypeOK
            <4>2. \A i \in DOMAIN msgQueue :
                    msgQueue[i] = "EXIT" =>
                        i - 1 \in DOMAIN msgQueue' /\ msgQueue'[i - 1] = "EXIT"
                BY <3>5, <4>1
            <4> QED
                BY <3>1, <4>2 DEF LastStopHeard, ExitComing
        <3> QED
            BY <3>3, <3>4, <3>5
    <2> QED
        BY <1>4, <2>1, <2>2, <2>3, <2>4 DEF ThreadStep
<1> QED
    BY <1>1, <1>2, <1>3, <1>4, Actions

\* For any number of callers, threads, types and messages: unless two threads were
\* at work at once, a thread that streams for nobody has an EXIT on its way.
THEOREM LastStopCorrect == Spec => LastStopIsHeard
<1>1. Init => LastStopHeard
    BY DEF Init, LastStopHeard
<1>2. TypeOK /\ LastStopHeard /\ OneAtWork /\ [Next]_vars => TypeOK' /\ LastStopHeard'
    BY TypeStep, HeardStep
<1> QED
    BY <1>1, <1>2, TypeInit, PTL DEF Spec, LastStopIsHeard
=============================================================================
