------------------------- MODULE StreamSenderProofs -------------------------
(***************************************************************************)
(* For any number of senders and other readers on one queue: the composed  *)
(* system implements FrameQueue, so what is proved of the queue holds with *)
(* its senders; and what a client is sent is in order and can be decoded.  *)
(***************************************************************************)
EXTENDS StreamSender, FrameQueueProofs

-----------------------------------------------------------------------------
(* The senders use the queue as its readers do.                            *)

\* Every step of the system is a step of the queue, or leaves it alone.
LEMMA QueueSteps == [SenderNext]_senderVars => [Next]_vars
<1> SUFFICES ASSUME [SenderNext]_senderVars PROVE [Next]_vars
  OBVIOUS
<1>1. Senders \subseteq Readers /\ -1 \in Modes
  BY SenderAssumption
<1>2. CASE InsertKind
  BY <1>2 DEF InsertKind, Next
<1>3. CASE QueueStep
  BY <1>3 DEF QueueStep, Next
<1>4. ASSUME NEW r \in Senders, Play(r) PROVE [Next]_vars
  BY <1>1, <1>4 DEF Play, Next
<1>5. ASSUME NEW r \in Senders, Stop(r) PROVE [Next]_vars
  BY <1>5 DEF Stop
<1>6. ASSUME NEW r \in Senders, Loop(r) \/ SendFails(r) PROVE [Next]_vars
  <2>1. \/ UNCHANGED vars
        \/ ReaderStep(r) \/ Forget(r) \/ StopReader(r)
    BY <1>6 DEF Loop, SendFails, PollEmpty, Poll, Miss, Got, Skip, Send, Leave, ReaderStep
  <2>2. QED
    BY <1>1, <2>1 DEF Next
<1>7. CASE UNCHANGED senderVars
  BY <1>7 DEF senderVars
<1>8. QED
  BY <1>2, <1>3, <1>4, <1>5, <1>6, <1>7 DEF SenderNext

\* The system implements the queue: no sender touches slots, counts or cursors
\* in a way a reader does not.
THEOREM SendersImplementQueue == SenderSpec => Spec
<1>1. SenderInit => Init
  BY DEF SenderInit
<1>2. QED
  BY <1>1, QueueSteps, PTL DEF SenderSpec, Spec

\* With any mix of RTP senders, P2P senders and other readers, the count of every
\* frame is exact.
THEOREM SenderCountCorrect == SenderSpec => []CountIsExact
BY SendersImplementQueue, CountCorrect, PTL

-----------------------------------------------------------------------------
(* Types.                                                                  *)

\* What a sender holds while it uses it is a frame that has been inserted.
LEMMA HeldIsFrame ==
    ASSUME CountInductive, NEW r \in Readers, pc[r] = "using"
    PROVE  held[r] \in Frames /\ held[r] <= inserted
BY DEF CountInductive, TypeOK

\* Frame numbers have 16 bits.
LEMMA NoType == \A f \in Nat : No(f) \in 0..FRAME_NO_MOD-1
<1>1. FRAME_NO_MOD \in Nat /\ FRAME_NO_MOD > 0
  BY SenderAssumption
<1>2. QED
  BY <1>1, SMT DEF No

\* Every step keeps the types of the senders.
LEMMA SenderTypeStep ==
    ASSUME CountInductive, SenderTypeOK, [SenderNext]_senderVars
    PROVE  SenderTypeOK'
<1> USE DEF SenderTypeOK
<1>1. Senders \subseteq Readers
  BY SenderAssumption
<1>2. CASE InsertKind
  BY <1>2 DEF InsertKind, threads
<1>3. CASE QueueStep
  BY <1>3 DEF QueueStep, threads
<1>4. ASSUME NEW r \in Senders, Play(r) PROVE SenderTypeOK'
  BY <1>4, SenderAssumption DEF Play
<1>5. ASSUME NEW r \in Senders, Stop(r) PROVE SenderTypeOK'
  BY <1>5 DEF Stop
<1>6. ASSUME NEW r \in Senders, PollEmpty(r) \/ Miss(r) PROVE SenderTypeOK'
  <2>1. CountEmpty(r) /\ kind' = kind
    BY <1>6 DEF PollEmpty, Miss
  <2>2. leaving' \in [Senders -> BOOLEAN]
    BY <2>1 DEF CountEmpty
  <2>3. noFrame' \in [Senders -> 0..MaxNoFrame]
    <3>1. noFrame[r] < MaxNoFrame => noFrame[r] + 1 \in 0..MaxNoFrame
      BY SenderAssumption
    <3>2. \/ noFrame' = noFrame
          \/ noFrame[r] < MaxNoFrame /\ noFrame' = [noFrame EXCEPT ![r] = noFrame[r] + 1]
      BY <2>1, SenderAssumption DEF CountEmpty
    <3>3. QED
      BY <3>1, <3>2
  <2>4. QED
    BY <2>1, <2>2, <2>3 DEF CountEmpty
<1>7. ASSUME NEW r \in Senders, Poll(r) \/ Got(r) \/ Skip(r) PROVE SenderTypeOK'
  <2>1. noFrame' \in [Senders -> 0..MaxNoFrame]
    <3>1. 0 \in 0..MaxNoFrame
      BY SenderAssumption
    <3>2. noFrame' = noFrame \/ noFrame' = [noFrame EXCEPT ![r] = 0]
      BY <1>7 DEF Poll, Got, Skip, threads
    <3>3. QED
      BY <3>1, <3>2
  <2>2. waitIFrame' \in [Senders -> BOOLEAN]
    BY <1>7 DEF Poll, Got, Skip, threads
  <2>3. UNCHANGED <<kind, run, frameNo, leaving, sent, plays>>
    BY <1>7 DEF Poll, Got, Skip, threads
  <2>4. QED
    BY <2>1, <2>2, <2>3
<1>8. ASSUME NEW r \in Senders, Send(r) \/ SendFails(r) PROVE SenderTypeOK'
  <2>1. held[r] \in Frames
    BY <1>1, <1>8, HeldIsFrame DEF Send, SendFails, Carry
  <2>2. No(held[r]) \in 0..FRAME_NO_MOD-1
    <3>1. held[r] \in Nat
      BY <2>1, QueueAssumption DEF Frames
    <3>2. QED
      BY <3>1, NoType
  <2>3. /\ waitIFrame' = [waitIFrame EXCEPT ![r] = TRUE]
        /\ frameNo' = [frameNo EXCEPT ![r] = No(held[r])]
        /\ UNCHANGED <<kind, run, noFrame, plays>>
    BY <1>8 DEF Send, SendFails, Carry
  <2>4. waitIFrame' \in [Senders -> BOOLEAN]
    BY <2>3
  <2>5. frameNo' \in [Senders -> 0..FRAME_NO_MOD-1]
    BY <2>2, <2>3
  <2>6. leaving' \in [Senders -> BOOLEAN]
    BY <1>8 DEF Send, SendFails
  <2>7. sent' \in [Senders -> SUBSET Frames]
    <3>1. sent[r] \cup {held[r]} \in SUBSET Frames
      BY <2>1
    <3>2. \/ sent' = sent
          \/ sent' = [sent EXCEPT ![r] = sent[r] \cup {held[r]}]
      BY <1>8 DEF Send, SendFails
    <3>3. QED
      BY <3>1, <3>2
  <2>8. QED
    BY <2>3, <2>4, <2>5, <2>6, <2>7
<1>9. ASSUME NEW r \in Senders, Leave(r) PROVE SenderTypeOK'
  <2>1. 0 \in 0..FRAME_NO_MOD-1 /\ 0 \in 0..MaxNoFrame
    BY SenderAssumption
  <2>2. QED
    BY <1>9, <2>1 DEF Leave
<1>10. CASE UNCHANGED senderVars
  BY <1>10 DEF senderVars, threads
<1>11. QED
  BY <1>2, <1>3, <1>4, <1>5, <1>6, <1>7, <1>8, <1>9, <1>10 DEF SenderNext, Loop

\* A system that has just been started has the types of the senders.
LEMMA SenderTypeInit == SenderInit => SenderTypeOK
BY SenderAssumption DEF SenderInit, SenderTypeOK

\* The variables of the senders keep their types.
THEOREM SenderTypeCorrect == SenderSpec => []SenderTypeOK
<1>1. SenderSpec => []CountInductive
  BY SendersImplementQueue, CountInductiveCorrect, PTL
<1>2. CountInductive /\ SenderTypeOK /\ [SenderNext]_senderVars => SenderTypeOK'
  BY SenderTypeStep
<1>3. QED
  BY <1>1, <1>2, SenderTypeInit, PTL DEF SenderSpec

-----------------------------------------------------------------------------
(* Memory.                                                                 *)

\* Only a P2P sender keeps a frame for ever: a P2P sender that is given audio, or
\* whose send fails.
LEMMA KeptStep ==
    ASSUME CountInductive, [SenderNext]_senderVars, kept' # kept
    PROVE  \E r \in P2pSenders : Send(r) \/ SendFails(r)
<1>1. CASE InsertKind
  BY <1>1 DEF InsertKind, Insert
<1>2. CASE QueueStep
  BY <1>2 DEF QueueStep, FreeAll, Uninit, StartReader, StopReader, ReaderStep,
              GetEnter, GetHit, GetLost, FreeFrame
<1>3. ASSUME NEW r \in Senders, Play(r) \/ Stop(r) \/ Loop(r) \/ SendFails(r)
      PROVE  \E q \in P2pSenders : Send(q) \/ SendFails(q)
  <2>1. CASE Play(r) \/ Stop(r) \/ PollEmpty(r) \/ Poll(r) \/ Leave(r)
    BY <2>1 DEF Play, Stop, PollEmpty, Poll, Leave, StartReader, StopReader, GetEnter,
                vars
  <2>2. CASE Miss(r) \/ Got(r) \/ Skip(r)
    BY <2>2 DEF Miss, Got, Skip, GetHit, GetLost, FreeFrame
  <2>3. CASE Send(r) \/ SendFails(r)
    <3>1. r \in P2pSenders
      BY <2>3 DEF Send, SendFails, FreeFrame
    <3>2. QED
      BY <2>3, <3>1
  <2>4. QED
    BY <1>3, <2>1, <2>2, <2>3 DEF Loop
<1>4. CASE UNCHANGED senderVars
  BY <1>4 DEF senderVars, vars
<1>5. QED
  BY <1>1, <1>2, <1>3, <1>4 DEF SenderNext

\* However many RTP sessions start, fail and end, they leave no frame in memory:
\* without P2P senders there are never more frames than slots and readers.
THEOREM RtpLeaksNothing ==
    ASSUME P2pSenders = {}
    PROVE  SenderSpec => [](Cardinality(InMemory) <= N + Cardinality(Readers))
<1> DEFINE Unkept == kept = [f \in Frames |-> 0]
<1>1. SenderSpec => []CountInductive
  BY SendersImplementQueue, CountInductiveCorrect, PTL
<1>2. SenderInit => Unkept
  BY DEF SenderInit, Init
<1>3. CountInductive /\ Unkept /\ [SenderNext]_senderVars => Unkept'
  BY KeptStep
<1>4. CountInductive /\ Unkept => Cardinality(InMemory) <= N + Cardinality(Readers)
  <2> SUFFICES ASSUME CountInductive, Unkept
               PROVE  Cardinality(InMemory) <= N + Cardinality(Readers)
    OBVIOUS
  <2>1. InMemory \ Leaked = InMemory
    BY DEF Leaked
  <2>2. QED
    BY <2>1, ExactBoundsMemory DEF CountInductive
<1>5. QED
  BY <1>1, <1>2, <1>3, <1>4, PTL DEF SenderSpec

-----------------------------------------------------------------------------
(* What a client is sent comes in order and can be decoded.  The last      *)
(* frame a sender went on with is known to it by its number only.  The     *)
(* frames it is given come in order (LogInductive); so the next frame with *)
(* the next number is the next frame, or one that comes after all numbers  *)
(* have gone by.                                                           *)

\* The video from some SPS frame to frame p has been sent to a session that has
\* asked for video, nothing newer has, and p is the frame the sender knows by number.
Knows(r, p) ==
    /\ p \in 1..inserted
    /\ frameNo[r] = No(p)
    /\ \A f \in sent[r] : f <= p
    /\ "video" \in Wants[r] => FollowsSps(r, p)

\* What a sender relies on, before and while it uses a frame.
SessionSends(r) ==
    /\ last[r] <= inserted
    /\ \A f \in sent[r] : f \in 1..last[r] /\ FollowsSps(r, f)
    /\ pc[r] = "off" => sent[r] = {} /\ ~waitIFrame[r] /\ ~leaving[r]
    /\ leaving[r] => pc[r] = "idle"
    /\ "video" \notin Wants[r] => sent[r] = {}
    /\ waitIFrame[r] /\ ~leaving[r] =>
          IF pc[r] = "using" THEN \E p \in 1..last[r]-1 : Knows(r, p)
                             ELSE Knows(r, last[r])
    /\ pc[r] = "using" => held[r] = last[r] /\ \A f \in sent[r] : f < last[r]

SendInductive == \A r \in Senders : SessionSends(r)

\* A whole number, its quotient and its remainder.
LEMMA DivMod ==
    ASSUME NEW a \in Nat, NEW m \in Nat, m > 0
    PROVE  \E q \in Nat : a = m * q + (a % m) /\ a % m \in 0..m-1
<1>1. a \div m \in Nat
  BY SMT
<1>2. a = m * (a \div m) + (a % m) /\ a % m \in 0..m-1
  BY SMT
<1>3. QED
  BY <1>1, <1>2

\* A multiple of m that is not zero is at least m.
LEMMA Multiple ==
    ASSUME NEW m \in Nat, m > 0, NEW d \in Int, m * d >= 0, d # 0
    PROVE  m * d >= m
<1>1. d >= 1
  BY SMT
<1>2. PICK e \in Nat : d = e + 1
  BY <1>1
<1>3. m * e >= 0 /\ m * d = m * e + m
  BY <1>2, SMT
<1>4. QED
  BY <1>3

\* A frame with the next number is the next frame, or all numbers have gone by.
LEMMA NextNo ==
    ASSUME NEW p \in Nat, NEW f \in Nat, p < f, (No(p) + 1) % FRAME_NO_MOD = No(f)
    PROVE  f = p + 1 \/ f >= p + 1 + FRAME_NO_MOD
<1>1. PICK m \in Nat : m = FRAME_NO_MOD /\ m > 0
  BY SenderAssumption
<1>2. PICK x \in Nat : p = m * x + (p % m) /\ p % m \in 0..m-1
  BY <1>1, DivMod
<1>3. PICK y \in Nat : f = m * y + (f % m) /\ f % m \in 0..m-1
  BY <1>1, DivMod
<1>4. PICK i \in 0..m-1 : i = p % m
  BY <1>2
<1>5. PICK j \in 0..m-1 : j = f % m
  BY <1>3
<1>6. (i + 1) % m = j
  BY <1>1, <1>4, <1>5 DEF No
<1>7. p = m * x + i /\ f = m * y + j
  BY <1>2, <1>3, <1>4, <1>5
<1>8. PICK d \in Int : f - (p + 1) = m * d
  <2>1. PICK z \in Nat : i + 1 = m * z + ((i + 1) % m)
    BY <1>1, DivMod
  <2>2. f - (p + 1) = m * y - m * x - m * z
    BY <1>6, <1>7, <2>1
  <2>3. y - x - z \in Int /\ m * (y - x - z) = m * y - m * x - m * z
    BY SMT
  <2>4. QED
    BY <2>2, <2>3
<1>9. CASE d = 0
  BY <1>8, <1>9, SMT
<1>10. CASE d # 0
  <2>1. m * d >= 0
    BY <1>8
  <2>2. m * d >= m
    BY <1>1, <1>10, <2>1, Multiple
  <2>3. QED
    BY <1>1, <1>8, <2>2
<1>11. QED
  BY <1>9, <1>10

\* What is sent after a frame, or inserted, leaves that frame decodable.
LEMMA FollowsKept ==
    ASSUME NEW r \in Senders, NEW f \in Nat, FollowsSps(r, f),
           \A g \in 1..f : kind'[g] = kind[g],
           \A g \in 1..f : g \in sent'[r] <=> g \in sent[r]
    PROVE  FollowsSps(r, f)'
<1>1. PICK s \in 1..f :
        /\ LooksLikeSps(s)
        /\ Media(s) = "audio" \/ s \in sent[r]
        /\ \A g \in s..f : Media(g) = "audio" \/ g \in sent[r] \/ Unnoticed(r, g, s, f)
  BY DEF FollowsSps
<1>2. ASSUME NEW g \in 1..f
      PROVE  /\ LooksLikeSps(g)' <=> LooksLikeSps(g)
             /\ Media(g)' = Media(g)
  BY <1>2 DEF LooksLikeSps, Media
<1>3. ASSUME NEW g \in s..f, Unnoticed(r, g, s, f)
      PROVE  Unnoticed(r, g, s, f)'
  <2>1. PICK a \in s+1..f-FRAME_NO_MOD : /\ g \in a..a+FRAME_NO_MOD-1
                                         /\ (a..a+FRAME_NO_MOD-1) \cap sent[r] = {}
    BY <1>3 DEF Unnoticed
  <2>2. a..a+FRAME_NO_MOD-1 \subseteq 1..f
    BY SenderAssumption
  <2>3. (a..a+FRAME_NO_MOD-1) \cap sent'[r] = {}
    BY <2>1, <2>2
  <2>4. QED
    BY <2>1, <2>3 DEF Unnoticed
<1>4. \A g \in s..f : \/ Media(g)' = "audio" \/ g \in sent'[r]
                      \/ Unnoticed(r, g, s, f)'
  BY <1>1, <1>2, <1>3
<1>5. LooksLikeSps(s)' /\ (Media(s)' = "audio" \/ s \in sent'[r])
  BY <1>1, <1>2
<1>6. QED
  BY <1>4, <1>5 DEF FollowsSps

\* A session of which nothing changes but what has been inserted after its frames.
LEMMA SentKept ==
    ASSUME NEW r \in Senders, SessionSends(r), last[r] \in Nat, inserted \in Nat,
           inserted' \in Nat, inserted' >= inserted, sent'[r] = sent[r],
           \A f \in 1..inserted : kind'[f] = kind[f]
    PROVE  /\ \A f \in sent'[r] : f \in 1..last[r] /\ FollowsSps(r, f)'
           /\ frameNo'[r] = frameNo[r] => \A p \in 1..inserted : Knows(r, p) => Knows(r, p)'
<1>1. \A f \in 1..inserted : FollowsSps(r, f) => FollowsSps(r, f)'
  <2> SUFFICES ASSUME NEW f \in 1..inserted, FollowsSps(r, f) PROVE FollowsSps(r, f)'
    OBVIOUS
  <2>1. f \in Nat /\ \A g \in 1..f : g \in 1..inserted
    OBVIOUS
  <2>2. QED
    BY <2>1, FollowsKept
<1>2. \A f \in sent[r] : f \in 1..inserted
  BY DEF SessionSends
<1>3. \A f \in sent'[r] : f \in 1..last[r] /\ FollowsSps(r, f)'
  BY <1>1, <1>2 DEF SessionSends
<1>4. QED
  BY <1>1, <1>3 DEF Knows, No

\* A step that leaves a session and the kinds of what has been inserted alone.
LEMMA SessionUntouched ==
    ASSUME NEW r \in Senders, SessionSends(r),
           inserted \in Nat, inserted' \in Nat, inserted' >= inserted,
           last[r] \in Nat,
           \A f \in 1..inserted : kind'[f] = kind[f],
           last'[r] = last[r], sent'[r] = sent[r], held'[r] = held[r],
           waitIFrame'[r] = waitIFrame[r], frameNo'[r] = frameNo[r],
           leaving'[r] = leaving[r],
           pc'[r] = pc[r] \/ (pc[r] \in {"idle", "locking"} /\ pc'[r] \in {"idle", "locking"}),
           leaving[r] => pc'[r] = pc[r]
    PROVE  SessionSends(r)'
<1>2. ASSUME NEW p \in 1..inserted, Knows(r, p) PROVE Knows(r, p)'
  BY <1>2, SentKept
<1>3. \A f \in sent'[r] : f \in 1..last'[r] /\ FollowsSps(r, f)'
  BY SentKept
<1>4. waitIFrame'[r] /\ ~leaving'[r] =>
          IF pc'[r] = "using" THEN \E p \in 1..last'[r]-1 : Knows(r, p)'
                             ELSE Knows(r, last[r])'
  <2> SUFFICES ASSUME waitIFrame[r], ~leaving[r]
               PROVE  IF pc'[r] = "using" THEN \E p \in 1..last[r]-1 : Knows(r, p)'
                                         ELSE Knows(r, last[r])'
    OBVIOUS
  <2>1. CASE pc[r] = "using"
    <3>1. PICK p \in 1..last[r]-1 : Knows(r, p)
      BY <2>1 DEF SessionSends
    <3>2. QED
      BY <1>2, <2>1, <3>1 DEF Knows
  <2>2. CASE pc[r] # "using"
    <3>1. PICK p \in 1..inserted : p = last[r] /\ Knows(r, p)
      BY <2>2 DEF SessionSends, Knows
    <3>2. Knows(r, p)'
      BY <1>2, <3>1
    <3>3. Knows(r, last[r])'
      BY <3>1, <3>2 DEF Knows
    <3>4. QED
      BY <2>2, <3>3
  <2>3. QED
    BY <2>1, <2>2
<1>5. QED
  BY <1>3, <1>4 DEF SessionSends

\* A step of one sender leaves the others' sessions alone.
LEMMA OthersAlone ==
    ASSUME TypeOK, SenderTypeOK, NEW q \in Senders, NEW r \in Senders,
           r # q, Play(q) \/ Stop(q) \/ Loop(q) \/ SendFails(q)
    PROVE  /\ pc'[r] = pc[r] /\ held'[r] = held[r] /\ last'[r] = last[r]
           /\ inserted' = inserted
           /\ kind' = kind /\ sent'[r] = sent[r] /\ waitIFrame'[r] = waitIFrame[r]
           /\ frameNo'[r] = frameNo[r] /\ leaving'[r] = leaving[r]
<1>0. q \in Readers /\ r \in Readers
  BY SenderAssumption
<1>1. /\ pc'[r] = pc[r] /\ held'[r] = held[r] /\ last'[r] = last[r]
      /\ inserted' = inserted
  <2>1. \/ StartReader(q, -1) \/ StopReader(q) \/ ReaderStep(q) \/ Forget(q)
        \/ UNCHANGED vars
    BY DEF Play, Stop, Loop, SendFails, PollEmpty, Poll, Miss, Got, Skip, Send,
           Leave, ReaderStep
  <2>2. CASE StartReader(q, -1) \/ StopReader(q)
    BY <1>0, <2>2 DEF StartReader, StopReader, TypeOK, ring
  <2>3. CASE ReaderStep(q)
    BY <1>0, <2>3 DEF ReaderStep, GetEnter, GetHit, GetLost, FreeFrame, TypeOK, ring
  <2>4. CASE Forget(q)
    BY <1>0, <2>4 DEF Forget, TypeOK, ring
  <2>5. CASE UNCHANGED vars
    BY <2>5 DEF vars, ring
  <2>6. QED
    BY <2>1, <2>2, <2>3, <2>4, <2>5
<1>2. /\ kind' = kind /\ sent'[r] = sent[r] /\ waitIFrame'[r] = waitIFrame[r]
      /\ frameNo'[r] = frameNo[r] /\ leaving'[r] = leaving[r]
  <2> USE DEF SenderTypeOK
  <2>1. CASE Play(q) \/ Stop(q) \/ Poll(q)
    BY <2>1 DEF Play, Stop, Poll, threads
  <2>2. CASE PollEmpty(q) \/ Miss(q)
    BY <2>2 DEF PollEmpty, Miss, CountEmpty
  <2>3. CASE Got(q) \/ Skip(q)
    BY <2>3 DEF Got, Skip
  <2>4. CASE Send(q) \/ SendFails(q)
    BY <2>4 DEF Send, SendFails, Carry
  <2>5. CASE Leave(q)
    BY <2>5 DEF Leave
  <2>6. QED
    BY <2>1, <2>2, <2>3, <2>4, <2>5 DEF Loop
<1>3. QED
  BY <1>1, <1>2

\* So what the others rely on stays true.
LEMMA OtherSession ==
    ASSUME TypeOK, SenderTypeOK, SendInductive, NEW q \in Senders, NEW r \in Senders,
           r # q, Play(q) \/ Stop(q) \/ Loop(q) \/ SendFails(q)
    PROVE  SessionSends(r)'
<1>1. inserted \in Nat /\ last[r] \in Nat
  BY SenderAssumption, QueueAssumption DEF TypeOK, Frames
<1>2. QED
  BY <1>1, OthersAlone, SessionUntouched DEF SendInductive

\* Starting and ending a session: nothing has been sent in it.
LEMMA FreshSession ==
    ASSUME TypeOK, SenderTypeOK, SendInductive, NEW r \in Senders,
           Play(r) \/ Leave(r)
    PROVE  SessionSends(r)'
<1>1. r \in Readers /\ inserted \in Nat /\ SessionSends(r)
  BY SenderAssumption, QueueAssumption DEF TypeOK, SendInductive
<1>2. last'[r] = 0 /\ inserted' = inserted
  BY <1>1 DEF Play, Leave, StartReader, StopReader, TypeOK, ring
<1>3. pc'[r] # "using" /\ sent'[r] = {} /\ ~waitIFrame'[r] /\ ~leaving'[r]
  <2>1. CASE Play(r)
    BY <1>1, <2>1 DEF Play, StartReader, SessionSends, TypeOK
  <2>2. CASE Leave(r)
    BY <1>1, <2>2 DEF Leave, StopReader, TypeOK, SenderTypeOK
  <2>3. QED
    BY <2>1, <2>2
<1>4. QED
  BY <1>1, <1>2, <1>3 DEF SessionSends

\* Polling, and a get that finds nothing.
LEMMA IdleSession ==
    ASSUME TypeOK, SenderTypeOK, SendInductive, NEW r \in Senders,
           Stop(r) \/ PollEmpty(r) \/ Poll(r) \/ Miss(r)
    PROVE  SessionSends(r)'
<1>1. /\ r \in Readers /\ inserted \in Nat /\ last[r] \in Nat /\ SessionSends(r)
  BY SenderAssumption, QueueAssumption DEF TypeOK, SendInductive, Frames
<1>2. /\ inserted' = inserted /\ last'[r] = last[r]
      /\ kind' = kind /\ sent'[r] = sent[r] /\ waitIFrame'[r] = waitIFrame[r]
      /\ frameNo'[r] = frameNo[r]
  <2>1. CASE Stop(r) \/ PollEmpty(r)
    BY <2>1 DEF Stop, PollEmpty, CountEmpty, vars, ring
  <2>2. CASE Poll(r)
    BY <2>2 DEF Poll, GetEnter, threads, ring
  <2>3. CASE Miss(r)
    BY <1>1, <2>3 DEF Miss, GetLost, GetHit, CountEmpty, TypeOK, ring
  <2>4. QED
    BY <2>1, <2>2, <2>3
<1>3. CASE Stop(r)
  <2>1. UNCHANGED <<pc, held, leaving>>
    BY <1>3 DEF Stop, vars
  <2>2. QED
    BY <1>1, <1>2, <2>1, SessionUntouched
<1>4. CASE Poll(r)
  <2>1. /\ pc[r] = "idle" /\ pc'[r] = "locking" /\ held' = held
        /\ ~leaving[r] /\ leaving' = leaving
    BY <1>1, <1>4 DEF Poll, Looping, GetEnter, TypeOK, threads
  <2>2. QED
    BY <1>1, <1>2, <2>1, SessionUntouched
<1>5. CASE PollEmpty(r) \/ Miss(r)
  <2>1. pc[r] \in {"idle", "locking"} /\ pc'[r] = "idle"
    <3>1. CASE PollEmpty(r)
      BY <3>1 DEF PollEmpty, Looping, vars
    <3>2. CASE Miss(r)
      BY <1>1, <3>2 DEF Miss, GetLost, GetHit, TypeOK
    <3>3. QED
      BY <1>5, <3>1, <3>2
  <2>2. ~leaving[r]
    <3>1. CASE PollEmpty(r)
      BY <3>1 DEF PollEmpty, Looping
    <3>2. CASE Miss(r)
      <4>1. pc[r] = "locking"
        BY <3>2 DEF Miss, GetLost, GetHit
      <4>2. QED
        BY <1>1, <4>1 DEF SessionSends
    <3>3. QED
      BY <1>5, <3>1, <3>2
  <2>3. /\ \A f \in sent'[r] : f \in 1..last[r] /\ FollowsSps(r, f)'
        /\ \A p \in 1..inserted : Knows(r, p) => Knows(r, p)'
    BY <1>1, <1>2, SentKept
  <2>4. waitIFrame'[r] => Knows(r, last[r])'
    <3> SUFFICES ASSUME waitIFrame[r] PROVE Knows(r, last[r])'
      BY <1>2
    <3>1. PICK p \in 1..inserted : p = last[r] /\ Knows(r, p)
      BY <1>1, <2>1, <2>2 DEF SessionSends, Knows
    <3>2. QED
      BY <1>2, <2>3, <3>1 DEF Knows
  <2>5. QED
    BY <1>1, <1>2, <2>1, <2>3, <2>4 DEF SessionSends
<1>6. QED
  BY <1>3, <1>4, <1>5

\* A get that finds a frame: the frame the sender knows is before it.
LEMMA GotSession ==
    ASSUME LogInductive, SenderTypeOK, SendInductive, NEW r \in Senders, Got(r)
    PROVE  SessionSends(r)'
<1>1. /\ r \in Readers /\ inserted \in Nat /\ last[r] \in Nat /\ SessionSends(r)
  BY SenderAssumption, QueueAssumption DEF LogInductive, TypeOK, SendInductive, Frames
<1>2. PICK f \in 1..inserted : f = pFrameInfo[Begin(r)] /\ f > last[r]
  BY <1>1, HitInOrder DEF Got
<1>3. /\ pc[r] = "locking" /\ pc'[r] = "using"
      /\ held'[r] = f /\ last'[r] = f /\ inserted' = inserted
  BY <1>1, <1>2 DEF Got, GetHit, LogInductive, TypeOK, ring
<1>4. UNCHANGED <<kind, frameNo, waitIFrame, leaving, sent>> /\ ~leaving[r]
  BY <1>1, <1>3 DEF Got, SessionSends
<1>5. /\ \A g \in sent'[r] : g \in 1..last[r] /\ FollowsSps(r, g)'
      /\ \A p \in 1..inserted : Knows(r, p) => Knows(r, p)'
  BY <1>1, <1>3, <1>4, SentKept
<1>6. \A g \in sent'[r] : g \in 1..f /\ g < f /\ FollowsSps(r, g)'
  BY <1>1, <1>2, <1>5
<1>7. ASSUME waitIFrame'[r] PROVE \E p \in 1..f-1 : Knows(r, p)'
  <2>1. PICK p \in Nat : p = last[r]
    BY <1>1
  <2>2. Knows(r, p)
    BY <1>1, <1>3, <1>4, <1>7, <2>1 DEF SessionSends
  <2>3. p \in 1..f-1 /\ p \in 1..inserted
    BY <1>1, <1>2, <2>1, <2>2 DEF Knows
  <2>4. QED
    BY <1>5, <2>2, <2>3
<1>8. QED
  BY <1>1, <1>2, <1>3, <1>4, <1>6, <1>7 DEF SessionSends

\* A frame that is not sent: the sender waits for the next SPS frame.
LEMMA SkipSession ==
    ASSUME TypeOK, SenderTypeOK, SendInductive, NEW r \in Senders, Skip(r)
    PROVE  SessionSends(r)'
<1>1. /\ r \in Readers /\ inserted \in Nat /\ last[r] \in Nat /\ SessionSends(r)
  BY SenderAssumption, QueueAssumption DEF TypeOK, SendInductive, Frames
<1>2. /\ pc'[r] = "idle" /\ last' = last /\ inserted' = inserted
  BY <1>1 DEF Skip, FreeFrame, TypeOK, ring
<1>3. /\ UNCHANGED <<kind, leaving, sent>> /\ ~waitIFrame'[r]
  BY DEF Skip, SenderTypeOK
<1>4. \A g \in sent'[r] : g \in 1..last[r] /\ FollowsSps(r, g)'
  BY <1>1, <1>2, <1>3, SentKept
<1>5. QED
  BY <1>1, <1>2, <1>3, <1>4 DEF SessionSends

\* Frames between two consecutive numbers that are not consecutive frames are so many
\* that the sender cannot notice.
LEMMA GapUnnoticed ==
    ASSUME NEW r \in Senders, NEW p \in Nat, NEW f \in Nat, NEW s \in 1..p,
           f >= p + 1 + FRAME_NO_MOD, \A h \in sent'[r] : h <= p \/ h = f,
           NEW g \in p+1..f-1
    PROVE  Unnoticed(r, g, s, f)'
<1>1. PICK m \in Nat : m = FRAME_NO_MOD /\ m > 0
  BY SenderAssumption
<1>2. PICK a \in p+1..f-m : g \in a..a+m-1
  <2>1. CASE g <= f - m
    <3>1. g \in p+1..f-m /\ g \in g..g+m-1
      BY <1>1, <2>1
    <3>2. QED
      BY <3>1
  <2>2. CASE g > f - m
    <3>1. f-m \in p+1..f-m /\ g \in f-m..f-m+m-1
      BY <1>1, <2>2
    <3>2. QED
      BY <3>1
  <2>3. QED
    BY <1>1, <2>1, <2>2
<1>3. \A h \in a..a+m-1 : h > p /\ h < f
  BY <1>1
<1>4. (a..a+m-1) \cap sent'[r] = {}
  BY <1>3
<1>5. a \in s+1..f-m
  OBVIOUS
<1>6. QED
  BY <1>1, <1>2, <1>4, <1>5 DEF Unnoticed

\* The sender goes on with a frame that carries on what it has sent.
LEMMA CarriedOn ==
    ASSUME NEW r \in Senders, NEW p \in Nat, NEW f \in Nat, p < f,
           FollowsSps(r, p), \A h \in sent[r] : h <= p,
           (No(p) + 1) % FRAME_NO_MOD = No(f),
           kind' = kind, sent[r] \subseteq sent'[r], sent'[r] \subseteq sent[r] \cup {f},
           Media(f) = "audio" \/ f \in sent'[r]
    PROVE  FollowsSps(r, f)'
<1>1. f = p + 1 \/ f >= p + 1 + FRAME_NO_MOD
  BY NextNo
<1>2. PICK s \in 1..p :
        /\ LooksLikeSps(s)
        /\ Media(s) = "audio" \/ s \in sent[r]
        /\ \A g \in s..p : Media(g) = "audio" \/ g \in sent[r] \/ Unnoticed(r, g, s, p)
  BY DEF FollowsSps
<1>3. \A g : Media(g)' = Media(g) /\ (LooksLikeSps(g)' <=> LooksLikeSps(g))
  BY DEF Media, LooksLikeSps
<1>4. ASSUME NEW g \in s..f
      PROVE  Media(g)' = "audio" \/ g \in sent'[r] \/ Unnoticed(r, g, s, f)'
  <2>1. CASE g \in s..p
    <3>1. ASSUME Unnoticed(r, g, s, p) PROVE Unnoticed(r, g, s, f)'
      <4>1. PICK a \in s+1..p-FRAME_NO_MOD : /\ g \in a..a+FRAME_NO_MOD-1
                                             /\ (a..a+FRAME_NO_MOD-1) \cap sent[r] = {}
        BY <3>1 DEF Unnoticed
      <4>2. a \in s+1..f-FRAME_NO_MOD /\ f \notin a..a+FRAME_NO_MOD-1
        BY SenderAssumption
      <4>3. (a..a+FRAME_NO_MOD-1) \cap sent'[r] = {}
        BY <4>1, <4>2
      <4>4. QED
        BY <4>1, <4>2, <4>3 DEF Unnoticed
    <3>2. QED
      BY <1>2, <1>3, <2>1, <3>1
  <2>2. CASE g \in p+1..f-1
    <3>1. f >= p + 1 + FRAME_NO_MOD
      BY <1>1, <2>2
    <3>2. \A h \in sent'[r] : h <= p \/ h = f
      OBVIOUS
    <3>3. QED
      BY <2>2, <3>1, <3>2, GapUnnoticed
  <2>3. CASE g = f
    BY <1>3, <2>3
  <2>4. QED
    BY <2>1, <2>2, <2>3
<1>5. s \in 1..f /\ LooksLikeSps(s)' /\ (Media(s)' = "audio" \/ s \in sent'[r])
  BY <1>2, <1>3
<1>6. QED
  BY <1>4, <1>5 DEF FollowsSps

\* A frame that is sent carries on what has been sent before it.
LEMMA SendSession ==
    ASSUME TypeOK, CountInductive, SenderTypeOK, SendInductive, NEW r \in Senders,
           Send(r) \/ SendFails(r)
    PROVE  SessionSends(r)'
<1>0. PICK f : f = held[r]
  OBVIOUS
<1>1. /\ r \in Readers /\ SessionSends(r) /\ inserted \in Nat /\ last[r] \in Nat
  BY SenderAssumption, QueueAssumption DEF SendInductive, TypeOK, Frames
<1>2. /\ Carry(r) /\ pc[r] = "using" /\ Continues(r) /\ ~leaving[r]
  BY <1>1 DEF Send, SendFails, Carry, SessionSends
<1>3. f = last[r] /\ f \in 1..inserted /\ f \in Nat
  BY <1>0, <1>1, <1>2, HeldIsFrame DEF SessionSends, Frames
<1>4. /\ pc'[r] = "idle" /\ last' = last /\ inserted' = inserted /\ kind' = kind
  <2>1. FreeFrame(r) \/ Forget(r)
    BY DEF Send, SendFails
  <2>2. QED
    BY <1>1, <1>2, <2>1 DEF FreeFrame, Forget, Carry, TypeOK, ring
<1>5. frameNo'[r] = No(f)
  BY <1>0, <1>2 DEF Carry, SenderTypeOK
<1>6. sent[r] \subseteq sent'[r] /\ sent'[r] \subseteq sent[r] \cup {f}
  BY <1>0 DEF Send, SendFails, SenderTypeOK
<1>7. CASE Send(r)
  <2>1. leaving' = leaving
    BY <1>7 DEF Send
  <2>2. /\ "video" \in Wants[r] => Media(f) = "audio" \/ f \in sent'[r]
        /\ "video" \notin Wants[r] => sent'[r] = {}
        /\ f \in sent'[r] => f \in sent[r] \/ "video" \in Wants[r]
    <3>1. Media(f) \in {"audio", "video"}
      BY DEF Media
    <3>2. sent'[r] = IF "video" \in Wants[r] /\ Media(f) = "video"
                     THEN sent[r] \cup {f} ELSE sent[r]
      BY <1>0, <1>7 DEF Send, SenderTypeOK
    <3>3. QED
      BY <3>1, <3>2, <1>1 DEF SessionSends
  <2>3. ASSUME "video" \in Wants[r] PROVE FollowsSps(r, f)'
    <3>1. CASE waitIFrame[r]
      <4>1. PICK p \in 1..last[r]-1 : Knows(r, p)
        BY <1>1, <1>2, <3>1 DEF SessionSends
      <4>2. (No(p) + 1) % FRAME_NO_MOD = No(f)
        BY <1>0, <1>2, <3>1, <4>1 DEF Continues, Knows
      <4>3. p \in Nat /\ p < f
        BY <1>1, <1>3, <4>1
      <4>4. FollowsSps(r, p) /\ \A h \in sent[r] : h <= p
        BY <2>3, <4>1 DEF Knows
      <4>5. QED
        BY <1>3, <1>4, <1>6, <2>2, <2>3, <4>2, <4>3, <4>4, CarriedOn
    <3>2. CASE ~waitIFrame[r]
      <4>1. LooksLikeSps(f)'
        BY <1>0, <1>2, <1>4, <3>2 DEF Continues, LooksLikeSps
      <4>2. Media(f)' = "audio" \/ f \in sent'[r]
        BY <1>4, <2>2, <2>3 DEF Media
      <4>3. f \in 1..f /\ \A g \in f..f : g = f
        BY <1>3
      <4>4. QED
        BY <4>1, <4>2, <4>3 DEF FollowsSps
    <3>3. QED
      BY <3>1, <3>2
  <2>4. \A g \in sent'[r] : g \in 1..last[r] /\ FollowsSps(r, g)'
    <3> SUFFICES ASSUME NEW g \in sent'[r]
                 PROVE  g \in 1..last[r] /\ FollowsSps(r, g)'
      OBVIOUS
    <3>1. CASE g = f
      <4>1. "video" \in Wants[r]
        BY <1>1, <1>2, <1>3, <2>2, <3>1 DEF SessionSends
      <4>2. QED
        BY <1>3, <2>3, <3>1, <4>1 DEF FollowsSps
    <3>2. CASE g # f
      <4>1. g \in sent[r] /\ g \in 1..last[r] /\ g < f /\ FollowsSps(r, g)
        BY <1>1, <1>2, <1>3, <1>6, <3>2 DEF SessionSends
      <4>2. g \in Nat /\ \A h \in 1..g : h # f
        BY <4>1
      <4>3. \A h \in 1..g : h \in sent'[r] <=> h \in sent[r]
        BY <1>6, <4>2
      <4>4. QED
        BY <1>4, <4>1, <4>2, <4>3, FollowsKept
    <3>3. QED
      BY <3>1, <3>2
  <2>5. Knows(r, last[r])'
    <3>1. \A g \in sent'[r] : g <= f
      BY <1>3, <2>4
    <3>2. Knows(r, last[r])' <=> /\ f \in 1..inserted
                                 /\ frameNo'[r] = No(f)
                                 /\ \A g \in sent'[r] : g <= f
                                 /\ "video" \in Wants[r] => FollowsSps(r, f)'
      BY <1>3, <1>4 DEF Knows, No, FollowsSps, Media, LooksLikeSps, Unnoticed
    <3>3. QED
      BY <1>3, <1>5, <2>3, <3>1, <3>2
  <2>6. QED
    BY <1>1, <1>2, <1>4, <2>1, <2>2, <2>4, <2>5 DEF SessionSends
<1>8. CASE SendFails(r)
  <2>1. sent' = sent /\ leaving'[r]
    BY <1>8 DEF SendFails, SenderTypeOK
  <2>2. \A g \in sent'[r] : g \in 1..last[r] /\ FollowsSps(r, g)'
    BY <1>1, <1>4, <2>1, SentKept
  <2>3. QED
    BY <1>1, <1>4, <2>1, <2>2 DEF SessionSends
<1>9. QED
  BY <1>7, <1>8

\* Every step keeps what the senders rely on.
LEMMA SendStep ==
    ASSUME CountInductive, LogInductive, SenderTypeOK, SendInductive,
           [SenderNext]_senderVars
    PROVE  SendInductive'
<1>1. Senders \subseteq Readers /\ inserted \in Nat /\ TypeOK
  BY SenderAssumption, QueueAssumption DEF CountInductive, TypeOK
<1>2. \A r \in Senders : last[r] \in Nat /\ SessionSends(r)
  BY <1>1, QueueAssumption DEF TypeOK, Frames, SendInductive
<1>3. CASE InsertKind
  <2>1. /\ inserted' = inserted + 1 /\ UNCHANGED <<pc, held, last, threads>>
        /\ \A f \in 1..inserted : kind'[f] = kind[f]
    BY <1>1, <1>3 DEF InsertKind, Insert, SenderTypeOK
  <2>2. QED
    BY <1>1, <1>2, <2>1, SessionUntouched DEF SendInductive, threads
<1>4. CASE QueueStep
  <2>1. inserted' = inserted /\ UNCHANGED <<kind, threads>>
    BY <1>4 DEF QueueStep, FreeAll, Uninit, StartReader, StopReader, ReaderStep,
                GetEnter, GetHit, GetLost, FreeFrame, ring
  <2>2. \A r \in Senders : pc'[r] = pc[r] /\ held'[r] = held[r] /\ last'[r] = last[r]
    BY <1>1, <1>4 DEF QueueStep, FreeAll, Uninit, StartReader, StopReader, ReaderStep,
                GetEnter, GetHit, GetLost, FreeFrame, TypeOK
  <2>3. QED
    BY <1>1, <1>2, <2>1, <2>2, SessionUntouched DEF SendInductive, threads
<1>5. ASSUME NEW q \in Senders, Play(q) \/ Stop(q) \/ Loop(q) \/ SendFails(q)
      PROVE  SendInductive'
  <2>1. SessionSends(q)'
    BY <1>1, <1>5, FreshSession, IdleSession, GotSession, SkipSession, SendSession DEF Loop
  <2>2. \A r \in Senders : r # q => SessionSends(r)'
    BY <1>1, <1>5, OtherSession
  <2>3. QED
    BY <2>1, <2>2 DEF SendInductive
<1>6. CASE UNCHANGED senderVars
  BY <1>1, <1>2, <1>6, SessionUntouched DEF senderVars, vars, ring, threads, SendInductive
<1>7. QED
  BY <1>3, <1>4, <1>5, <1>6 DEF SenderNext

\* Before the first session nothing has been sent.
LEMMA SendInit == SenderInit => SendInductive
BY SenderAssumption DEF SenderInit, Init, SendInductive, SessionSends

\* What the senders rely on holds in every reachable state.
THEOREM SendInductiveCorrect == SenderSpec => []SendInductive
<1> DEFINE Inv == CountInductive /\ LogInductive /\ SenderTypeOK /\ SendInductive
<1>1. SenderInit => Inv
  BY CountInit, LogInit, SenderTypeInit, SendInit DEF SenderInit
<1>2. Inv /\ [SenderNext]_senderVars => Inv'
  BY QueueSteps, CountStep, LogStep, SenderTypeStep, SendStep
<1>3. Inv => SendInductive
  OBVIOUS
<1>4. QED
  BY <1>1, <1>2, <1>3, PTL DEF SenderSpec

\* What a client is sent can be decoded: with every video frame it has been sent a
\* frame that was taken for an SPS frame and all video from that one on but what was
\* lost in runs of FRAME_NO_MOD frames and more, for any number of senders, any kinds
\* of frames, overruns and flushes, and frame numbers that wrap any number of times.
THEOREM SentDecodesCorrect == SenderSpec => []SentDecodes
<1>1. SendInductive => SentDecodes
  BY DEF SendInductive, SessionSends, SentDecodes
<1>2. QED
  BY <1>1, SendInductiveCorrect, PTL

\* A client is sent no frame twice and none out of order, for any number of
\* senders, whatever the frames are: the frame a sender has in hand is newer than
\* all it has sent.
THEOREM SentInOrderCorrect == SenderSpec => []SentInOrder
<1>1. SendInductive => SentInOrder
  BY DEF SendInductive, SessionSends, SentInOrder
<1>2. QED
  BY <1>1, SendInductiveCorrect, PTL

\* With senders among its readers, too, the queue implements FrameLog.
THEOREM SendersImplementLog == SenderSpec => LogSpec
BY SendersImplementQueue, LogCorrect, PTL
=============================================================================
