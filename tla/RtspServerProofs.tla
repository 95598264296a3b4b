-------------------------- MODULE RtspServerProofs --------------------------
(***************************************************************************)
(* For any number of sessions, channels and addresses, and whatever        *)
(* requests come in whatever order: a sender thread is left running, and a *)
(* channel counts a client it does not have, at most once for every SETUP  *)
(* of a session that streamed, and for nothing else.                       *)
(***************************************************************************)
EXTENDS RtspServer, CountingLemmas

-----------------------------------------------------------------------------
(* Types.  They are not inductive alone: an answered PLAY counts a client   *)
(* for the channel of its session, so that session must have one.          *)

Asked ==
    /\ \A s \in Sessions : sessStat[s] = "READY" => channel[s] \in Channels
    /\ step \in {"answering", "replying"} => cur \in Sessions /\ channel[cur] \in Channels

TypeInv == TypeOK /\ Asked

\* No session is in use at the start.
LEMMA TypeInit == Init => TypeInv
BY DEF Init, TypeInv, TypeOK, Asked

\* Adding to or taking from an integer count gives an integer.
LEMMA AddInt ==
    ASSUME NEW f \in [Channels -> Int], NEW c \in Channels, NEW i \in Int
    PROVE  [f EXCEPT ![c] = @ + i] \in [Channels -> Int]
OBVIOUS

\* ListDel frees one session.
LEMMA ListDelType ==
    ASSUME TypeInv, NEW s \in Sessions, ListDel(s)
    PROVE  /\ sessStat' \in [Sessions -> {"free", "INIT", "READY", "PLAY", "STOP"}]
           /\ channel' \in [Sessions -> Channels \cup {NONE}]
           /\ transport' \in [Sessions -> {"UDP", "TCP"}]
           /\ ports' \in [Sessions -> [AvTypes -> Addrs \cup {NONE}]]
           /\ sender' \in [Sessions -> {"none", "running", "exited"}]
           /\ stray' \in [Sessions -> Nat]
           /\ clientCnt' \in [Channels -> Int]
           /\ again' \in [Sessions -> Nat] /\ left' \in [Channels -> Nat]
           /\ \A u \in Sessions : sessStat'[u] = "READY" => channel'[u] \in Channels
<1>1. clientCnt' \in [Channels -> Int]
  <2>1. clientCnt \in [Channels -> Int]
    BY DEF TypeInv, TypeOK
  <2>2. CASE Streaming(s) /\ channel[s] # NONE
    <3>1. channel[s] \in Channels
      BY <2>2 DEF TypeInv, TypeOK
    <3>2. clientCnt' = [clientCnt EXCEPT ![channel[s]] = @ + (-1)]
      BY <2>1, <2>2, <3>1 DEF ListDel
    <3> QED
      BY <2>1, <3>1, <3>2, AddInt
  <2>3. CASE ~(Streaming(s) /\ channel[s] # NONE)
    BY <2>1, <2>3 DEF ListDel
  <2> QED
    BY <2>2, <2>3
<1>2. \A u \in Sessions : sessStat'[u] = "READY" => channel'[u] \in Channels
  BY DEF TypeInv, TypeOK, Asked, ListDel, Forget
<1> QED
  BY <1>1, <1>2 DEF TypeInv, TypeOK, ListDel, Forget, history

\* Closing a session keeps the types.
LEMMA CloseType ==
    ASSUME TypeInv, NEW s \in Sessions, Close(s)
    PROVE  TypeInv'
<1>1. CASE CloseQuiet(s)
  BY <1>1, ListDelType DEF TypeInv, TypeOK, Asked, CloseQuiet, Looping
<1>2. CASE CloseTcp(s)
  BY <1>2 DEF TypeInv, TypeOK, Asked, CloseTcp, At, Streaming, request, thread, history
<1>3. CASE CloseUdp(s)
  <2>1. targets' \in [Channels \X AvTypes \X Addrs -> Nat]
    BY <1>3 DEF CloseUdp, TypeInv, TypeOK
  <2> QED
    BY <1>3, <2>1, ListDelType DEF TypeInv, TypeOK, Asked, CloseUdp, Looping
<1>4. CASE CloseCrash(s)
  BY <1>4 DEF TypeInv, TypeOK, Asked, CloseCrash, At, request, thread, history
<1> QED
  BY <1>1, <1>2, <1>3, <1>4 DEF Close

\* More entries are still a number of entries.
LEMMA AddType ==
    ASSUME TypeInv, NEW s \in Sessions, NEW avs, Add(s, avs)
    PROVE  targets' \in [Channels \X AvTypes \X Addrs -> Nat]
BY DEF TypeInv, TypeOK, Add

\* Every step keeps the types.
LEMMA TypeStep == TypeInv /\ [Next]_vars => TypeInv'
<1> SUFFICES ASSUME TypeInv, [Next]_vars
             PROVE  TypeInv'
  OBVIOUS
<1>1. CASE UNCHANGED vars
  BY <1>1 DEF TypeInv, TypeOK, Asked, vars, request, thread, server, history
<1>2. ASSUME NEW s \in Sessions, ServerStep(s) \/ SenderExit(s) \/ StrayExit(s)
      PROVE  TypeInv'
  <2>1. CASE Accept(s)
    BY <2>1 DEF TypeInv, TypeOK, Asked, Accept, Forget, At
  <2>2. CASE Answer(s) \/ Teardown(s)
    BY <2>2 DEF TypeInv, TypeOK, Asked, Answer, Teardown, Looping, request, thread, history
  <2>3. CASE Drop(s) \/ ReplyFails(s) \/ StatCheck(s)
    BY <2>3, CloseType DEF Drop, ReplyFails, StatCheck
  <2>4. CASE Setup(s)
    <3>1. PICK c \in Channels : channel' = [channel EXCEPT ![s] = c]
      BY <2>4 DEF Setup
    <3>2. /\ transport' \in [Sessions -> {"UDP", "TCP"}]
          /\ ports' \in [Sessions -> [AvTypes -> Addrs \cup {NONE}]]
      <4>1. CASE UNCHANGED ports
        BY <2>4, <4>1 DEF Setup, TypeInv, TypeOK
      <4>2. ASSUME NEW av \in AvTypes, NEW a \in Addrs,
                   transport' = [transport EXCEPT ![s] = "UDP"],
                   ports' = [ports EXCEPT ![s][av] = a]
            PROVE  /\ transport' \in [Sessions -> {"UDP", "TCP"}]
                   /\ ports' \in [Sessions -> [AvTypes -> Addrs \cup {NONE}]]
        <5>1. [ports[s] EXCEPT ![av] = a] \in [AvTypes -> Addrs \cup {NONE}]
          BY DEF TypeInv, TypeOK
        <5>2. ports' = [ports EXCEPT ![s] = [ports[s] EXCEPT ![av] = a]]
          BY <4>2
        <5> QED
          BY <4>2, <5>1, <5>2 DEF TypeInv, TypeOK
      <4> QED
        BY <2>4, <4>1, <4>2 DEF Setup
    <3>3. left' \in [Channels -> Nat] /\ again' \in [Sessions -> Nat]
      BY <2>4 DEF Setup, TypeInv, TypeOK
    <3>4. channel' \in [Sessions -> Channels \cup {NONE}]
      BY <3>1 DEF TypeInv, TypeOK
    <3>5. \A u \in Sessions : sessStat'[u] = "READY" => channel'[u] \in Channels
      BY <2>4, <3>1 DEF Setup, TypeInv, TypeOK, Asked
    <3> QED
      BY <2>4, <3>1, <3>2, <3>3, <3>4, <3>5 DEF TypeInv, TypeOK, Asked, Setup, At, thread
  <2>5. CASE SetupReply(s)
    BY <2>5 DEF TypeInv, TypeOK, Asked, SetupReply, Looping, request, thread, history
  <2>6. CASE PlayTcp(s)
    <3>1. /\ sessStat' \in [Sessions -> {"free", "INIT", "READY", "PLAY", "STOP"}]
          /\ sender' \in [Sessions -> {"none", "running", "exited"}]
          /\ buffer' \in [Sessions -> BOOLEAN]
      BY <2>6 DEF TypeInv, TypeOK, PlayTcp
    <3>2. stray' \in [Sessions -> Nat]
      BY <2>6 DEF TypeInv, TypeOK, PlayTcp
    <3>3. channel[s] \in Channels
      BY <2>6 DEF TypeInv, Asked, PlayTcp
    <3>4. Asked'
      BY <2>6, <3>3 DEF TypeInv, TypeOK, Asked, PlayTcp, At, request
    <3> QED
      BY <2>6, <3>1, <3>2, <3>4 DEF TypeInv, TypeOK, PlayTcp, At, request, history
  <2>7. CASE PlayUdp(s) \/ PlayUdpFull(s)
    <3>1. targets' \in [Channels \X AvTypes \X Addrs -> Nat]
      BY <2>7, AddType DEF PlayUdp, PlayUdpFull
    <3> QED
      BY <2>7, <3>1 DEF TypeInv, TypeOK, Asked, PlayUdp, PlayUdpFull, At, request, thread,
                        history
  <2>8. CASE PlayReply(s)
    <3>1. clientCnt \in [Channels -> Int] /\ channel[s] \in Channels
      BY <2>8 DEF TypeInv, TypeOK, Asked, PlayReply
    <3>2. clientCnt' \in [Channels -> Int]
      BY <2>8, <3>1, AddInt DEF PlayReply
    <3> QED
      BY <2>8, <3>1, <3>2 DEF TypeInv, TypeOK, Asked, PlayReply, Looping, request, thread,
                              history
  <2>9. CASE CloseJoined(s)
    BY <2>9, ListDelType DEF TypeInv, TypeOK, Asked, CloseJoined, Looping
  <2>10. CASE SenderExit(s)
    BY <2>10 DEF TypeInv, TypeOK, Asked, SenderExit, request, server, history
  <2>11. CASE StrayExit(s)
    <3>1. stray' \in [Sessions -> Nat]
      BY <2>11 DEF TypeInv, TypeOK, StrayExit
    <3>2. /\ sessStat' \in [Sessions -> {"free", "INIT", "READY", "PLAY", "STOP"}]
          /\ \A u \in Sessions : sessStat'[u] = "READY" => sessStat[u] = "READY"
      BY <2>11 DEF TypeInv, TypeOK, StrayExit
    <3> QED
      BY <2>11, <3>1, <3>2 DEF TypeInv, TypeOK, Asked, StrayExit, request, server, history
  <2> QED
    BY <1>2, <2>1, <2>2, <2>3, <2>4, <2>5, <2>6, <2>7, <2>8, <2>9, <2>10, <2>11
    DEF ServerStep
<1> QED
  BY <1>1, <1>2 DEF Next

\* For any number of sessions, channels and addresses, every variable of the server
\* keeps its type.
THEOREM TypeCorrect == Spec => []TypeOK
<1>1. TypeInv => TypeOK
  BY DEF TypeInv
<1> QED
  BY <1>1, TypeInit, TypeStep, PTL DEF Spec

-----------------------------------------------------------------------------
(* Senders.  A SETUP of a session that streams gives credit for one stray:  *)
(* until the session streams over TCP again, so that its sender would be   *)
(* joined, the credit is not used up (Owed).                               *)

Answering(s) == step = "answering" /\ cur = s
Joinable(s)  == Streaming(s) /\ transport[s] = "TCP" /\ ~Answering(s)

Owed(s) == /\ stray[s] <= again[s]
           /\ sender[s] = "running" /\ ~Joinable(s) => stray[s] < again[s]

Orderly(s) == again[s] = 0 =>
    /\ sender[s] # "none" => buffer[s]
    /\ buffer[s] => Streaming(s) /\ transport[s] = "TCP"
    /\ Answering(s) => ~Streaming(s)

SenderInv == \A s \in Sessions : Owed(s) /\ Orderly(s)

\* It is stronger than the property.
LEMMA SenderInvIsStronger == SenderInv => SenderHasSession
BY DEF SenderInv, SenderHasSession, Owed, Orderly

\* No thread runs at the start.
LEMMA SenderInit == Init => SenderInv
BY DEF Init, SenderInv, Owed, Orderly, Joinable, Answering, Streaming

\* What a session's own part of SenderInv depends on, and that a step of another
\* session leaves alone.
Untouched(u) == /\ sessStat'[u] = sessStat[u] /\ transport'[u] = transport[u]
                /\ sender'[u] = sender[u] /\ buffer'[u] = buffer[u]
                /\ stray'[u] = stray[u] /\ again'[u] = again[u]
                /\ Answering(u)' = Answering(u)

\* A step concerns one session.
LEMMA SenderOne ==
    ASSUME SenderInv, NEW s \in Sessions,
           \A u \in Sessions \ {s} : Untouched(u),
           Owed(s)' /\ Orderly(s)'
    PROVE  SenderInv'
<1> SUFFICES ASSUME NEW u \in Sessions, u # s
             PROVE  Owed(u)' /\ Orderly(u)'
  BY DEF SenderInv
<1>1. Owed(u) /\ Orderly(u) /\ Untouched(u)
  BY DEF SenderInv
<1> QED
  BY <1>1 DEF Untouched, Owed, Orderly, Joinable, Streaming

\* Freeing a session whose sender is not joined uses its credit up.
LEMMA FreeSender ==
    ASSUME TypeInv, SenderInv, NEW s \in Sessions, ListDel(s), Looping,
           \A u \in Sessions \ {s} : ~Answering(u),
           buffer' = buffer \/ buffer' = [buffer EXCEPT ![s] = FALSE],
           ~Joinable(s) \/ sender[s] # "running",
           again[s] = 0 => ~buffer'[s]
    PROVE  SenderInv'
<1> USE DEF TypeInv, TypeOK
<1>1. \A u \in Sessions \ {s} : Untouched(u)
  BY DEF Untouched, ListDel, Forget, Looping, Answering, history
<1>2. Owed(s)'
  <2>1. Owed(s)
    BY DEF SenderInv
  <2> QED
    BY <2>1 DEF Owed, ListDel, history
<1>3. Orderly(s)'
  BY DEF Orderly, Answering, Looping, ListDel, history
<1> QED
  BY <1>1, <1>2, <1>3, SenderOne

\* Closing a session, from whatever the server was doing for it.
LEMMA CloseSender ==
    ASSUME TypeInv, SenderInv, NEW s \in Sessions, Close(s),
           step = "loop" \/ cur = s
    PROVE  SenderInv'
<1> USE DEF TypeInv, TypeOK
<1>1. Owed(s) /\ Orderly(s) /\ \A u \in Sessions \ {s} : ~Answering(u)
  BY DEF SenderInv, Answering
<1>2. CASE CloseQuiet(s)
  <2>1. ~Joinable(s) /\ (again[s] = 0 => ~buffer[s])
    BY <1>1, <1>2 DEF CloseQuiet, Joinable, Orderly
  <2> QED
    BY <1>1, <1>2, <2>1, FreeSender DEF CloseQuiet
<1>3. CASE CloseUdp(s)
  <2>1. ~Joinable(s) /\ (again[s] = 0 => ~buffer[s])
    BY <1>1, <1>3 DEF CloseUdp, Joinable, Orderly
  <2> QED
    BY <1>1, <1>3, <2>1, FreeSender DEF CloseUdp
<1>4. CASE CloseTcp(s)
  <2>1. \A u \in Sessions \ {s} : Untouched(u)
    BY <1>1, <1>4 DEF CloseTcp, At, Untouched, Answering, request, thread, history
  <2>2. Owed(s)' /\ Orderly(s)'
    BY <1>1, <1>4 DEF CloseTcp, At, Owed, Orderly, Joinable, Answering, Streaming,
                      request, thread, history
  <2> QED
    BY <2>1, <2>2, SenderOne
<1>5. CASE CloseCrash(s)
  <2>1. \A u \in Sessions \ {s} : Untouched(u)
    BY <1>1, <1>5 DEF CloseCrash, At, Untouched, Answering, request, thread, history
  <2>2. Owed(s)' /\ Orderly(s)'
    BY <1>1, <1>5 DEF CloseCrash, At, Owed, Orderly, Joinable, Answering, Streaming,
                      request, thread, history
  <2> QED
    BY <2>1, <2>2, SenderOne
<1> QED
  BY <1>2, <1>3, <1>4, <1>5 DEF Close

\* Every step keeps it.
LEMMA SenderStep == TypeInv /\ SenderInv /\ [Next]_vars => SenderInv'
<1> SUFFICES ASSUME TypeInv, SenderInv, [Next]_vars
             PROVE  SenderInv'
  OBVIOUS
<1>1. CASE UNCHANGED vars
  BY <1>1 DEF vars, request, thread, server, history, SenderInv, Owed, Orderly, Joinable,
              Answering, Streaming
<1>2. ASSUME NEW s \in Sessions, ServerStep(s) \/ SenderExit(s) \/ StrayExit(s)
      PROVE  SenderInv'
  <2> USE DEF TypeInv, TypeOK
  <2>0. Owed(s) /\ Orderly(s)
    BY DEF SenderInv
  <2>a. ASSUME \A u \in Sessions \ {s} :
                   /\ sessStat'[u] = sessStat[u] /\ transport'[u] = transport[u]
                   /\ sender'[u] = sender[u] /\ buffer'[u] = buffer[u]
                   /\ stray'[u] = stray[u] /\ again'[u] = again[u],
               UNCHANGED server \/ ((step = "loop" \/ cur = s)
                                    /\ (cur' = s \/ step' = "loop")),
               Owed(s)', Orderly(s)'
        PROVE  SenderInv'
    <3>1. \A u \in Sessions \ {s} : Answering(u)' = Answering(u)
      BY <2>a DEF Answering, server
    <3> QED
      BY <2>a, <3>1, SenderOne DEF Untouched
  <2>1. CASE Accept(s)
    BY <2>0, <2>1, <2>a DEF Accept, Forget, At, Owed, Orderly, Joinable, Answering, Streaming
  <2>2. CASE Answer(s)
    BY <2>0, <2>2, <2>a DEF Answer, Serving, Looping, request, thread, history, Owed, Orderly,
                            Joinable, Answering, Streaming
  <2>3. CASE Drop(s) \/ ReplyFails(s) \/ StatCheck(s)
    BY <2>3, CloseSender DEF Drop, ReplyFails, StatCheck, Serving
  <2>4. CASE Setup(s)
    <3>1. Owed(s)' /\ Orderly(s)'
      <4>1. CASE Streaming(s)
        <5>1. again'[s] = again[s] + 1 /\ stray'[s] = stray[s]
          BY <2>4, <4>1 DEF Setup, thread
        <5> QED
          BY <2>0, <5>1 DEF Owed, Orderly
      <4>2. CASE ~Streaming(s)
        BY <2>0, <2>4, <4>2 DEF Setup, At, thread, Owed, Orderly, Joinable, Answering,
                                Streaming
      <4> QED
        BY <4>1, <4>2
    <3> QED
      BY <2>4, <3>1, <2>a DEF Setup, Serving, At, thread
  <2>5. CASE SetupReply(s)
    BY <2>0, <2>5, <2>a DEF SetupReply, Looping, request, thread, history, Owed, Orderly,
                            Joinable, Answering, Streaming
  <2>6. CASE PlayTcp(s)
    BY <2>0, <2>6, <2>a DEF PlayTcp, Serving, At, request, history, Owed, Orderly,
                            Joinable, Answering, Streaming
  <2>7. CASE PlayUdp(s) \/ PlayUdpFull(s)
    BY <2>0, <2>7, <2>a DEF PlayUdp, PlayUdpFull, Serving, At, request, thread, history,
                            Owed, Orderly, Joinable, Answering, Streaming
  <2>8. CASE PlayReply(s)
    <3>1. Owed(s)' /\ Orderly(s)'
      BY <2>0, <2>8 DEF PlayReply, Looping, request, thread, history, Owed, Orderly,
                        Joinable, Answering, Streaming
    <3> QED
      BY <2>8, <3>1, <2>a DEF PlayReply, Looping, request, thread, history
  <2>9. CASE Teardown(s)
    BY <2>0, <2>9, <2>a DEF Teardown, Serving, Looping, request, thread, history, Owed,
                            Orderly, Joinable, Answering, Streaming
  <2>10. CASE CloseJoined(s)
    <3>1. (\A u \in Sessions \ {s} : ~Answering(u)) /\ buffer'[s] = FALSE
      BY <2>10 DEF CloseJoined, Answering
    <3> QED
      BY <2>10, <3>1, FreeSender DEF CloseJoined
  <2>11. CASE SenderExit(s)
    BY <2>0, <2>11, <2>a DEF SenderExit, request, server, history, Owed, Orderly, Joinable,
                             Answering, Streaming
  <2>12. CASE StrayExit(s)
    <3>1. again[s] # 0 /\ again'[s] = again[s]
      BY <2>0, <2>12 DEF StrayExit, Owed, history
    <3>2. Owed(s)' /\ Orderly(s)'
      BY <2>0, <2>12, <3>1 DEF StrayExit, request, server, history, Owed, Orderly, Joinable,
                               Answering, Streaming
    <3> QED
      BY <2>12, <3>2, <2>a DEF StrayExit, request, server, history
  <2> QED
    BY <1>2, <2>1, <2>2, <2>3, <2>4, <2>5, <2>6, <2>7, <2>8, <2>9, <2>10, <2>11, <2>12
    DEF ServerStep
<1> QED
  BY <1>1, <1>2 DEF Next

\* For any number of sessions and whatever their clients ask for: a sender thread is
\* left running at most once for every SETUP of a session that streamed, and a
\* session without such a SETUP has its sender, the buffer and the join.
THEOREM SenderCorrect == Spec => []SenderHasSession
BY TypeInit, TypeStep, SenderInit, SenderStep, SenderInvIsStronger, PTL DEF Spec

-----------------------------------------------------------------------------
(* Client counts.  Between SETUP and its answer, and between a sender's start *)
(* and the reply to PLAY, a session that streams may not be counted, so the   *)
(* bound is kept for the others.                                              *)

Pending(s) == step \in {"answering", "replying"} /\ cur = s
Counted(c) == {s \in Clients(c) : ~Pending(s)}
CountInv == \A c \in Channels : clientCnt[c] <= Cardinality(Counted(c)) + left[c]

\* Each step concerns one session, and changes the count no further than the set and
\* the history.
Only(s) == \A u \in Sessions \ {s} : /\ sessStat'[u] = sessStat[u]
                                      /\ channel'[u] = channel[u]
                                      /\ Pending(u)' = Pending(u)
Delta(s) == \A c \in Channels :
    clientCnt'[c] - clientCnt[c]
        <= Has(Counted(c)', s) - Has(Counted(c), s) + (left'[c] - left[c])

\* The sessions that count for a channel are finitely many.
LEMMA CountedFinite ==
    ASSUME NEW c \in Channels
    PROVE  IsFiniteSet(Counted(c)) /\ IsFiniteSet(Clients(c))
<1>1. Counted(c) \subseteq Sessions /\ Clients(c) \subseteq Sessions
  BY DEF Counted, Clients
<1> QED
  BY <1>1, RtspAssumption, FS_Subset DEF RtspAssumption

\* A step that concerns one session, and changes the count no further than that
\* session's presence in the set and the history, keeps the bound.
LEMMA CountOne ==
    ASSUME TypeOK, TypeOK', CountInv, NEW s \in Sessions, Only(s), Delta(s)
    PROVE  CountInv'
<1> SUFFICES ASSUME NEW c \in Channels
             PROVE  clientCnt'[c] <= Cardinality(Counted(c)') + left'[c]
  BY DEF CountInv
<1>1. Counted(c) \ {s} = Counted(c)' \ {s}
  BY DEF Only, Counted, Clients, Streaming
<1>2. /\ Cardinality(Counted(c)) \in Nat
      /\ Cardinality(Counted(c)') = Cardinality(Counted(c)) - Has(Counted(c), s)
                                     + Has(Counted(c)', s)
  BY <1>1, CountedFinite, OneElement
<1>3. Has(Counted(c), s) \in {0, 1} /\ Has(Counted(c)', s) \in {0, 1}
  BY DEF Has
<1>4. clientCnt[c] \in Int /\ clientCnt'[c] \in Int /\ left[c] \in Nat /\ left'[c] \in Nat
  BY DEF TypeOK
<1>5. /\ clientCnt[c] <= Cardinality(Counted(c)) + left[c]
      /\ clientCnt'[c] - clientCnt[c]
             <= Has(Counted(c)', s) - Has(Counted(c), s) + (left'[c] - left[c])
  BY DEF CountInv, Delta
<1> HIDE DEF Counted
<1> QED
  BY <1>2, <1>3, <1>4, <1>5

\* A session is closed, or stopped, or begins: what it was to the server thread
\* before is over.
Concerns(s) == step = "loop" \/ cur = s

\* A freed session is taken off the count of its channel if it was in the set.
LEMMA CountListDel ==
    ASSUME TypeInv, TypeInv', NEW s \in Sessions, ListDel(s), Looping, Concerns(s)
    PROVE  Only(s) /\ Delta(s)
<1> USE DEF TypeInv, TypeOK
<1>1. Only(s)
  BY DEF Only, ListDel, Forget, Looping, Pending, Concerns
<1>2. ASSUME NEW c \in Channels
      PROVE  clientCnt'[c] - clientCnt[c]
                 <= Has(Counted(c)', s) - Has(Counted(c), s) + (left'[c] - left[c])
  <2>1. s \notin Counted(c)' /\ left'[c] = left[c]
    BY DEF Counted, Clients, Streaming, ListDel, history
  <2>2. CASE Streaming(s) /\ channel[s] = c
    <3>1. clientCnt'[c] = clientCnt[c] - 1
      BY <2>2, RtspAssumption DEF ListDel, RtspAssumption
    <3> QED
      BY <2>1, <3>1 DEF Has
  <2>3. CASE ~(Streaming(s) /\ channel[s] = c)
    <3>1. s \notin Counted(c)
      BY <2>3 DEF Counted, Clients
    <3>2. clientCnt'[c] = clientCnt[c] \/ clientCnt'[c] = clientCnt[c] - 1
      BY <2>3 DEF ListDel
    <3> QED
      BY <2>1, <3>1, <3>2 DEF Has
  <2> QED
    BY <2>2, <2>3
<1> QED
  BY <1>1, <1>2 DEF Delta

\* The count and the history stay, and s does not leave the set.
LEMMA CountKept ==
    ASSUME TypeInv, TypeInv', NEW s \in Sessions,
           clientCnt' = clientCnt, left' = left,
           \A c \in Channels : s \in Counted(c) => s \in Counted(c)'
    PROVE  Delta(s)
BY DEF Delta, Has, TypeInv, TypeOK

\* Closing a session keeps the bound on clientCnt.
LEMMA CountClose ==
    ASSUME TypeInv, TypeInv', NEW s \in Sessions, Close(s), Concerns(s)
    PROVE  Only(s) /\ Delta(s)
<1>1. CASE CloseQuiet(s) \/ CloseUdp(s)
  BY <1>1, CountListDel DEF CloseQuiet, CloseUdp
<1>2. CASE CloseTcp(s) \/ CloseCrash(s)
  <2>1. Only(s)
    BY <1>2 DEF Only, CloseTcp, CloseCrash, At, Pending, Concerns, request, TypeInv, TypeOK
  <2>2. \A c \in Channels : s \in Counted(c) => s \in Counted(c)'
    BY <1>2 DEF CloseTcp, CloseCrash, At, Counted, Clients, Streaming, Pending, request,
                TypeInv, TypeOK
  <2> QED
    BY <1>2, <2>1, <2>2, CountKept DEF CloseTcp, CloseCrash, history
<1> QED
  BY <1>1, <1>2 DEF Close

\* Every step keeps the bound on clientCnt.
LEMMA CountStep == TypeInv /\ TypeInv' /\ CountInv /\ [Next]_vars => CountInv'
<1> SUFFICES ASSUME TypeInv, TypeInv', CountInv, [Next]_vars
             PROVE  CountInv'
  OBVIOUS
<1> USE DEF TypeInv, TypeOK
<1>1. CASE UNCHANGED vars
  BY <1>1 DEF CountInv, Counted, Clients, Streaming, Pending, vars, request, server, history
<1>2. ASSUME NEW s \in Sessions, ServerStep(s) \/ SenderExit(s) \/ StrayExit(s)
      PROVE  CountInv'
  <2>1. CASE Accept(s)
    <3>1. Only(s)
      BY <2>1 DEF Only, Accept, Forget, At, Pending
    <3>2. \A c \in Channels : s \notin Counted(c)
      BY <2>1 DEF Accept, Counted, Clients, Streaming
    <3> QED
      BY <2>1, <3>1, <3>2, CountKept, CountOne DEF Accept
  <2>2. CASE Answer(s) \/ Teardown(s) \/ PlayTcp(s) \/ PlayUdp(s) \/ PlayUdpFull(s)
    <3>1. Only(s)
      BY <2>2 DEF Only, Answer, Teardown, PlayTcp, PlayUdp, PlayUdpFull, Serving, Looping,
                  At, Pending, request
    <3>2. \A c \in Channels : s \in Counted(c) => s \in Counted(c)'
      BY <2>2 DEF Answer, Teardown, PlayTcp, PlayUdp, PlayUdpFull, Serving, Looping, At,
                  Pending, Counted, Clients, Streaming, request
    <3>3. clientCnt' = clientCnt /\ left' = left
      BY <2>2 DEF Answer, Teardown, PlayTcp, PlayUdp, PlayUdpFull, history
    <3> QED
      BY <3>1, <3>2, <3>3, CountKept, CountOne
  <2>3. CASE Drop(s) \/ ReplyFails(s) \/ StatCheck(s)
    <3>1. Close(s) /\ Concerns(s)
      BY <2>3 DEF Drop, ReplyFails, StatCheck, Serving, Concerns
    <3> QED
      BY <3>1, CountClose, CountOne
  <2>4. CASE Setup(s)
    <3>1. Only(s)
      BY <2>4 DEF Only, Setup, Serving, At, Pending
    <3>2. ASSUME NEW c \in Channels
          PROVE  clientCnt'[c] - clientCnt[c]
                     <= Has(Counted(c)', s) - Has(Counted(c), s) + (left'[c] - left[c])
      <4>1. s \notin Counted(c)' /\ clientCnt'[c] = clientCnt[c]
        BY <2>4 DEF Setup, At, Counted, Pending
      <4>2. CASE s \in Counted(c)
        <5>1. Streaming(s) /\ channel[s] = c /\ channel[s] # NONE
          BY <4>2, RtspAssumption DEF Counted, Clients, RtspAssumption
        <5>2. left'[c] = left[c] + 1
          BY <2>4, <5>1 DEF Setup
        <5> QED
          BY <4>1, <4>2, <5>2 DEF Has
      <4>3. CASE s \notin Counted(c)
        <5>1. left'[c] >= left[c]
          BY <2>4 DEF Setup
        <5> QED
          BY <4>1, <4>3, <5>1 DEF Has
      <4> QED
        BY <4>2, <4>3
    <3> QED
      BY <3>1, <3>2, CountOne DEF Delta
  <2>5. CASE SetupReply(s)
    <3>1. Only(s)
      BY <2>5 DEF Only, SetupReply, Looping, Pending, request
    <3>2. \A c \in Channels : s \notin Counted(c)
      BY <2>5 DEF SetupReply, Counted, Pending
    <3>3. clientCnt' = clientCnt /\ left' = left
      BY <2>5 DEF SetupReply, history
    <3> QED
      BY <3>1, <3>2, <3>3, CountKept, CountOne
  <2>6. CASE CloseJoined(s)
    BY <2>6, CountListDel, CountOne DEF CloseJoined, Concerns
  <2>7. CASE PlayReply(s)
    <3>1. Only(s)
      BY <2>7 DEF Only, PlayReply, Looping, Pending, request
    <3>2. channel[s] \in Channels
      BY <2>7 DEF PlayReply, Asked
    <3>3. ASSUME NEW c \in Channels
          PROVE  clientCnt'[c] - clientCnt[c]
                     <= Has(Counted(c)', s) - Has(Counted(c), s) + (left'[c] - left[c])
      <4>1. s \notin Counted(c) /\ left'[c] = left[c]
        BY <2>7 DEF PlayReply, Counted, Pending, history
      <4>2. c = channel[s] => s \in Counted(c)'
        BY <2>7 DEF PlayReply, Counted, Clients, Streaming, Pending, Looping, request
      <4>3. clientCnt'[c] = IF c = channel[s] THEN clientCnt[c] + 1 ELSE clientCnt[c]
        BY <2>7, <3>2 DEF PlayReply
      <4> QED
        BY <4>1, <4>2, <4>3 DEF Has
    <3> QED
      BY <3>1, <3>3, CountOne DEF Delta
  <2>8. CASE SenderExit(s) \/ StrayExit(s)
    <3>1. Only(s)
      BY <2>8 DEF Only, SenderExit, StrayExit, Pending, request, server
    <3>2. \A c \in Channels : s \in Counted(c) => s \in Counted(c)'
      BY <2>8 DEF SenderExit, StrayExit, Pending, Counted, Clients, Streaming, request, server
    <3>3. clientCnt' = clientCnt /\ left' = left
      BY <2>8 DEF SenderExit, StrayExit, history
    <3> QED
      BY <3>1, <3>2, <3>3, CountKept, CountOne
  <2> QED
    BY <1>2, <2>1, <2>2, <2>3, <2>4, <2>5, <2>6, <2>7, <2>8 DEF ServerStep
<1> QED
  BY <1>1, <1>2 DEF Next

\* The bound holds with no clients.
LEMMA CountInit == Init => CountInv
<1> SUFFICES ASSUME Init, NEW c \in Channels
             PROVE  clientCnt[c] <= Cardinality(Counted(c)) + left[c]
  BY DEF CountInv
<1>1. Cardinality(Counted(c)) \in Nat
  BY CountedFinite, FS_CardinalityType
<1>2. clientCnt[c] = 0 /\ left[c] = 0
  BY DEF Init
<1> QED
  BY <1>1, <1>2

\* The bound for the sessions that are counted is one for all that stream.
LEMMA CountInvIsStronger == TypeInv /\ CountInv => CountIsBounded
<1> SUFFICES ASSUME TypeInv, CountInv, NEW c \in Channels
             PROVE  clientCnt[c] <= Cardinality(Clients(c)) + left[c]
  BY DEF CountIsBounded
<1>1. Counted(c) \subseteq Clients(c)
  BY DEF Counted
<1>2. /\ Cardinality(Counted(c)) <= Cardinality(Clients(c))
      /\ Cardinality(Counted(c)) \in Nat /\ Cardinality(Clients(c)) \in Nat
  BY <1>1, CountedFinite, FS_Subset, FS_CardinalityType
<1>3. /\ clientCnt[c] \in Int /\ left[c] \in Nat
      /\ clientCnt[c] <= Cardinality(Counted(c)) + left[c]
  BY DEF TypeInv, TypeOK, CountInv
<1> QED
  BY <1>2, <1>3

\* For any number of sessions and channels and whatever their clients ask for, clientCnt
\* exceeds the number of sessions that stream from the channel by at most the number of
\* SETUPs that took one away from it.
THEOREM CountCorrect == Spec => []CountIsBounded
BY TypeInit, TypeStep, CountInit, CountStep, CountInvIsStronger, PTL DEF Spec
=============================================================================
