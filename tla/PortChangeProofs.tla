-------------------------- MODULE PortChangeProofs --------------------------
(***************************************************************************)
(* For any set of threads and of ports: but while a restore that met a     *)
(* change is under way with it, a server's socket and sessions are closed  *)
(* only while its own thread is out of its loop; and the socket opened in  *)
(* the end is on the port that the database holds, but from such a meeting *)
(* to the end of a restore that meets none.                                *)
(***************************************************************************)
EXTENDS PortChange, TLAPS

-----------------------------------------------------------------------------
(* Types.                                                                  *)

\* The program starts with values of the right types.
LEMMA TypeInit == Init => TypeOK
<1> SUFFICES ASSUME Init PROVE TypeOK
  OBVIOUS
<1>1. work \in [Closers -> [Servers -> {"none", "todo", "marked",
                                       "closed", "listening", "open", "failed"}]]
  BY DEF Init, Idle
<1>2. listen \in [Servers -> Ports \cup {NONE}]
  BY DEF Init
<1> QED
  BY <1>1, <1>2 DEF Init, TypeOK

\* Advance moves one closer's work on one server.
LEMMA AdvanceType ==
    ASSUME TypeOK, NEW p \in Closers, NEW s \in Servers,
           NEW to \in {"none", "todo", "marked", "closed",
                       "listening", "open", "failed"},
           Advance(p, s, to)
    PROVE  /\ work' \in [Closers -> [Servers -> {"none", "todo", "marked",
                                        "closed", "listening", "open", "failed"}]]
           /\ \A q \in Closers, t \in Servers :
                  work'[q][t] = IF q = p /\ t = s THEN to ELSE work[q][t]
BY DEF TypeOK, Advance

\* A caller that leaves the database has no question left.
LEMMA UnlockType ==
    ASSUME TypeOK, NEW c \in Callers, Unlock(c)
    PROVE  /\ mutex' \in Callers \cup {NONE}
           /\ pc' \in [Callers -> {"idle", "waiting", "inside", "storing", "restoring"}]
           /\ ask' \in [Callers -> {"none", "access", "default"}]
BY DEF TypeOK, Unlock

\* A closer opens a server on a port.
LEMMA TargetType ==
    ASSUME TypeOK, NEW p \in Closers, NEW s \in Servers
    PROVE  Target(p, s) \in Ports
BY PortAssumption DEF TypeOK, Target

\* The flags, the sockets and the ports keep their types.
LEMMA TypeStep == TypeOK /\ [Next]_vars => TypeOK'
<1> SUFFICES ASSUME TypeOK, [Next]_vars PROVE TypeOK'
  OBVIOUS
<1> USE DEF store, flags, sockets, calls
<1>1. CASE UNCHANGED vars
  BY <1>1 DEF TypeOK, vars
<1>2. ASSUME NEW s \in Servers, ServerStep(s) PROVE TypeOK'
  <2>1. CASE ReadSocket
    <3>1. listen["rtsp"] \in Ports \cup {NONE}
      BY DEF TypeOK, Servers
    <3> QED
      BY <2>1, <3>1 DEF TypeOK, ReadSocket
  <2>2. CASE Enter(s)
    BY <2>2 DEF TypeOK, Enter
  <2>3. CASE Leave(s)
    BY <2>3 DEF TypeOK, Leave
  <2>4. CASE ClearRun(s)
    BY <2>4 DEF TypeOK, ClearRun
  <2>5. CASE Turn(s)
    BY <2>5 DEF TypeOK, Turn
  <2> QED
    BY <1>2, <2>1, <2>2, <2>3, <2>4, <2>5 DEF ServerStep
<1>3. CASE SelectFails
  BY <1>3 DEF TypeOK, SelectFails, Servers
<1>4. ASSUME NEW c \in Callers, Ask(c) PROVE TypeOK'
  BY <1>4 DEF TypeOK, Ask
<1>5. ASSUME NEW c \in Callers, Lock(c) PROVE TypeOK'
  BY <1>5 DEF TypeOK, Lock
<1>6. ASSUME NEW c \in Callers, Return(c) PROVE TypeOK'
  BY <1>6, UnlockType DEF TypeOK, Return
<1>7. ASSUME NEW c \in Callers, Set(c) PROVE TypeOK'
  <2>1. PICK p \in [Servers -> Ports] :
            /\ new' = p
            /\ work' = [work EXCEPT !["change"] =
                    [s \in Servers |-> IF p[s] = cfg[s] THEN "none" ELSE "todo"]]
    BY <1>7 DEF Set
  <2>2. work' \in [Closers -> [Servers -> {"none", "todo", "marked",
                                          "closed", "listening", "open", "failed"}]]
    BY <2>1 DEF TypeOK
  <2> QED
    BY <1>7, <2>1, <2>2 DEF TypeOK, Set
<1>8. ASSUME NEW c \in Callers, Stored(c) PROVE TypeOK'
  BY <1>8, UnlockType DEF TypeOK, Stored
<1>9. ASSUME NEW c \in Callers, Restore(c) PROVE TypeOK'
  BY <1>9, PortAssumption DEF TypeOK, Restore, Closers
<1>10. ASSUME NEW c \in Callers, Restored(c) PROVE TypeOK'
  BY <1>10, UnlockType DEF TypeOK, Restored, Closers, Idle
<1>11. ASSUME NEW p \in Closers, NEW s \in Servers, Mark(p, s) PROVE TypeOK'
  BY <1>11, AdvanceType DEF TypeOK, Mark
<1>12. ASSUME NEW p \in Closers, NEW s \in Servers, Close(p, s) PROVE TypeOK'
  BY <1>12, AdvanceType DEF TypeOK, Close
<1>13. ASSUME NEW p \in Closers, NEW s \in Servers, Listen(p, s) PROVE TypeOK'
  BY <1>13, AdvanceType, TargetType DEF TypeOK, Listen
<1>14. ASSUME NEW p \in Closers, NEW s \in Servers, ListenFails(p, s) PROVE TypeOK'
  BY <1>14, AdvanceType DEF TypeOK, ListenFails
<1>15. ASSUME NEW p \in Closers, NEW s \in Servers, Open(p, s) PROVE TypeOK'
  BY <1>15, AdvanceType DEF TypeOK, Open
<1>16. CASE Changed
  BY <1>16 DEF TypeOK, Changed, Closers, Idle
<1> QED
  BY <1>1, <1>2, <1>3, <1>4, <1>5, <1>6, <1>7, <1>8, <1>9, <1>10, <1>11, <1>12,
     <1>13, <1>14, <1>15, <1>16 DEF Next, Step, Inside, Reopen

\* Every variable of the port change keeps its type, whatever meets whatever.
THEOREM TypeCorrect == Spec => []TypeOK
<1> QED
  BY TypeInit, TypeStep, PTL DEF Spec

-----------------------------------------------------------------------------
(* One closer at a time.  A thread in its loop has found its run flag set, *)
(* and the flag stays clear while the server is being closed and opened:   *)
(* that takes a single closer, for the second would find the flag the      *)
(* first one set again.  A restoring caller holds the mutex, so no change  *)
(* can begin; and if one was under way when it began, overlap says so.     *)

\* Who is in the database holds its mutex.
Holds == \A c \in Callers :
             pc[c] \in {"inside", "storing", "restoring"} => mutex = c

\* Who reopens servers is the changing thread, or a caller that restores.
Entitled ==
    /\ \A s \in Servers : work["change"][s] # "none" => changing
    /\ \A c \in Callers, s \in Servers :
           work[c][s] # "none" => pc[c] = "restoring"

\* A change that is under way during a restore has been noted.
Apart == \A c \in Callers : pc[c] = "restoring" /\ changing => overlap = "present"

\* A thread in its loop has its run flag set.
Running == \A s \in Servers : at[s] = "turn" => run[s]

\* The run flag of a server that is being reopened is clear.
Cleared == overlap # "present" =>
               \A p \in Closers, s \in Servers :
                   work[p][s] \in {"closed", "listening"} => ~run[s]

CloseInv == TypeOK /\ Holds /\ Entitled /\ Apart /\ Running /\ Cleared

\* Two closers that both have work are the same one, unless a restore met a change.
LEMMA OneCloser ==
    ASSUME CloseInv, overlap # "present", NEW p \in Closers, NEW q \in Closers,
           NEW s \in Servers, NEW t \in Servers,
           work[p][s] # "none", work[q][t] # "none"
    PROVE  p = q
<1>1. CASE p = "change" /\ q = "change"
  BY <1>1
<1>2. CASE p \in Callers /\ q \in Callers
  BY <1>2 DEF CloseInv, Holds, Entitled
<1>3. CASE p = "change" /\ q \in Callers
  BY <1>3 DEF CloseInv, Entitled, Apart
<1>4. CASE p \in Callers /\ q = "change"
  BY <1>4 DEF CloseInv, Entitled, Apart
<1> QED
  BY <1>1, <1>2, <1>3, <1>4 DEF Closers

\* Nothing is being closed at the start.
LEMMA CloseInit == Init => CloseInv
<1> SUFFICES ASSUME Init PROVE CloseInv
  OBVIOUS
<1>1. \A p \in Closers, s \in Servers : work[p][s] = "none"
  BY DEF Init, Idle
<1>2. Callers \subseteq Closers /\ "change" \in Closers
  BY DEF Closers
<1> QED
  BY <1>1, <1>2, TypeInit DEF Init, CloseInv, Holds, Entitled, Apart, Running, Cleared

\* A step that only moves one closer's work, without beginning or ending it,
\* keeps who is entitled.
LEMMA EntitledAdvance ==
    ASSUME CloseInv, NEW p \in Closers, NEW s \in Servers, work[p][s] # "none",
           NEW to \in {"marked", "closed", "listening", "open", "failed"},
           Advance(p, s, to), changing' = changing, pc' = pc
    PROVE  Entitled'
BY AdvanceType DEF CloseInv, Entitled, Closers

\* Each step keeps the invariant.
LEMMA CloseStep ==
    ASSUME CloseInv, [Next]_vars
    PROVE  CloseInv'
<1> USE DEF store, flags, sockets, calls
<1>0. TypeOK'
  BY TypeStep DEF CloseInv
<1> DEFINE Kept == Holds' /\ Entitled' /\ Apart' /\ Running' /\ Cleared'
<1>1. CASE UNCHANGED vars
  BY <1>0, <1>1 DEF CloseInv, Holds, Entitled, Apart, Running, Cleared, vars
<1>2. ASSUME NEW s \in Servers, (s = "rtsp" /\ ReadSocket) \/ Enter(s) \/ Leave(s) \/ Turn(s)
      PROVE  Kept
  <2>1. Running'
    BY <1>2 DEF CloseInv, TypeOK, Running, ReadSocket, Enter, Leave, Turn
  <2>2. UNCHANGED <<run, changing, work, mutex, overlap>>
    BY <1>2 DEF ReadSocket, Enter, Leave, Turn
  <2>3. UNCHANGED pc
    BY <1>2 DEF ReadSocket, Enter, Leave, Turn
  <2> QED
    BY <2>1, <2>2, <2>3 DEF CloseInv, Holds, Entitled, Apart, Cleared
<1>3. ASSUME NEW s \in Servers, ClearRun(s) PROVE Kept
  BY <1>3 DEF CloseInv, TypeOK, Holds, Entitled, Apart, Running, Cleared, ClearRun
<1>4. CASE SelectFails
  BY <1>4 DEF CloseInv, TypeOK, Holds, Entitled, Apart, Running, Cleared, SelectFails
<1>5. ASSUME NEW c \in Callers, Ask(c) \/ Lock(c) PROVE Kept
  <2>1. \A d \in Callers : pc'[d] = pc[d] \/ (d = c /\ pc[c] # "restoring"
                                        /\ pc'[d] \in {"waiting", "inside"})
    BY <1>5 DEF CloseInv, TypeOK, Ask, Lock
  <2>2. Holds'
    <3>1. NONE \notin Callers
      BY PortAssumption DEF Callers
    <3>2. CASE Ask(c)
      BY <2>1, <3>2 DEF CloseInv, TypeOK, Holds, Ask
    <3>3. CASE Lock(c)
      BY <3>1, <3>3 DEF CloseInv, TypeOK, Holds, Lock
    <3> QED
      BY <1>5, <3>2, <3>3
  <2>3. UNCHANGED <<run, changing, work, at, overlap>>
    BY <1>5 DEF Ask, Lock
  <2> QED
    BY <2>1, <2>2, <2>3 DEF CloseInv, Entitled, Apart, Running, Cleared
<1>6. ASSUME NEW c \in Callers, Return(c) \/ Stored(c) PROVE Kept
  <2>1. \A d \in Callers : pc'[d] = IF d = c THEN "idle" ELSE pc[d]
    BY <1>6 DEF CloseInv, TypeOK, Return, Stored, Unlock
  <2>2. mutex = c /\ pc[c] # "restoring"
    BY <1>6 DEF CloseInv, Holds, Return, Stored
  <2>3. UNCHANGED <<run, changing, work, at, overlap>>
    BY <1>6 DEF Return, Stored
  <2> QED
    BY <2>1, <2>2, <2>3 DEF CloseInv, Holds, Entitled, Apart, Running, Cleared
<1>7. ASSUME NEW c \in Callers, Set(c) PROVE Kept
  <2>1. /\ mutex = c
        /\ \A d \in Callers : pc[d] # "restoring"
    BY <1>7 DEF CloseInv, Holds, Set
  <2>2. PICK p \in [Servers -> Ports] :
            work' = [work EXCEPT !["change"] =
                    [s \in Servers |-> IF p[s] = cfg[s] THEN "none" ELSE "todo"]]
    BY <1>7 DEF Set
  <2>3. \A q \in Closers, s \in Servers :
            \/ work'[q][s] = work[q][s]
            \/ q = "change" /\ work'[q][s] \in {"none", "todo"}
    <3>1. \A q \in Closers : q # "change" => work'[q] = work[q]
      BY <2>2 DEF CloseInv, TypeOK
    <3>2. work'["change"] = [s \in Servers |-> IF p[s] = cfg[s] THEN "none" ELSE "todo"]
      BY <2>2 DEF CloseInv, TypeOK, Closers
    <3>3. \A s \in Servers : work'["change"][s] \in {"none", "todo"}
      BY <3>2
    <3> QED
      BY <3>1, <3>3
  <2>4. \A d \in Callers : pc'[d] = IF d = c THEN "storing" ELSE pc[d]
    BY <1>7 DEF CloseInv, TypeOK, Set
  <2>5. "change" \notin Callers
    BY PortAssumption DEF Callers
  <2>6. changing' /\ UNCHANGED <<run, at, mutex, overlap>>
    BY <1>7 DEF Set
  <2>7. Callers \subseteq Closers
    BY DEF Closers
  <2> QED
    BY <2>1, <2>3, <2>4, <2>5, <2>6, <2>7
    DEF CloseInv, Holds, Entitled, Apart, Running, Cleared
<1>8. ASSUME NEW c \in Callers, Restore(c) PROVE Kept
  <2>1. mutex = c
    BY <1>8 DEF CloseInv, Holds, Restore
  <2>2. \A q \in Closers, s \in Servers :
            work'[q][s] = IF q = c THEN "marked" ELSE work[q][s]
    BY <1>8 DEF CloseInv, TypeOK, Restore, Closers
  <2>3. \A d \in Callers : pc'[d] = IF d = c THEN "restoring" ELSE pc[d]
    BY <1>8 DEF CloseInv, TypeOK, Restore
  <2>4. "change" \notin Callers /\ Callers \subseteq Closers /\ "change" \in Closers
    BY PortAssumption DEF Callers, Closers
  <2>5. /\ UNCHANGED <<run, at, mutex, changing>>
        /\ overlap' = IF changing THEN "present" ELSE overlap
    BY <1>8 DEF Restore
  <2>6. Holds' /\ Entitled' /\ Running'
    BY <2>1, <2>2, <2>3, <2>4, <2>5 DEF CloseInv, Holds, Entitled, Running
  <2>7. Apart'
    <3>1. \A d \in Callers : pc'[d] = "restoring" => pc[d] = "restoring" \/ d = c
      BY <2>3
    <3> QED
      BY <3>1, <2>5 DEF CloseInv, Apart
  <2>8. Cleared'
    BY <2>2, <2>5 DEF CloseInv, Cleared
  <2> QED
    BY <2>6, <2>7, <2>8
<1>9. ASSUME NEW c \in Callers, Restored(c) PROVE Kept
  <2>1. mutex = c
    BY <1>9 DEF CloseInv, Holds, Restored
  <2>2. \A q \in Closers, s \in Servers :
            work'[q][s] = IF q = c THEN "none" ELSE work[q][s]
    BY <1>9 DEF CloseInv, TypeOK, Restored, Closers, Idle
  <2>3. \A d \in Callers : pc'[d] = IF d = c THEN "idle" ELSE pc[d]
    BY <1>9 DEF CloseInv, TypeOK, Restored, Unlock
  <2>4. "change" \notin Callers /\ Callers \subseteq Closers /\ "change" \in Closers
    BY PortAssumption DEF Callers, Closers
  <2>5. /\ UNCHANGED <<run, at, changing>>
        /\ changing => overlap' = overlap
    BY <1>9 DEF Restored
  <2>6. \A d \in Callers : d # c => pc[d] # "restoring"
    BY <2>1 DEF CloseInv, Holds
  <2>7. Holds' /\ Entitled' /\ Apart' /\ Running'
    BY <2>1, <2>2, <2>3, <2>4, <2>5, <2>6
    DEF CloseInv, Holds, Entitled, Apart, Running
  <2>8. Cleared'
    <3>1. CASE changing
      BY <2>2, <2>5, <3>1 DEF CloseInv, Cleared
    <3>2. CASE ~changing
      <4>1. \A q \in Closers, s \in Servers : work'[q][s] = "none"
        BY <2>2, <2>4, <2>6, <3>2 DEF CloseInv, Entitled, Closers
      <4> QED
        BY <4>1 DEF Cleared
    <3> QED
      BY <3>1, <3>2
  <2> QED
    BY <2>7, <2>8
<1>10. ASSUME NEW p \in Closers, NEW s \in Servers, Reopen(p, s) PROVE Kept
  <2>1. PICK to \in {"marked", "closed", "listening", "open", "failed"} :
            /\ Advance(p, s, to)
            /\ work[p][s] # "none"
            /\ to = "closed" => ~run[s]
            /\ to = "listening" => work[p][s] = "closed"
            /\ IF to = "open" THEN run' = [run EXCEPT ![s] = TRUE] ELSE run' = run
    BY <1>10 DEF Reopen, Mark, Close, Listen, ListenFails, Open, MayOpen
  <2>2. UNCHANGED <<changing, at, mutex, pc, overlap>>
    BY <1>10 DEF Reopen, Mark, Close, Listen, ListenFails, Open
  <2>3. Entitled'
    BY <2>1, <2>2, EntitledAdvance
  <2>4. Running'
    BY <2>1, <2>2 DEF CloseInv, TypeOK, Running
  <2>5. Cleared'
    <3> SUFFICES ASSUME NEW q \in Closers, NEW t \in Servers, overlap # "present",
                        work'[q][t] \in {"closed", "listening"}
                 PROVE  ~run'[t]
      BY <2>2 DEF Cleared
    <3>1. work'[q][t] = IF q = p /\ t = s THEN to ELSE work[q][t]
      BY <2>1, AdvanceType DEF CloseInv
    <3>2. CASE q = p /\ t = s
      BY <2>1, <3>1, <3>2 DEF CloseInv, Cleared
    <3>3. CASE ~(q = p /\ t = s)
      <4>1. q = p
        BY <2>1, <3>1, <3>3, OneCloser
      <4> QED
        BY <2>1, <3>1, <3>3, <4>1 DEF CloseInv, TypeOK, Cleared
    <3> QED
      BY <3>2, <3>3
  <2> QED
    BY <2>2, <2>3, <2>4, <2>5 DEF CloseInv, Holds, Apart
<1>11. CASE Changed
  <2>1. \A q \in Closers, s \in Servers :
            work'[q][s] = IF q = "change" THEN "none" ELSE work[q][s]
    BY <1>11 DEF CloseInv, TypeOK, Changed, Closers, Idle
  <2>2. "change" \notin Callers /\ Callers \subseteq Closers /\ "change" \in Closers
    BY PortAssumption DEF Callers, Closers
  <2>3. /\ ~changing' /\ UNCHANGED <<run, at, mutex, pc>>
        /\ overlap' # overlap => \A c \in Callers : pc[c] # "restoring"
    BY <1>11 DEF Changed
  <2>4. Entitled'
    BY <2>1, <2>2, <2>3 DEF CloseInv, Entitled
  <2>5. Cleared'
    <3>1. CASE overlap' = overlap
      BY <2>1, <2>3, <3>1 DEF CloseInv, Cleared
    <3>2. CASE overlap' # overlap
      <4>1. \A q \in Closers, s \in Servers : work'[q][s] = "none"
        BY <2>1, <2>3, <3>2 DEF CloseInv, Entitled, Closers
      <4> QED
        BY <4>1 DEF Cleared
    <3> QED
      BY <3>1, <3>2
  <2> QED
    <3>1. Holds' /\ Apart'
      BY <2>3 DEF CloseInv, Holds, Apart
    <3>2. Running'
      BY <2>3 DEF CloseInv, Running
    <3> QED
      BY <1>0, <2>4, <2>5, <3>1, <3>2 DEF CloseInv
<1> QED
  BY <1>0, <1>1, <1>2, <1>3, <1>4, <1>5, <1>6, <1>7, <1>8, <1>9, <1>10, <1>11
  DEF Next, Step, ServerStep, Inside, CloseInv

\* No server's thread walks its list of sessions while another thread closes them,
\* but while a restore that met a change is under way with it; what the two leave
\* behind does not matter to the changes and restores after them.
THEOREM ClosedOnlyAlone == Spec => []ClosedAlone
<1>1. CloseInv => ClosedAlone
  BY DEF CloseInv, ClosedAlone, Running, Cleared
<1> QED
  BY <1>1, CloseInit, CloseStep, PTL DEF Spec

-----------------------------------------------------------------------------
(* The port in the end.  While a change is under way or being stored the   *)
(* servers head for the new ports, else for those in the database; a       *)
(* server that no closer has still to close is there already, or closed.   *)
(* After a meeting that is lost, and found again by a restore that begins  *)
(* when both are over, because a restore opens every server.               *)

Storing == \E c \in Callers : pc[c] = "storing"
Goal == IF changing \/ Storing THEN new ELSE cfg

\* No restore has met a change, or one that puts it right has begun.
Sound == \/ overlap = "none"
         \/ overlap = "past" /\ \E c \in Callers : pc[c] = "restoring"

\* A restore has put the defaults into the database.
DefaultStored == \A c \in Callers :
                     pc[c] = "restoring" => \A s \in Servers : cfg[s] = Default

\* A change that is stored has put its ports there.
Agree == overlap = "none" /\ changing /\ ~Storing => cfg = new

\* The socket of a server that has been closed is closed.
Emptied == overlap # "present" =>
               \A p \in Closers, s \in Servers :
                   work[p][s] \in {"closed", "failed"} => listen[s] = NONE

Heading == Sound =>
               \A s \in Servers :
                   (\A p \in Closers : work[p][s] \notin {"todo", "marked"})
                       => listen[s] \in {Goal[s], NONE}

PlaceInv == CloseInv /\ DefaultStored /\ Agree /\ Emptied /\ Heading

\* At the start every server listens where the database says.
LEMMA PlaceInit == Init => PlaceInv
<1> SUFFICES ASSUME Init PROVE PlaceInv
  OBVIOUS
<1>1. \A p \in Closers, s \in Servers : work[p][s] = "none"
  BY DEF Init, Idle
<1>2. \A c \in Callers : pc[c] = "idle"
  BY DEF Init
<1>3. ~Storing
  BY <1>2 DEF Storing
<1> QED
  BY <1>1, <1>2, <1>3, CloseInit
  DEF Init, PlaceInv, DefaultStored, Agree, Emptied, Heading, Goal

\* Nothing the port depends on changes.
LEMMA PlaceKept ==
    ASSUME PlaceInv, UNCHANGED <<cfg, new, changing, work, listen, overlap>>,
           Storing' = Storing,
           \A c \in Callers : pc'[c] = "restoring" => pc[c] = "restoring"
    PROVE  DefaultStored' /\ Agree' /\ Emptied' /\ Heading'
BY DEF PlaceInv, DefaultStored, Agree, Emptied, Heading, Goal, Sound

\* Who holds the mutex is the only one in the database.
LEMMA AloneInside ==
    ASSUME CloseInv, NEW c \in Callers, NEW d \in Callers,
           pc[c] \in {"inside", "storing", "restoring"},
           pc[d] \in {"inside", "storing", "restoring"}
    PROVE  c = d
BY DEF CloseInv, Holds

\* A closer that opens a server opens it where it is heading.
LEMMA TargetIsGoal ==
    ASSUME PlaceInv, overlap # "present",
           NEW p \in Closers, NEW s \in Servers, work[p][s] # "none"
    PROVE  Target(p, s) = Goal[s]
<1>1. CASE p = "change"
  BY <1>1 DEF PlaceInv, CloseInv, Entitled, Target, Goal
<1>2. CASE p \in Callers
  <2>1. p # "change"
    BY <1>2, PortAssumption DEF Callers
  <2>2. pc[p] = "restoring" /\ ~changing
    BY <1>2 DEF PlaceInv, CloseInv, Entitled, Apart
  <2>3. ~Storing
    BY <1>2, <2>2, AloneInside DEF PlaceInv, Storing
  <2> QED
    BY <1>2, <2>1, <2>2, <2>3 DEF PlaceInv, DefaultStored, Target, Goal
<1> QED
  BY <1>1, <1>2 DEF Closers

\* Reopening a server keeps the way it is heading.
LEMMA PlaceReopen ==
    ASSUME PlaceInv, NEW p \in Closers, NEW s \in Servers, Reopen(p, s)
    PROVE  DefaultStored' /\ Agree' /\ Emptied' /\ Heading'
<1> USE DEF store, flags, sockets, calls
<1>1. UNCHANGED <<cfg, new, changing, pc, overlap>>
  BY DEF Reopen, Mark, Close, Listen, ListenFails, Open
<1>2. Goal' = Goal /\ Sound' = Sound
  BY <1>1 DEF Goal, Storing, Sound
<1>3. DefaultStored' /\ Agree'
  BY <1>1 DEF PlaceInv, DefaultStored, Agree, Storing
<1>4. CASE overlap = "present"
  BY <1>1, <1>3, <1>4 DEF Emptied, Heading, Sound
<1>5. CASE overlap # "present"
  <2>1. PICK to \in {"marked", "closed", "listening", "open", "failed"} :
            /\ Advance(p, s, to)
            /\ work[p][s] # "none"
            /\ to = "marked" => work[p][s] = "todo"
            /\ to = "failed" => work[p][s] = "closed"
            /\ to = "open" => work[p][s] = "listening"
            /\ listen' = CASE to = "closed" -> [listen EXCEPT ![s] = NONE]
                            [] to = "listening" -> [listen EXCEPT ![s] = Target(p, s)]
                            [] OTHER -> listen
    BY DEF Reopen, Mark, Close, Listen, ListenFails, Open, MayOpen
  <2>2. /\ \A q \in Closers, t \in Servers :
              work'[q][t] = IF q = p /\ t = s THEN to ELSE work[q][t]
        /\ \A q \in Closers, t \in Servers : q # p => work[q][t] = "none"
    BY <1>5, <2>1, AdvanceType, OneCloser DEF PlaceInv, CloseInv
  <2>3. Target(p, s) = Goal[s]
    BY <1>5, <2>1, TargetIsGoal
  <2>4. /\ \A t \in Servers : t # s => listen'[t] = listen[t]
        /\ to = "closed" => listen'[s] = NONE
        /\ to = "listening" => listen'[s] = Goal[s]
        /\ to \notin {"closed", "listening"} => listen'[s] = listen[s]
    BY <2>1, <2>3 DEF PlaceInv, CloseInv, TypeOK
  <2>5. Emptied'
    <3> SUFFICES ASSUME NEW q \in Closers, NEW t \in Servers,
                        work'[q][t] \in {"closed", "failed"}
                 PROVE  listen'[t] = NONE
      BY DEF Emptied
    <3>1. q = p
      BY <2>2
    <3> QED
      BY <1>5, <2>1, <2>2, <2>4, <3>1 DEF PlaceInv, Emptied
  <2>6. Heading'
    <3> SUFFICES ASSUME Sound, NEW t \in Servers,
                        \A q \in Closers : work'[q][t] \notin {"todo", "marked"}
                 PROVE  listen'[t] \in {Goal[t], NONE}
      BY <1>2 DEF Heading
    <3>1. CASE t # s
      BY <2>2, <2>4, <3>1 DEF PlaceInv, Heading
    <3>2. CASE t = s /\ to \in {"closed", "listening"}
      BY <2>4, <3>2
    <3>3. CASE t = s /\ to = "failed"
      BY <1>5, <2>1, <2>4, <3>3 DEF PlaceInv, Emptied
    <3>4. CASE t = s /\ to = "open"
      BY <2>1, <2>2, <2>4, <3>4 DEF PlaceInv, Heading
    <3>5. to # "marked" \/ t # s
      BY <2>2
    <3> QED
      BY <3>1, <3>2, <3>3, <3>4, <3>5
  <2> QED
    BY <1>3, <2>5, <2>6
<1> QED
  BY <1>4, <1>5

\* Each step keeps the way the servers are heading.
LEMMA PlaceStep ==
    ASSUME PlaceInv, [Next]_vars
    PROVE  PlaceInv'
<1> USE DEF store, flags, sockets, calls
<1> DEFINE Kept == DefaultStored' /\ Agree' /\ Emptied' /\ Heading'
<1>0. CloseInv'
  BY CloseStep DEF PlaceInv
<1>1. ASSUME UNCHANGED vars PROVE Kept
  BY <1>1, PlaceKept DEF vars, Storing
<1>2. ASSUME NEW s \in Servers, ServerStep(s) PROVE Kept
  BY <1>2, PlaceKept DEF ServerStep, ReadSocket, Enter, Leave, ClearRun, Turn, Storing
<1>3. ASSUME SelectFails PROVE Kept
  BY <1>3, PlaceKept DEF SelectFails, Storing
<1>4. ASSUME NEW c \in Callers, Ask(c) \/ Lock(c) \/ Return(c) PROVE Kept
  <2>1. PICK to \in {"idle", "waiting", "inside"} :
            /\ pc' = [pc EXCEPT ![c] = to]
            /\ pc[c] \in {"idle", "waiting", "inside"}
            /\ UNCHANGED <<cfg, new, changing, work, listen, overlap>>
    BY <1>4 DEF Ask, Lock, Return, Unlock
  <2>2. \A d \in Callers : pc'[d] = IF d = c THEN to ELSE pc[d]
    BY <2>1 DEF PlaceInv, CloseInv, TypeOK
  <2>3. Storing' = Storing
    BY <2>1, <2>2 DEF Storing
  <2> QED
    BY <2>1, <2>2, <2>3, PlaceKept
<1>5. ASSUME NEW c \in Callers, Set(c) PROVE Kept
  <2>1. ~changing /\ ~Storing /\ Goal = cfg
    BY <1>5, AloneInside DEF PlaceInv, Set, Storing, Goal
  <2>2. \A d \in Callers : pc[d] # "restoring"
    BY <1>5, AloneInside DEF PlaceInv, Set
  <2>3. \A q \in Closers, s \in Servers : work[q][s] = "none"
    BY <2>1, <2>2 DEF PlaceInv, CloseInv, Entitled, Closers
  <2>4. \A d \in Callers : pc'[d] = IF d = c THEN "storing" ELSE pc[d]
    BY <1>5 DEF PlaceInv, CloseInv, TypeOK, Set
  <2>5. Storing'
    BY <2>4 DEF Storing
  <2>6. PICK p \in [Servers -> Ports] :
            /\ new' = p
            /\ work' = [work EXCEPT !["change"] =
                    [s \in Servers |-> IF p[s] = cfg[s] THEN "none" ELSE "todo"]]
    BY <1>5 DEF Set
  <2>7. \A s \in Servers : work'["change"][s] = IF p[s] = cfg[s] THEN "none" ELSE "todo"
    BY <2>6 DEF PlaceInv, CloseInv, TypeOK, Closers
  <2>8. \A q \in Closers, s \in Servers : work'[q][s] \in {"none", "todo"}
    <3>1. \A q \in Closers : q # "change" => work'[q] = work[q]
      BY <2>6 DEF PlaceInv, CloseInv, TypeOK
    <3> QED
      BY <2>3, <2>7, <3>1
  <2>9. Goal' = p /\ UNCHANGED <<listen, overlap>>
    BY <1>5, <2>5, <2>6 DEF Goal, Set
  <2>10. Heading'
    <3> SUFFICES ASSUME Sound', NEW s \in Servers,
                        \A q \in Closers : work'[q][s] \notin {"todo", "marked"}
                 PROVE  listen[s] \in {p[s], NONE}
      BY <2>9 DEF Heading
    <3>0. Sound
      BY <2>2, <2>4, <2>9 DEF Sound
    <3>1. p[s] = cfg[s]
      BY <2>7 DEF Closers
    <3> QED
      BY <2>1, <2>3, <3>0, <3>1 DEF PlaceInv, Heading
  <2> QED
    BY <2>2, <2>4, <2>5, <2>8, <2>10 DEF DefaultStored, Agree, Emptied
<1>6. ASSUME NEW c \in Callers, Stored(c) PROVE Kept
  <2>1. \A d \in Callers : pc'[d] = IF d = c THEN "idle" ELSE pc[d]
    BY <1>6 DEF PlaceInv, CloseInv, TypeOK, Stored, Unlock
  <2>2. \A d \in Callers : pc'[d] \notin {"storing", "restoring"}
    BY <1>6, <2>1, AloneInside DEF PlaceInv, Stored
  <2>3. Storing /\ ~Storing'
    BY <1>6, <2>2 DEF Storing, Stored
  <2>4. cfg' = new /\ UNCHANGED <<new, changing, work, listen, overlap>>
    BY <1>6 DEF Stored
  <2>5. Goal' = Goal /\ (Sound' => Sound)
    BY <2>2, <2>3, <2>4 DEF Goal, Sound
  <2> QED
    BY <2>2, <2>4, <2>5 DEF PlaceInv, DefaultStored, Agree, Emptied, Heading
<1>7. ASSUME NEW c \in Callers, Restore(c) PROVE Kept
  <2>1. UNCHANGED changing /\ overlap' = IF changing THEN "present" ELSE overlap
    BY <1>7 DEF Restore
  <2>2. \A q \in Closers, s \in Servers :
            work'[q][s] = IF q = c THEN "marked" ELSE work[q][s]
    BY <1>7 DEF PlaceInv, CloseInv, TypeOK, Restore, Closers
  <2>3. \A s \in Servers : cfg'[s] = Default
    BY <1>7 DEF Restore
  <2>4. CASE changing
    BY <2>1, <2>3, <2>4 DEF DefaultStored, Agree, Emptied, Heading, Sound
  <2>5. CASE ~changing
    <3>1. \A q \in Closers, s \in Servers : work[q][s] = "none"
      BY <1>7, <2>5, AloneInside DEF PlaceInv, CloseInv, Entitled, Closers, Restore
    <3> QED
      BY <2>1, <2>2, <2>3, <2>5, <3>1
      DEF DefaultStored, Agree, Emptied, Heading, Closers
  <2> QED
    BY <2>4, <2>5
<1>8. ASSUME NEW c \in Callers, Restored(c) PROVE Kept
  <2>1. \A q \in Closers, s \in Servers :
            work'[q][s] = IF q = c THEN "none" ELSE work[q][s]
    BY <1>8 DEF PlaceInv, CloseInv, TypeOK, Restored, Closers, Idle
  <2>2. \A d \in Callers : pc'[d] = IF d = c THEN "idle" ELSE pc[d]
    BY <1>8 DEF PlaceInv, CloseInv, TypeOK, Restored, Unlock
  <2>3. UNCHANGED <<cfg, new, changing, listen>>
    BY <1>8 DEF Restored
  <2>4. Storing' = Storing
    BY <1>8, <2>2 DEF Storing, Restored
  <2>5. Goal' = Goal
    BY <2>3, <2>4 DEF Goal
  <2>6. \A s \in Servers : work[c][s] \notin {"todo", "marked"}
    BY <1>8 DEF Restored
  <2>7. /\ pc[c] = "restoring"
        /\ \A d \in Callers : pc'[d] # "restoring"
    <3>1. pc[c] = "restoring"
      BY <1>8 DEF Restored
    <3>2. \A d \in Callers : d # c => pc[d] # "restoring"
      BY <3>1, AloneInside DEF PlaceInv
    <3> QED
      BY <2>2, <3>1, <3>2
  <2>8. overlap' = CASE changing -> overlap
                     [] ~changing /\ overlap = "present" -> "past"
                     [] OTHER -> "none"
    BY <1>8 DEF Restored
  <2>9. overlap \in {"none", "present", "past"}
    BY DEF PlaceInv, CloseInv, TypeOK
  <2>10. Emptied'
    <3>1. CASE changing
      BY <2>1, <2>3, <2>8, <3>1 DEF PlaceInv, Emptied
    <3>2. CASE ~changing
      <4>1. \A q \in Closers, s \in Servers : work'[q][s] = "none"
        BY <2>1, <2>2, <2>7, <3>2 DEF PlaceInv, CloseInv, Entitled, Closers
      <4> QED
        BY <4>1 DEF Emptied
    <3> QED
      BY <3>1, <3>2
  <2>11. Sound' => Sound
    BY <2>7, <2>8, <2>9 DEF Sound
  <2>12. Heading'
    BY <2>1, <2>3, <2>5, <2>6, <2>11 DEF PlaceInv, Heading
  <2>13. Agree'
    <3>1. CASE changing
      BY <2>3, <2>4, <2>8, <3>1 DEF PlaceInv, Agree
    <3>2. CASE ~changing
      BY <2>3, <3>2 DEF Agree
    <3> QED
      BY <3>1, <3>2
  <2> QED
    BY <2>7, <2>10, <2>12, <2>13 DEF DefaultStored
<1>9. ASSUME NEW p \in Closers, NEW s \in Servers, Reopen(p, s) PROVE Kept
  BY <1>9, PlaceReopen
<1>10. ASSUME Changed PROVE Kept
  <2>1. \A q \in Closers, s \in Servers :
            work'[q][s] = IF q = "change" THEN "none" ELSE work[q][s]
    BY <1>10 DEF PlaceInv, CloseInv, TypeOK, Changed, Closers, Idle
  <2>2. /\ changing /\ ~changing' /\ UNCHANGED <<cfg, pc, listen>>
        /\ new' = IF Storing THEN new ELSE cfg
        /\ overlap' = IF overlap = "present" /\ \A c \in Callers : pc[c] # "restoring"
                      THEN "past" ELSE overlap
    BY <1>10 DEF Changed, Storing
  <2>3. \A s \in Servers : work["change"][s] \notin {"todo", "marked"}
    BY <1>10 DEF Changed
  <2>4. Sound' => overlap = "none"
    BY <2>2 DEF PlaceInv, CloseInv, Apart, Sound
  <2>5. overlap = "none" => Sound /\ Goal' = Goal
    BY <2>2 DEF PlaceInv, Agree, Goal, Storing, Sound
  <2>6. Heading'
    BY <2>1, <2>2, <2>3, <2>4, <2>5 DEF PlaceInv, Heading
  <2>7. Emptied'
    <3>1. CASE overlap' = overlap
      BY <2>1, <2>2, <3>1 DEF PlaceInv, Emptied
    <3>2. CASE overlap' # overlap
      <4>1. \A q \in Closers, s \in Servers : work'[q][s] = "none"
        BY <2>1, <2>2, <3>2 DEF PlaceInv, CloseInv, Entitled, Closers
      <4> QED
        BY <4>1 DEF Emptied
    <3> QED
      BY <3>1, <3>2
  <2>8. DefaultStored' /\ Agree'
    BY <2>2 DEF PlaceInv, DefaultStored, Agree
  <2> QED
    BY <2>6, <2>7, <2>8
<1> QED
  BY <1>0, <1>1, <1>2, <1>3, <1>4, <1>5, <1>6, <1>7, <1>8, <1>9, <1>10
  DEF Next, Step, Inside, PlaceInv

\* The servers listen where the database says whenever no change is under way and
\* nobody is in the database, but from the meeting of a restore and a change to
\* the end of the next restore that meets none.
THEOREM ListensAtStoredPort == Spec => []ListensWhereStored
<1>1. PlaceInv => ListensWhereStored
  <2> SUFFICES ASSUME PlaceInv, overlap = "none", ~changing, mutex = NONE,
                      NEW s \in Servers
               PROVE  listen[s] \in {cfg[s], NONE}
    BY DEF ListensWhereStored
  <2>1. \A c \in Callers : pc[c] \notin {"inside", "storing", "restoring"}
    <3>1. NONE \notin Callers
      BY PortAssumption DEF Callers
    <3> QED
      BY <3>1 DEF PlaceInv, CloseInv, Holds
  <2>2. \A p \in Closers : work[p][s] = "none"
    BY <2>1 DEF PlaceInv, CloseInv, Entitled, Closers
  <2>3. Goal = cfg
    BY <2>1 DEF Goal, Storing
  <2> QED
    BY <2>2, <2>3 DEF PlaceInv, Heading, Sound
<1> QED
  BY <1>1, PlaceInit, PlaceStep, PTL DEF Spec
=============================================================================
