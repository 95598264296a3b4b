-------------------------- MODULE PteClientProofs --------------------------
(***************************************************************************)
(* For any number of users, cameras and clients, whose counts are read and *)
(* written with nothing to protect them: a count is right unless two users *)
(* changed it at the same time, and too low only after a lost increment;   *)
(* else a client that is used stays in the list; no camera has two; and    *)
(* the clients implement ClientPool.  A client that passes for logged in   *)
(* is, and no socket is lost or closed twice.                              *)
(***************************************************************************)
EXTENDS PteClient, CountingLemmas

-----------------------------------------------------------------------------
(* Types.                                                                  *)

\* Taking the first message off a queue leaves a queue.
LEMMA TailType ==
    ASSUME NEW S, NEW q \in [Clients -> Seq(S)], NEW c \in Clients, q[c] # <<>>
    PROVE  [q EXCEPT ![c] = Tail(@)] \in [Clients -> Seq(S)]
<1>1. Tail(q[c]) \in Seq(S)
  OBVIOUS
<1> QED
  BY <1>1

\* Adding a message to a queue leaves a queue.
LEMMA AppendType ==
    ASSUME NEW S, NEW q \in [Clients -> Seq(S)], NEW c \in Clients, NEW m \in S
    PROVE  [q EXCEPT ![c] = Append(@, m)] \in [Clients -> Seq(S)]
<1>1. Append(q[c], m) \in Seq(S)
  OBVIOUS
<1> QED
  BY <1>1

\* A new socket has empty queues.
LEMMA SocketType ==
    ASSUME TypeOK, NEW c \in Clients, NEW l \in {"none", "opening"}, Socket(c, l)
    PROVE  /\ link' \in [Clients -> {"none", "opening", "up", "down"}]
           /\ fds' \in Int
           /\ ask' \in [Clients -> Seq({"serial", "login", "beat"})]
           /\ box' \in [Clients -> Seq({"ok", "refused"})]
           /\ auth' \in [Clients -> BOOLEAN]
<1>1. Open(c) \in Int
  BY DEF Open
<1>2. fds' \in Int
  BY <1>1 DEF Socket, TypeOK
<1>3. <<>> \in Seq({"serial", "login", "beat"}) /\ <<>> \in Seq({"ok", "refused"})
  OBVIOUS
<1> QED
  BY <1>2, <1>3 DEF Socket, TypeOK

\* Who has passed PC_AddCmdClient has a client until it is dropped.
Pointed == \A u \in Users : (ptr[u] = NONE) <=> (pc[u] \in {"out", "lookup"})

TypeInv == TypeOK /\ Pointed

\* A user changes its own variables and the count of its client.
LEMMA UserType ==
    ASSUME TypeInv, NEW u \in Users, UserStep(u)
    PROVE  TypeInv'
<1> USE PteAssumption DEF TypeInv, TypeOK, Pointed, machine, conn, wire, loop, clients
<1>1. CASE LoginFirst(u)
  BY <1>1 DEF LoginFirst
<1>2. CASE Leave(u)
  <2>1. ref[ptr[u]] \in Int
    <3>1. pc[u] = "using"
      BY <1>2 DEF Leave
    <3>2. ptr[u] \in Clients
      BY <3>1
    <3> QED
      BY <3>2
  <2>2. PICK k \in Cams \cup {NONE} : want' = [want EXCEPT ![u] = k]
    BY <1>2 DEF Leave
  <2> QED
    BY <1>2, <2>1, <2>2 DEF Leave
<1>3. CASE Drop(u)
  <2>1. ptr[u] \in Clients
    BY <1>3 DEF Drop
  <2>2. reg[u] - 1 \in Int
    OBVIOUS
  <2>3. ref' \in [Clients -> Int]
    BY <1>3, <2>1, <2>2 DEF Drop
  <2> QED
    BY <1>3, <2>3 DEF Drop
<1>4. CASE Lookup(u)
  <2>1. PICK c \in Clients : (Found(u, c) \/ Created(u, c)) /\ ptr' = [ptr EXCEPT ![u] = c]
    BY <1>4 DEF Lookup
  <2>2. /\ list' \subseteq Clients
        /\ cam' \in [Clients -> Cams \cup {NONE}]
        /\ ref' \in [Clients -> Int]
        /\ reg' \in [Users -> Int]
        /\ tear' \in [Clients -> {"none", "high", "low"}]
    <3>1. CASE Found(u, c)
      BY <3>1 DEF Found
    <3>2. CASE Created(u, c)
      <4>1. list' \subseteq Clients /\ cam' \in [Clients -> Cams \cup {NONE}]
        BY <3>2 DEF Created
      <4>2. ref' \in [Clients -> Int] /\ reg' \in [Users -> Int]
        BY <3>2 DEF Created
      <4>3. tear' \in [Clients -> {"none", "high", "low"}]
        BY <3>2 DEF Created, Forgive
      <4> QED
        BY <4>1, <4>2, <4>3
    <3> QED
      BY <2>1, <3>1, <3>2
  <2> QED
    BY <1>4, <2>1, <2>2 DEF Lookup
<1>5. CASE LookupFails(u)
  BY <1>5 DEF LookupFails
<1>6. CASE Retain(u)
  <2>1. ptr[u] \in Clients
    BY <1>6 DEF Retain
  <2>2. reg[u] + 1 \in Int
    OBVIOUS
  <2>3. ref' \in [Clients -> Int]
    BY <1>6, <2>1, <2>2 DEF Retain
  <2> QED
    BY <1>6, <2>3 DEF Retain
<1> QED
  BY <1>1, <1>2, <1>3, <1>4, <1>5, <1>6 DEF UserStep

\* The first pass keeps the types.
LEMMA FirstPassType ==
    ASSUME TypeOK, NEW c \in Clients, FirstPass(c)
    PROVE  TypeOK'
<1> USE DEF Visit, Serve, Watch, GoTo, machine, conn, wire, users, clients, Logged
<1>0. faults + 1 \in 0 .. MaxFaults \/ ~(faults < MaxFaults)
  BY PteAssumption DEF TypeOK
<1>1. CASE Remove(c)
  <2>1. tear' \in [Clients -> {"none", "high", "low"}]
    BY <1>1 DEF Remove, Forgive, TypeOK
  <2>2. /\ link' \in [Clients -> {"none", "opening", "up", "down"}]
        /\ fds' \in Int
        /\ ask' \in [Clients -> Seq({"serial", "login", "beat"})]
        /\ box' \in [Clients -> Seq({"ok", "refused"})]
        /\ auth' \in [Clients -> BOOLEAN]
    BY <1>1, SocketType DEF Remove
  <2>3. /\ list' \subseteq Clients /\ todo' \subseteq Clients
        /\ cam' \in [Clients -> Cams \cup {NONE}]
        /\ ref' \in [Clients -> Int]
        /\ step' \in [Clients -> 0 .. 3]
    BY <1>1 DEF Remove, TypeOK
  <2> QED
    BY <1>1, <2>1, <2>2, <2>3 DEF Remove, TypeOK
<1>2. CASE Dial(c)
  BY <1>2, SocketType DEF Dial, TypeOK
<1>3. CASE DialFails(c)
  BY <1>0, <1>3, SocketType DEF DialFails, Fault, TypeOK
<1>4. CASE ConnectLate(c)
  BY <1>4, SocketType DEF ConnectLate, TypeOK
<1>5. CASE AnswerLate(c)
  BY <1>5 DEF AnswerLate, TypeOK
<1>6. CASE Wait(c)
  BY <1>6 DEF Wait, TypeOK
<1>7. CASE SendLogin(c)
  <2>1. PICK m \in {"serial", "login", "beat"} : Send(c, m)
    BY <1>7 DEF SendLogin
  <2>2. ask' \in [Clients -> Seq({"serial", "login", "beat"})]
    BY <2>1, AppendType DEF Send, TypeOK
  <2>3. UNCHANGED <<link, box, auth, fds, faults>>
    BY <2>1 DEF Send
  <2>4. step' \in [Clients -> 0 .. 3]
    BY <1>7 DEF SendLogin, TypeOK
  <2> QED
    BY <1>7, <2>2, <2>3, <2>4 DEF SendLogin, TypeOK
<1>8. CASE SendLoginFails(c)
  BY <1>8 DEF SendLoginFails, SendFails, TypeOK
<1>9. CASE HeartbeatDue(c)
  BY <1>9 DEF HeartbeatDue, TypeOK
<1>10. CASE SendHeartbeat(c)
  <2>1. ask' \in [Clients -> Seq({"serial", "login", "beat"})]
    BY <1>10, AppendType DEF SendHeartbeat, Send, TypeOK
  <2> QED
    BY <1>10, <2>1 DEF SendHeartbeat, Send, TypeOK
<1>11. CASE SendHeartbeatFails(c)
  BY <1>11 DEF SendHeartbeatFails, SendFails, TypeOK
<1>12. CASE Retry(c)
  BY <1>12 DEF Retry, TypeOK
<1> QED
  BY <1>1, <1>2, <1>3, <1>4, <1>5, <1>6, <1>7, <1>8, <1>9, <1>10, <1>11, <1>12
     DEF FirstPass

\* The second pass keeps the types.
LEMMA SecondPassType ==
    ASSUME TypeOK, NEW c \in Clients, SecondPass(c)
    PROVE  TypeOK'
<1> USE DEF Handle, GoTo, machine, conn, wire, users, clients, Logged
<1>0. ASSUME Receive(c)
      PROVE  /\ box' \in [Clients -> Seq({"ok", "refused"})]
             /\ UNCHANGED <<ask, auth, link, fds>>
  BY <1>0, TailType DEF Receive, TypeOK
<1>1. CASE Connected(c)
  BY <1>1 DEF Connected, TypeOK
<1>2. CASE ReadSerial(c)
  BY <1>0, <1>2 DEF ReadSerial, TypeOK
<1>3. CASE ReadLogin(c)
  <2>1. state' \in [Clients -> Logged \cup {"INIT", "CONNECTING", "CONNECTED", "FAILED"}]
    BY <1>3 DEF ReadLogin, TypeOK
  <2> QED
    BY <1>0, <1>3, <2>1 DEF ReadLogin, TypeOK
<1>4. CASE ReciveHeartbeat(c)
  BY <1>0, <1>4 DEF ReciveHeartbeat, TypeOK
<1>5. CASE Ignore(c)
  BY <1>0, <1>5 DEF Ignore, TypeOK
<1>6. CASE ReceiveFails(c)
  BY <1>6 DEF ReceiveFails, TypeOK
<1> QED
  BY <1>1, <1>2, <1>3, <1>4, <1>5, <1>6 DEF SecondPass

\* What the loop does for no client in particular.
LoopTurn == LoopLock \/ LoopUnlock \/ SelectTimesOut \/ Select \/ StepDone

LEMMA LoopTurnType ==
    ASSUME TypeOK, LoopTurn
    PROVE  TypeOK'
<1> USE DEF TypeOK, machine, conn, wire, users, clients
<1>1. CASE LoopLock
  BY <1>1 DEF LoopLock
<1>2. CASE LoopUnlock
  BY <1>2 DEF LoopUnlock
<1>3. CASE SelectTimesOut
  BY <1>3 DEF SelectTimesOut
<1>4. CASE Select
  BY <1>4 DEF Select
<1>5. CASE StepDone
  BY <1>5 DEF StepDone
<1> QED
  BY <1>1, <1>2, <1>3, <1>4, <1>5 DEF LoopTurn

\* Cameras, network and clock keep the types.
LEMMA WorldType ==
    ASSUME TypeOK, NEW c \in Clients, World(c)
    PROVE  TypeOK'
<1> USE DEF machine, wire, users, loop, clients
<1>0. faults + 1 \in 0 .. MaxFaults \/ ~(faults < MaxFaults)
  BY PteAssumption DEF TypeOK
<1>1. CASE Accept(c)
  BY <1>1 DEF Accept, TypeOK
<1>2. CASE Event(c)
  <2>1. box' \in [Clients -> Seq({"ok", "refused"})]
    BY <1>2, AppendType DEF Event, TypeOK
  <2> QED
    BY <1>2, <2>1 DEF Event, TypeOK
<1>3. CASE Lost(c)
  <2>1. <<>> \in Seq({"serial", "login", "beat"}) /\ <<>> \in Seq({"ok", "refused"})
    OBVIOUS
  <2> QED
    BY <1>0, <1>3, <2>1 DEF Lost, Fault, TypeOK
<1>4. CASE Expire(c)
  BY <1>0, <1>4 DEF Expire, Fault, TypeOK, conn
<1>5. ASSUME NEW r \in {"ok", "refused"}, Answer(c, r)
      PROVE  TypeOK'
  <2>1. box' \in [Clients -> Seq({"ok", "refused"})]
    BY <1>5, AppendType DEF Answer, TypeOK
  <2>2. ask' \in [Clients -> Seq({"serial", "login", "beat"})]
    BY <1>5, TailType DEF Answer, TypeOK
  <2>3. auth' \in [Clients -> BOOLEAN]
    BY <1>5 DEF Answer, TypeOK
  <2>4. faults' \in 0 .. MaxFaults
    BY <1>0, <1>5 DEF Answer, Fault, TypeOK
  <2> QED
    BY <1>5, <2>1, <2>2, <2>3, <2>4 DEF Answer, TypeOK
<1> QED
  BY <1>1, <1>2, <1>3, <1>4, <1>5 DEF World

LEMMA TypeInit == Init => TypeInv
<1>1. <<>> \in Seq({"serial", "login", "beat"}) /\ <<>> \in Seq({"ok", "refused"})
  OBVIOUS
<1> QED
  BY <1>1, PteAssumption DEF Init, TypeInv, TypeOK, Pointed

\* Only users move pointers.
LEMMA UsersOnly ==
    ASSUME SingleStep \/ \E c \in Clients : World(c)
    PROVE  UNCHANGED <<pc, ptr>>
<1> USE DEF users
<1>1. CASE LoopTurn
  BY <1>1 DEF LoopTurn, LoopLock, LoopUnlock, SelectTimesOut, Select, StepDone
<1>2. ASSUME NEW c \in Clients, FirstPass(c)
      PROVE  UNCHANGED <<pc, ptr>>
  BY <1>2 DEF FirstPass, Remove, Dial, DialFails, ConnectLate, AnswerLate, Wait,
              SendLogin, SendLoginFails, HeartbeatDue, SendHeartbeat,
              SendHeartbeatFails, Retry, Serve, Visit
<1>3. ASSUME NEW c \in Clients, SecondPass(c)
      PROVE  UNCHANGED <<pc, ptr>>
  BY <1>3 DEF SecondPass, Connected, ReadSerial, ReadLogin, ReciveHeartbeat,
              Ignore, ReceiveFails, Handle
<1>4. ASSUME NEW c \in Clients, World(c)
      PROVE  UNCHANGED <<pc, ptr>>
  BY <1>4 DEF World, Accept, Event, Lost, Expire, Answer
<1> QED
  BY <1>1, <1>2, <1>3, <1>4 DEF SingleStep, LoopTurn

LEMMA TypeStep == TypeInv /\ [Next]_vars => TypeInv'
<1> SUFFICES ASSUME TypeInv, [Next]_vars
             PROVE  TypeInv'
  OBVIOUS
<1>1. CASE UNCHANGED vars
  BY <1>1 DEF vars, machine, conn, wire, users, loop, clients, TypeInv, TypeOK, Pointed
<1>2. ASSUME NEW u \in Users, UserStep(u)
      PROVE  TypeInv'
  BY <1>2, UserType
<1>3. CASE SingleStep
  <2>1. TypeOK'
    BY <1>3, LoopTurnType, FirstPassType, SecondPassType DEF SingleStep, LoopTurn, TypeInv
  <2> QED
    BY <1>3, <2>1, UsersOnly DEF TypeInv, Pointed
<1>4. ASSUME NEW c \in Clients, World(c)
      PROVE  TypeInv'
  <2>1. TypeOK'
    BY <1>4, WorldType DEF TypeInv
  <2> QED
    BY <1>4, <2>1, UsersOnly DEF TypeInv, Pointed
<1> QED
  BY <1>1, <1>2, <1>3, <1>4 DEF Next

\* The variables of pteClient.c keep their types.
THEOREM TypeCorrect == Spec => []TypeOK
<1>1. Init => TypeInv
  BY TypeInit
<1>2. TypeInv /\ [Next]_vars => TypeInv'
  BY TypeStep
<1>3. TypeInv => TypeOK
  BY DEF TypeInv
<1> QED
  BY <1>1, <1>2, <1>3, PTL DEF Spec
-----------------------------------------------------------------------------
(* The login.  What a connection may hold depends on how far the login on  *)
(* it is: nothing before a request, one reply to the one request, and      *)
(* nothing unasked until the camera has accepted.                          *)

Quiet(c) == ask[c] = <<>> /\ box[c] = <<>> /\ ~auth[c]

Talk(c) ==
    /\ state[c] = "CONNECTING" => Quiet(c)
    /\ state[c] = "CONNECTED" /\ step[c] \in {0, 2} => Quiet(c)
    /\ state[c] = "CONNECTED" /\ step[c] = 1 =>
           /\ ~auth[c]
           /\ \/ ask[c] = <<>> /\ box[c] \in {<<>>, <<"ok">>}
              \/ ask[c] = <<"serial">> /\ box[c] = <<>>
    /\ state[c] = "CONNECTED" /\ step[c] = 3 =>
           \/ auth[c]
           \/ ask[c] = <<>> /\ box[c] \in {<<>>, <<"refused">>}
           \/ ask[c] = <<"login">> /\ box[c] = <<>>
    /\ state[c] \in Logged => auth[c]

LoginInv == TypeInv /\ \A c \in Clients : Talk(c)

\* A message on an empty queue, and the queue when it is taken.
LEMMA OneMessage ==
    /\ \A m : Append(<<>>, m) = <<m>>
    /\ \A m : Head(<<m>>) = m
    /\ \A m : Tail(<<m>>) = <<>>
OBVIOUS

\* A step that leaves a client's state and its connection alone.
LEMMA TalkSame ==
    ASSUME NEW c \in Clients, Talk(c),
           state'[c] = state[c], step'[c] = step[c],
           ask'[c] = ask[c], box'[c] = box[c], auth'[c] = auth[c]
    PROVE  Talk(c)'
BY DEF Talk, Quiet

\* The first pass: a request is sent on a quiet connection.
LEMMA FirstPassTalk ==
    ASSUME TypeOK, NEW c \in Clients, Talk(c), FirstPass(c)
    PROVE  Talk(c)'
<1> USE DEF Talk, Quiet, Serve, Visit, GoTo, Logged, TypeOK, conn, wire
<1>1. CASE Remove(c)
  BY <1>1 DEF Remove
<1>2. CASE Dial(c)
  BY <1>2 DEF Dial, Socket
<1>3. CASE DialFails(c)
  BY <1>3 DEF DialFails
<1>4. CASE ConnectLate(c)
  BY <1>4 DEF ConnectLate
<1>5. CASE AnswerLate(c)
  BY <1>5 DEF AnswerLate
<1>6. CASE Wait(c)
  BY <1>6 DEF Wait, machine
<1>7. CASE SendLogin(c)
  <2>1. Quiet(c) /\ state'[c] = "CONNECTED" /\ box'[c] = <<>> /\ ~auth'[c]
    BY <1>7 DEF SendLogin, Send
  <2>2. CASE step[c] = 0
    <3>1. ask'[c] \in {<<>>, Append(<<>>, "serial")}
      BY <1>7, <2>1, <2>2 DEF SendLogin, Send
    <3> QED
      BY <1>7, <2>1, <2>2, <3>1, OneMessage DEF SendLogin
  <2>3. CASE step[c] = 2
    <3>1. ask'[c] \in {<<>>, Append(<<>>, "login")}
      BY <1>7, <2>1, <2>3 DEF SendLogin, Send
    <3> QED
      BY <1>7, <2>1, <2>3, <3>1, OneMessage DEF SendLogin
  <2> QED
    BY <1>7, <2>2, <2>3 DEF SendLogin
<1>8. CASE SendLoginFails(c)
  BY <1>8 DEF SendLoginFails
<1>9. CASE HeartbeatDue(c)
  BY <1>9 DEF HeartbeatDue
<1>10. CASE SendHeartbeat(c)
  BY <1>10 DEF SendHeartbeat, Send
<1>11. CASE SendHeartbeatFails(c)
  BY <1>11 DEF SendHeartbeatFails
<1>12. CASE Retry(c)
  BY <1>12 DEF Retry
<1> QED
  BY <1>1, <1>2, <1>3, <1>4, <1>5, <1>6, <1>7, <1>8, <1>9, <1>10, <1>11, <1>12
     DEF FirstPass

\* The second pass: the one reply is taken.
LEMMA SecondPassTalk ==
    ASSUME TypeOK, NEW c \in Clients, Talk(c), SecondPass(c)
    PROVE  Talk(c)'
<1> USE DEF Talk, Quiet, Handle, GoTo, Logged, TypeOK, conn, wire
<1>1. CASE Connected(c)
  BY <1>1 DEF Connected
<1>2. CASE ReadSerial(c)
  <2>1. box[c] = <<"ok">> /\ ask[c] = <<>> /\ ~auth[c]
    BY <1>2 DEF ReadSerial, Receive
  <2>2. box'[c] = Tail(<<"ok">>)
    BY <1>2, <2>1 DEF ReadSerial, Receive
  <2> QED
    BY <1>2, <2>1, <2>2, OneMessage DEF ReadSerial, Receive
<1>3. CASE ReadLogin(c)
  <2>1. CASE auth[c]
    BY <1>3, <2>1 DEF ReadLogin, Receive
  <2>2. CASE ~auth[c]
    <3>1. box[c] = <<"refused">>
      BY <1>3, <2>2 DEF ReadLogin, Receive
    <3>2. Head(box[c]) = "refused"
      BY <3>1, OneMessage
    <3> QED
      BY <1>3, <3>2 DEF ReadLogin
  <2> QED
    BY <2>1, <2>2
<1>4. CASE ReciveHeartbeat(c)
  BY <1>4 DEF ReciveHeartbeat, Receive
<1>5. CASE Ignore(c)
  BY <1>5 DEF Ignore, Receive, machine
<1>6. CASE ReceiveFails(c)
  BY <1>6 DEF ReceiveFails
<1> QED
  BY <1>1, <1>2, <1>3, <1>4, <1>5, <1>6 DEF SecondPass

\* A camera answers the request there is, and speaks unasked only after it has
\* accepted the login.
LEMMA WorldTalk ==
    ASSUME TypeOK, NEW c \in Clients, Talk(c), World(c)
    PROVE  Talk(c)'
<1> USE DEF Talk, Quiet, Logged, TypeOK, machine, wire
<1>1. CASE Accept(c)
  BY <1>1 DEF Accept
<1>2. CASE Event(c)
  BY <1>2 DEF Event
<1>3. CASE Lost(c)
  BY <1>3 DEF Lost
<1>4. CASE Expire(c)
  BY <1>4 DEF Expire, conn
<1>5. ASSUME NEW r \in {"ok", "refused"}, Answer(c, r)
      PROVE  Talk(c)'
  <2>1. CASE auth[c]
    BY <1>5, <2>1 DEF Answer
  <2>2. CASE ~auth[c] /\ state[c] = "CONNECTED" /\ step[c] = 1
    <3>1. ask[c] = <<"serial">> /\ box[c] = <<>>
      BY <1>5, <2>2 DEF Answer
    <3>2. Head(ask[c]) = "serial" /\ ask'[c] = <<>> /\ box'[c] = <<r>>
      BY <1>5, <3>1, OneMessage DEF Answer
    <3>3. r = "ok" /\ ~auth'[c]
      BY <1>5, <2>2, <3>2 DEF Answer
    <3> QED
      BY <1>5, <2>2, <3>2, <3>3 DEF Answer
  <2>3. CASE ~auth[c] /\ state[c] = "CONNECTED" /\ step[c] = 3
    <3>1. ask[c] = <<"login">> /\ box[c] = <<>>
      BY <1>5, <2>3 DEF Answer
    <3>2. Head(ask[c]) = "login" /\ ask'[c] = <<>> /\ box'[c] = <<r>>
      BY <1>5, <3>1, OneMessage DEF Answer
    <3>3. CASE r = "ok"
      <4>1. auth'[c]
        BY <1>5, <2>3, <3>2, <3>3 DEF Answer
      <4> QED
        BY <1>5, <2>3, <4>1 DEF Answer
    <3>4. CASE r = "refused"
      <4>1. box'[c] = <<"refused">>
        BY <3>2, <3>4
      <4> QED
        BY <1>5, <2>3, <3>2, <4>1 DEF Answer
    <3> QED
      BY <3>3, <3>4
  <2>4. CASE state[c] \in {"INIT", "FAILED"}
    BY <1>5, <2>4 DEF Answer
  <2>5. CASE state[c] = "CONNECTING" \/ (state[c] = "CONNECTED" /\ step[c] \in {0, 2})
    BY <1>5, <2>5 DEF Answer
  <2> QED
    BY <2>1, <2>2, <2>3, <2>4, <2>5
<1> QED
  BY <1>1, <1>2, <1>3, <1>4, <1>5 DEF World

\* What is done to one client leaves the others alone.
Alone(c) == \A d \in Clients \ {c} :
                /\ state'[d] = state[d] /\ step'[d] = step[d]
                /\ ask'[d] = ask[d] /\ box'[d] = box[d] /\ auth'[d] = auth[d]

LEMMA OneClient ==
    ASSUME TypeOK, NEW c \in Clients, FirstPass(c) \/ SecondPass(c) \/ World(c)
    PROVE  Alone(c)
<1> USE DEF Alone, TypeOK, GoTo, conn, wire, machine
<1>1. CASE FirstPass(c)
  <2> USE DEF Serve, Visit
  <2>1. CASE Remove(c) \/ Dial(c) \/ DialFails(c) \/ ConnectLate(c)
    BY <2>1 DEF Remove, Dial, DialFails, ConnectLate, Socket
  <2>2. CASE AnswerLate(c) \/ Wait(c) \/ HeartbeatDue(c) \/ Retry(c)
    BY <2>2 DEF AnswerLate, Wait, HeartbeatDue, Retry
  <2>3. CASE SendLogin(c) \/ SendHeartbeat(c)
    BY <2>3 DEF SendLogin, SendHeartbeat, Send
  <2>4. CASE SendLoginFails(c) \/ SendHeartbeatFails(c)
    BY <2>4 DEF SendLoginFails, SendHeartbeatFails, SendFails
  <2> QED
    BY <1>1, <2>1, <2>2, <2>3, <2>4 DEF FirstPass
<1>2. CASE SecondPass(c)
  BY <1>2 DEF SecondPass, Connected, ReadSerial, ReadLogin, ReciveHeartbeat, Ignore,
              ReceiveFails, Receive, Handle
<1>3. CASE World(c)
  BY <1>3 DEF World, Accept, Event, Lost, Expire, Answer
<1> QED
  BY <1>1, <1>2, <1>3

\* The steps that touch no client's connection.
LEMMA ElseSame ==
    ASSUME UNCHANGED vars \/ LoopTurn \/ \E u \in Users : UserStep(u)
    PROVE  UNCHANGED <<machine, conn>>
BY DEF vars, LoopTurn, LoopLock, LoopUnlock, SelectTimesOut, Select, StepDone, UserStep,
       LoginFirst, Leave, Drop, Lookup, LookupFails, Retain

LEMMA LoginStep == LoginInv /\ [Next]_vars => LoginInv'
<1> SUFFICES ASSUME LoginInv, [Next]_vars
             PROVE  LoginInv'
  OBVIOUS
<1>1. TypeInv'
  BY TypeStep DEF LoginInv
<1>2. CASE UNCHANGED vars \/ LoopTurn \/ \E u \in Users : UserStep(u)
  BY <1>1, <1>2, ElseSame DEF LoginInv, Talk, Quiet, machine, conn, wire
<1>3. ASSUME NEW c \in Clients, FirstPass(c) \/ SecondPass(c) \/ World(c)
      PROVE  LoginInv'
  <2>1. Talk(c)'
    BY <1>3, FirstPassTalk, SecondPassTalk, WorldTalk DEF LoginInv, TypeInv
  <2>2. ASSUME NEW d \in Clients, d # c
        PROVE  Talk(d)'
    <3>1. Alone(c)
      BY <1>3, OneClient DEF LoginInv, TypeInv
    <3> QED
      BY <2>2, <3>1, TalkSame DEF Alone, LoginInv
  <2> QED
    BY <1>1, <2>1, <2>2 DEF LoginInv
<1> QED
  BY <1>2, <1>3 DEF Next, SingleStep, LoopTurn

\* A client that passes for logged in has been accepted by the camera on the
\* connection it has now.
THEOREM LoggedInCorrect == Spec => []LoggedInHere
<1>1. Init => LoginInv
  BY TypeInit DEF Init, LoginInv, Talk, Logged
<1>2. LoginInv => LoggedInHere
  BY DEF LoginInv, Talk, LoggedInHere
<1> QED
  BY <1>1, <1>2, LoginStep, PTL DEF Spec

-----------------------------------------------------------------------------
(* Sockets.                                                                *)

Connections == {c \in Clients : link[c] # "none"}
SocketInv == TypeInv /\ SocketsKnown

\* One client's socket is closed and another one taken, or none.
LEMMA SocketCount ==
    ASSUME TypeOK, SocketsKnown, NEW c \in Clients, NEW l \in {"none", "opening"},
           Socket(c, l)
    PROVE  SocketsKnown'
<1>1. Connections \subseteq Clients /\ IsFiniteSet(Connections)
  BY PteAssumption, FS_Subset DEF Connections
<1>2. Connections \ {c} = Connections' \ {c}
  BY DEF Connections, Socket, TypeOK
<1>3. Cardinality(Connections') =
          Cardinality(Connections) - Has(Connections, c) + Has(Connections', c)
  BY <1>1, <1>2, OneElement
<1>4. Cardinality(Connections) \in Nat
  BY <1>1, FS_CardinalityType
<1>5. Has(Connections, c) = Open(c)
  BY DEF Has, Connections, Open
<1>6. Has(Connections', c) = IF l = "none" THEN 0 ELSE 1
  BY DEF Has, Connections, Socket, TypeOK
<1>7. fds = Cardinality(Connections)
  BY DEF SocketsKnown, Connections
<1>8. fds' = (fds - Open(c)) + (IF l = "none" THEN 0 ELSE 1)
  BY DEF Socket
<1>9. fds' = Cardinality(Connections')
  BY <1>3, <1>4, <1>5, <1>6, <1>7, <1>8 DEF Open
<1> QED
  BY <1>9 DEF SocketsKnown, Connections

\* A step that opens and closes nothing.
LEMMA SocketSame ==
    ASSUME SocketsKnown, fds' = fds,
           \A c \in Clients : link'[c] = "none" <=> link[c] = "none"
    PROVE  SocketsKnown'
<1>1. {c \in Clients : link'[c] # "none"} = {c \in Clients : link[c] # "none"}
  OBVIOUS
<1> QED
  BY <1>1 DEF SocketsKnown

LEMMA SocketStep == SocketInv /\ [Next]_vars => SocketInv'
<1> SUFFICES ASSUME SocketInv, [Next]_vars
             PROVE  SocketInv'
  OBVIOUS
<1>1. TypeInv'
  BY TypeStep DEF SocketInv
<1> SUFFICES SocketsKnown'
  BY <1>1 DEF SocketInv
<1> USE DEF SocketInv, TypeInv
<1>2. CASE UNCHANGED vars \/ LoopTurn \/ \E u \in Users : UserStep(u)
  BY <1>2, ElseSame, SocketSame DEF conn
<1>3. ASSUME NEW c \in Clients, FirstPass(c)
      PROVE  SocketsKnown'
  <2>1. CASE Remove(c) \/ Dial(c) \/ DialFails(c) \/ ConnectLate(c)
    BY <2>1, SocketCount DEF Remove, Dial, DialFails, ConnectLate
  <2>2. CASE ~(Remove(c) \/ Dial(c) \/ DialFails(c) \/ ConnectLate(c))
    <3>1. UNCHANGED <<link, fds>>
      BY <1>3, <2>2 DEF FirstPass, AnswerLate, Wait, SendLogin, SendLoginFails,
           HeartbeatDue, SendHeartbeat, SendHeartbeatFails, Retry, Send, SendFails, conn
    <3> QED
      BY <3>1, SocketSame
  <2> QED
    BY <2>1, <2>2
<1>4. ASSUME NEW c \in Clients, SecondPass(c)
      PROVE  SocketsKnown'
  <2>1. UNCHANGED <<link, fds>>
    BY <1>4 DEF SecondPass, Connected, ReadSerial, ReadLogin, ReciveHeartbeat, Ignore,
                ReceiveFails, Receive, conn
  <2> QED
    BY <2>1, SocketSame
<1>5. ASSUME NEW c \in Clients, World(c)
      PROVE  SocketsKnown'
  <2>1. fds' = fds
    BY <1>5 DEF World, Accept, Event, Lost, Expire, Answer, conn
  <2>2. \A d \in Clients : link'[d] = "none" <=> link[d] = "none"
    BY <1>5 DEF World, Accept, Event, Lost, Expire, Answer, conn, TypeOK
  <2> QED
    BY <2>1, <2>2, SocketSame
<1> QED
  BY <1>2, <1>3, <1>4, <1>5 DEF Next, SingleStep, LoopTurn

\* No socket is lost or closed twice, over any number of retries.
THEOREM SocketsCorrect == Spec => []SocketsKnown
<1>1. Init => SocketInv
  <2>1. Init => {c \in Clients : link[c] # "none"} = {}
    BY DEF Init
  <2> QED
    BY <2>1, TypeInit, FS_EmptySet DEF Init, SocketInv, SocketsKnown
<1>2. SocketInv => SocketsKnown
  BY DEF SocketInv
<1> QED
  BY <1>1, <1>2, SocketStep, PTL DEF Spec
-----------------------------------------------------------------------------
(* References.  A count is right if it is the number of holders, or, once  *)
(* a decrement was overwritten, no less; of a client with a lost increment *)
(* nothing is claimed.  That is kept not only for the counts but for what  *)
(* the users that are counting have read of them and will write back.      *)

Right(n, c) ==
    /\ tear[c] = "none" => n = Cardinality(Holders(c))
    /\ tear[c] # "low" => n >= Cardinality(Holders(c))

Kept == \A c \in list :
    /\ Right(ref[c], c)
    /\ \A u \in Users :
          ptr[u] = c /\ pc[u] \in {"dropping", "retaining"} => Right(reg[u], c)

\* Who raises a count, or goes over the list, has the lock.
Locked ==
    /\ \A u \in Users : pc[u] = "retaining" => mutex = u
    /\ at \in {"first", "second"} => mutex = "loop"

CountInv == TypeInv /\ Kept /\ HeldIsListed /\ OneClientPerCamera /\ Locked

\* The holders of a client can be counted.
LEMMA HoldersType ==
    ASSUME NEW c
    PROVE  IsFiniteSet(Holders(c)) /\ Cardinality(Holders(c)) \in Nat
BY PteAssumption, FS_Subset, FS_CardinalityType DEF Holders

\* What is left alone of counts, users and list keeps them right.
LEMMA KeptSame ==
    ASSUME Kept, UNCHANGED <<ref, list, ptr, pc, reg, tear>>
    PROVE  Kept'
<1>1. \A c : Holders(c)' = Holders(c)
  BY DEF Holders
<1> QED
  BY <1>1 DEF Kept, Right

\* A user gets hold of a client: the one of its camera, or a new one, whose count is
\* right from the start unless somebody still points at that memory.
LEMMA LookupCount ==
    ASSUME CountInv, NEW u \in Users, Lookup(u)
    PROVE  CountInv'
<1> USE DEF CountInv, TypeInv, TypeOK
<1>1. TypeInv'
  BY UserType DEF UserStep
<1>2. PICK c \in Clients : (Found(u, c) \/ Created(u, c)) /\ ptr' = [ptr EXCEPT ![u] = c]
  BY DEF Lookup
<1>3. /\ pc[u] = "lookup" /\ ptr[u] = NONE /\ pc' = [pc EXCEPT ![u] = "retaining"]
      /\ mutex = NONE /\ mutex' = u /\ at' = at
  BY DEF Lookup, Pointed, loop
<1>4. \A d \in Clients : Holders(d)' = Holders(d)
  BY <1>2, <1>3, PteAssumption DEF Holders
<1>5. list' = list \cup {c}
  BY <1>2 DEF Found, Created, clients
<1>6. \A d \in list \ {c} : ref'[d] = ref[d] /\ tear'[d] = tear[d] /\ cam'[d] = cam[d]
  BY <1>2 DEF Found, Created, Forgive, clients
<1>7. \A v \in Users \ {u} : ptr'[v] = ptr[v] /\ pc'[v] = pc[v] /\ reg'[v] = reg[v]
  BY <1>2, <1>3 DEF Found, Created
<1>8. reg'[u] = ref'[c] /\ ptr'[u] = c
  BY <1>2 DEF Found, Created, clients
<1>9. ASSUME NEW d \in list, d # c
      PROVE  /\ Right(ref[d], d)'
             /\ \A v \in Users : ptr'[v] = d /\ pc'[v] \in {"dropping", "retaining"}
                                     => Right(reg[v], d)'
  <2>1. tear'[d] = tear[d] /\ ref'[d] = ref[d] /\ Holders(d)' = Holders(d)
    BY <1>4, <1>6, <1>9
  <2>2. Right(ref[d], d)'
    BY <1>9, <2>1 DEF Kept, Right
  <2>3. ASSUME NEW v \in Users, ptr'[v] = d, pc'[v] \in {"dropping", "retaining"}
        PROVE  Right(reg[v], d)'
    <3>1. v # u
      BY <1>8, <1>9, <2>3
    <3>2. reg'[v] = reg[v] /\ Right(reg[v], d)
      BY <1>7, <1>9, <2>3, <3>1 DEF Kept
    <3> QED
      BY <2>1, <3>2 DEF Right
  <2> QED
    BY <2>2, <2>3
<1>10. /\ Right(ref[c], c)'
       /\ \A v \in Users : ptr'[v] = c /\ pc'[v] \in {"dropping", "retaining"}
                               => Right(reg[v], c)'
  <2>1. CASE Found(u, c)
    <3>1. c \in list /\ ref' = ref /\ tear' = tear /\ Holders(c)' = Holders(c)
      BY <1>4, <2>1 DEF Found, clients
    <3>2. Right(ref[c], c)'
      BY <3>1 DEF Kept, Right
    <3>3. ASSUME NEW v \in Users, v # u, ptr'[v] = c, pc'[v] \in {"dropping", "retaining"}
          PROVE  Right(reg[v], c)'
      <4>1. reg'[v] = reg[v] /\ Right(reg[v], c)
        BY <1>7, <3>1, <3>3 DEF Kept
      <4> QED
        BY <3>1, <4>1 DEF Right
    <3>4. Right(reg[u], c)'
      BY <1>8, <3>2 DEF Right
    <3> QED
      BY <3>2, <3>3, <3>4
  <2>2. CASE Created(u, c) /\ \E v \in Users : ptr[v] = c
    <3>1. tear[c] = "low"
      BY <2>2, PteAssumption DEF Created, HeldIsListed
    <3>2. tear'[c] = "low"
      BY <2>2, <3>1 DEF Created, Forgive
    <3> QED
      BY <3>2 DEF Right
  <2>3. CASE Created(u, c) /\ ~\E v \in Users : ptr[v] = c
    <3>1. Holders(c)' = {}
      BY <1>4, <2>3 DEF Holders
    <3>2. Cardinality(Holders(c)') = 0
      BY <3>1, FS_EmptySet
    <3>3. ref'[c] = 0 /\ reg'[u] = 0
      BY <2>3 DEF Created
    <3>4. \A v \in Users : ptr'[v] = c => v = u
      BY <1>7, <2>3
    <3> QED
      BY <3>2, <3>3, <3>4 DEF Right
  <2> QED
    BY <1>2, <2>1, <2>2, <2>3
<1>11. Kept'
  <2> SUFFICES ASSUME NEW d \in list'
               PROVE  /\ Right(ref[d], d)'
                      /\ \A v \in Users : ptr'[v] = d /\ pc'[v] \in {"dropping", "retaining"}
                                              => Right(reg[v], d)'
    BY DEF Kept
  <2>1. d = c \/ d \in list
    BY <1>5
  <2> QED
    BY <1>9, <1>10, <2>1
<1>12. HeldIsListed'
  <2>1. ASSUME NEW v \in Users, v # u, ptr'[v] # NONE, tear'[ptr'[v]] # "low"
        PROVE  ptr'[v] \in list'
    <3>1. ptr'[v] = ptr[v]
      BY <1>7, <2>1
    <3>2. CASE ptr[v] = c
      BY <1>5, <3>1, <3>2
    <3>3. CASE ptr[v] # c
      <4>1. tear'[ptr[v]] = tear[ptr[v]]
        BY <1>2, <2>1, <3>1, <3>3 DEF Found, Created, Forgive
      <4> QED
        BY <1>5, <2>1, <3>1, <4>1 DEF HeldIsListed
    <3> QED
      BY <3>2, <3>3
  <2> QED
    BY <1>5, <1>8, <2>1 DEF HeldIsListed
<1>13. OneClientPerCamera'
  BY <1>2, <1>6 DEF OneClientPerCamera, Found, Created, clients
<1>14. Locked'
  <2>1. at \notin {"first", "second"}
    BY <1>3, PteAssumption DEF Locked
  <2>2. \A v \in Users : pc'[v] = "retaining" => v = u
    BY <1>3, <1>7, PteAssumption DEF Locked
  <2> QED
    BY <1>3, <2>1, <2>2 DEF Locked
<1> QED
  BY <1>1, <1>11, <1>12, <1>13, <1>14

\* The count goes up with the user that comes; who has read it before and will
\* write it back makes it too low.
LEMMA RetainCount ==
    ASSUME CountInv, NEW u \in Users, Retain(u)
    PROVE  CountInv'
<1> USE DEF CountInv, TypeInv, TypeOK
<1>1. TypeInv'
  BY UserType DEF UserStep
<1>2. PICK c \in Clients : ptr[u] = c
  BY DEF Retain, Pointed
<1>3. /\ pc[u] = "retaining" /\ pc' = [pc EXCEPT ![u] = "using"] /\ ptr' = ptr
      /\ reg' = [reg EXCEPT ![u] = 0] /\ list' = list /\ cam' = cam /\ at' = at
      /\ mutex = u /\ mutex' = NONE
  BY DEF Retain, loop, Locked
<1>4. ref' = [ref EXCEPT ![c] = reg[u] + 1]
  BY <1>2 DEF Retain
<1>5. \A d \in Clients \ {c} : tear'[d] = tear[d]
  BY <1>2 DEF Retain
<1>6. \A v \in Users \ {u} : pc[v] # "retaining"
  BY <1>3 DEF Locked
<1>7. ASSUME NEW d \in list, d # c
      PROVE  /\ Right(ref[d], d)'
             /\ \A v \in Users : ptr'[v] = d /\ pc'[v] \in {"dropping", "retaining"}
                                     => Right(reg[v], d)'
  <2>1. tear'[d] = tear[d] /\ ref'[d] = ref[d] /\ Holders(d)' = Holders(d)
    BY <1>2, <1>3, <1>4, <1>5, <1>7 DEF Holders
  <2>2. Right(ref[d], d)'
    BY <1>7, <2>1 DEF Kept, Right
  <2>3. ASSUME NEW v \in Users, ptr'[v] = d, pc'[v] \in {"dropping", "retaining"}
        PROVE  Right(reg[v], d)'
    <3>1. v # u /\ ptr[v] = d /\ pc[v] \in {"dropping", "retaining"} /\ reg'[v] = reg[v]
      BY <1>3, <2>3
    <3>2. Right(reg[v], d)
      BY <1>7, <3>1 DEF Kept
    <3> QED
      BY <2>1, <3>1, <3>2 DEF Right
  <2> QED
    BY <2>2, <2>3
<1>8. ASSUME c \in list
      PROVE  /\ Right(ref[c], c)'
             /\ \A v \in Users : ptr'[v] = c /\ pc'[v] \in {"dropping", "retaining"}
                                     => Right(reg[v], c)'
  <2>1. CASE Counting(c, {"dropping"}) # {}
    <3>1. tear'[c] = "low"
      BY <1>2, <2>1 DEF Retain
    <3> QED
      BY <3>1 DEF Right
  <2>2. CASE Counting(c, {"dropping"}) = {}
    <3>1. tear'[c] = tear[c]
      BY <1>2, <2>2 DEF Retain
    <3>2. \A v \in Users : ptr'[v] = c => pc'[v] \notin {"dropping", "retaining"}
      BY <1>3, <1>6, <2>2 DEF Counting
    <3>3. Cardinality(Holders(c)') = Cardinality(Holders(c)) + 1
      <4>1. Holders(c) \ {u} = Holders(c)' \ {u}
        BY <1>2, <1>3 DEF Holders
      <4>2. Has(Holders(c), u) = 0 /\ Has(Holders(c)', u) = 1
        BY <1>2, <1>3 DEF Holders, Has
      <4>3. /\ IsFiniteSet(Holders(c))
            /\ Cardinality(Holders(c)') =
                   Cardinality(Holders(c)) - Has(Holders(c), u) + Has(Holders(c)', u)
        BY <4>1, HoldersType, OneElement
      <4> QED
        BY <4>2, <4>3, HoldersType
    <3>4. Right(reg[u], c)
      BY <1>2, <1>3, <1>8 DEF Kept
    <3>5. ref'[c] = reg[u] + 1 /\ reg[u] \in Int
      BY <1>4
    <3> QED
      BY <3>1, <3>2, <3>3, <3>4, <3>5, HoldersType DEF Right
  <2> QED
    BY <2>1, <2>2
<1>9. Kept'
  <2> SUFFICES ASSUME NEW d \in list'
               PROVE  /\ Right(ref[d], d)'
                      /\ \A v \in Users : ptr'[v] = d /\ pc'[v] \in {"dropping", "retaining"}
                                              => Right(reg[v], d)'
    BY DEF Kept
  <2>1. d \in list
    BY <1>3
  <2> QED
    BY <1>7, <1>8, <2>1
<1>10. HeldIsListed'
  <2>1. \A d \in Clients : tear'[d] # "low" => tear[d] # "low"
    BY <1>2 DEF Retain
  <2> QED
    BY <1>3, <2>1 DEF HeldIsListed
<1>11. OneClientPerCamera'
  BY <1>3 DEF OneClientPerCamera
<1>12. Locked'
  BY <1>3, <1>6, PteAssumption DEF Locked
<1> QED
  BY <1>1, <1>9, <1>10, <1>11, <1>12

\* The count goes down with the user that goes; a user that counts at the same time
\* has read it before, and will write too much.
LEMMA DropCount ==
    ASSUME CountInv, NEW u \in Users, Drop(u)
    PROVE  CountInv'
<1> USE DEF CountInv, TypeInv, TypeOK
<1>1. TypeInv'
  BY UserType DEF UserStep
<1>2. PICK c \in Clients : ptr[u] = c
  BY DEF Drop, Pointed
<1>3. /\ pc[u] = "dropping" /\ ptr' = [ptr EXCEPT ![u] = NONE]
      /\ pc'[u] \in {"out", "lookup"} /\ \A v \in Users \ {u} : pc'[v] = pc[v]
      /\ reg' = [reg EXCEPT ![u] = 0]
      /\ list' = list /\ cam' = cam /\ at' = at /\ mutex' = mutex
  BY DEF Drop, loop
<1>4. ref' = [ref EXCEPT ![c] = reg[u] - 1]
  BY <1>2 DEF Drop
<1>5. \A d \in Clients \ {c} : tear'[d] = tear[d]
  BY <1>2 DEF Drop
<1>6. c # NONE
  BY PteAssumption
<1>7. ASSUME NEW d \in list, d # c
      PROVE  /\ Right(ref[d], d)'
             /\ \A v \in Users : ptr'[v] = d /\ pc'[v] \in {"dropping", "retaining"}
                                     => Right(reg[v], d)'
  <2>1. d # NONE
    BY <1>7, PteAssumption
  <2>2. tear'[d] = tear[d] /\ ref'[d] = ref[d]
    BY <1>4, <1>5, <1>7
  <2>3. Holders(d)' = Holders(d)
    BY <1>2, <1>3, <1>7, <2>1 DEF Holders
  <2>4. Right(ref[d], d)'
    BY <1>7, <2>2, <2>3 DEF Kept, Right
  <2>5. ASSUME NEW v \in Users, ptr'[v] = d, pc'[v] \in {"dropping", "retaining"}
        PROVE  Right(reg[v], d)'
    <3>1. v # u /\ ptr[v] = d /\ pc[v] \in {"dropping", "retaining"} /\ reg'[v] = reg[v]
      BY <1>3, <2>1, <2>5
    <3>2. Right(reg[v], d)
      BY <1>7, <3>1 DEF Kept
    <3> QED
      BY <2>2, <2>3, <3>1, <3>2 DEF Right
  <2> QED
    BY <2>4, <2>5
<1>8. ASSUME c \in list
      PROVE  /\ Right(ref[c], c)'
             /\ \A v \in Users : ptr'[v] = c /\ pc'[v] \in {"dropping", "retaining"}
                                     => Right(reg[v], c)'
  <2>1. Cardinality(Holders(c)') = Cardinality(Holders(c)) - 1
    <3>1. Holders(c) \ {u} = Holders(c)' \ {u}
      BY <1>3 DEF Holders
    <3>2. Has(Holders(c), u) = 1 /\ Has(Holders(c)', u) = 0
      BY <1>2, <1>3, <1>6 DEF Holders, Has
    <3>3. /\ IsFiniteSet(Holders(c))
          /\ Cardinality(Holders(c)') =
                 Cardinality(Holders(c)) - Has(Holders(c), u) + Has(Holders(c)', u)
      BY <3>1, HoldersType, OneElement
    <3> QED
      BY <3>2, <3>3, HoldersType
  <2>2. Right(reg[u], c)
    BY <1>2, <1>3, <1>8 DEF Kept
  <2>3. (tear'[c] = "none" => tear[c] = "none") /\ (tear'[c] # "low" => tear[c] # "low")
    BY <1>2 DEF Drop
  <2>4. Right(ref[c], c)'
    <3>1. ref'[c] = reg[u] - 1 /\ reg[u] \in Int
      BY <1>4
    <3> QED
      BY <2>1, <2>2, <2>3, <3>1, HoldersType DEF Right
  <2>5. ASSUME NEW v \in Users, ptr'[v] = c, pc'[v] \in {"dropping", "retaining"}
        PROVE  Right(reg[v], c)'
    <3>1. v # u /\ ptr[v] = c /\ pc[v] \in {"dropping", "retaining"} /\ reg'[v] = reg[v]
      BY <1>3, <1>6, <2>5
    <3>2. Right(reg[v], c) /\ reg[v] \in Int
      BY <1>8, <3>1 DEF Kept
    <3>3. tear'[c] # "none"
      <4>1. Counting(c, {"dropping", "retaining"}) # {u}
        BY <3>1 DEF Counting
      <4> QED
        BY <1>2, <4>1 DEF Drop
    <3> QED
      BY <2>1, <2>3, <3>1, <3>2, <3>3, HoldersType DEF Right
  <2> QED
    BY <2>4, <2>5
<1>9. Kept'
  <2> SUFFICES ASSUME NEW d \in list'
               PROVE  /\ Right(ref[d], d)'
                      /\ \A v \in Users : ptr'[v] = d /\ pc'[v] \in {"dropping", "retaining"}
                                              => Right(reg[v], d)'
    BY DEF Kept
  <2>1. d \in list
    BY <1>3
  <2> QED
    BY <1>7, <1>8, <2>1
<1>10. HeldIsListed'
  <2>1. \A d \in Clients : tear'[d] # "low" => tear[d] # "low"
    BY <1>2 DEF Drop
  <2> QED
    BY <1>3, <2>1 DEF HeldIsListed
<1>11. OneClientPerCamera' /\ Locked'
  BY <1>3 DEF OneClientPerCamera, Locked
<1> QED
  BY <1>1, <1>9, <1>10, <1>11

\* Users that do not count: they go to look for a client, or read a count.
LEMMA OtherUserCount ==
    ASSUME CountInv, NEW u \in Users, LoginFirst(u) \/ Leave(u) \/ LookupFails(u)
    PROVE  CountInv'
<1> USE DEF CountInv, TypeInv, TypeOK
<1>1. TypeInv'
  BY UserType DEF UserStep
<1>2. UNCHANGED <<mutex, list, cam, ref, ptr, at, tear>>
  BY DEF LoginFirst, Leave, LookupFails, clients, loop
<1>3. /\ pc[u] # "retaining" /\ pc'[u] # "retaining"
      /\ \A v \in Users \ {u} : pc'[v] = pc[v] /\ reg'[v] = reg[v]
  BY DEF LoginFirst, Leave, LookupFails
<1>4. \A c : Holders(c)' = Holders(c)
  BY <1>2, <1>3 DEF Holders
<1>5. pc'[u] \in {"dropping", "retaining"} => reg'[u] = ref[ptr[u]]
  BY DEF LoginFirst, Leave, LookupFails
<1>6. Kept'
  <2>1. ASSUME NEW c \in list
        PROVE  Right(ref[c], c)'
    BY <1>2, <1>4 DEF Kept, Right
  <2>2. ASSUME NEW c \in list, NEW v \in Users, ptr[v] = c, pc'[v] \in {"dropping", "retaining"}
        PROVE  Right(reg[v], c)'
    <3>1. Right(reg'[v], c)
      BY <1>3, <1>5, <2>2 DEF Kept
    <3> QED
      BY <1>2, <1>4, <3>1 DEF Right
  <2> QED
    BY <1>2, <2>1, <2>2 DEF Kept
<1>7. HeldIsListed' /\ OneClientPerCamera' /\ Locked'
  BY <1>2, <1>3 DEF HeldIsListed, OneClientPerCamera, Locked
<1> QED
  BY <1>1, <1>6, <1>7

\* Unless an increment was lost, the loop removes a client only when nobody points
\* at it.
LEMMA RemovedUnheld ==
    ASSUME CountInv, NEW c \in list, tear[c] # "low", Remove(c)
    PROVE  \A u \in Users : ptr[u] # c
<1> USE DEF CountInv, TypeInv, TypeOK, Remove, Visit
<1>1. Cardinality(Holders(c)) <= 0
  <2>1. ref[c] <= 0 /\ Right(ref[c], c) /\ ref[c] \in Int
    BY DEF Kept
  <2> QED
    BY <2>1, HoldersType DEF Right
<1>2. Holders(c) = {}
  BY <1>1, HoldersType, FS_EmptySet
<1>3. \A u \in Users : pc[u] # "retaining"
  BY PteAssumption DEF Locked
<1> QED
  BY <1>2, <1>3 DEF Holders

\* A removed client disturbs no other, and who still points at it has lost it.
LEMMA RemoveCount ==
    ASSUME CountInv, NEW c \in Clients, Remove(c)
    PROVE  CountInv'
<1> USE DEF CountInv, TypeInv, TypeOK
<1>1. TypeInv'
  BY TypeStep DEF FirstPass, Next, SingleStep
<1>2. /\ list' = list \ {c} /\ cam' = [cam EXCEPT ![c] = NONE]
      /\ ref' = [ref EXCEPT ![c] = 0] /\ Forgive(c)
      /\ UNCHANGED <<mutex, at, pc, ptr, reg>>
  BY DEF Remove, Visit
<1>3. \A d \in Clients \ {c} : tear'[d] = tear[d]
  BY <1>2 DEF Forgive
<1>4. \A d : Holders(d)' = Holders(d)
  BY <1>2 DEF Holders
<1>5. Kept'
  <2>1. ASSUME NEW d \in list'
        PROVE  d \in list /\ tear'[d] = tear[d] /\ ref'[d] = ref[d]
    BY <1>2, <1>3
  <2> QED
    BY <1>2, <1>4, <2>1 DEF Kept, Right
<1>6. HeldIsListed'
  <2> SUFFICES ASSUME NEW u \in Users, ptr[u] # NONE, tear'[ptr[u]] # "low"
               PROVE  ptr[u] \in list'
    BY <1>2 DEF HeldIsListed
  <2>1. CASE ptr[u] = c
    <3>1. tear[c] # "low"
      BY <1>2, <2>1 DEF Forgive
    <3>2. c \in list
      BY <2>1, <3>1, PteAssumption DEF HeldIsListed
    <3> QED
      BY <2>1, <3>1, <3>2, RemovedUnheld
  <2>2. CASE ptr[u] # c
    <3>1. tear[ptr[u]] # "low"
      BY <1>3, <2>2
    <3> QED
      BY <1>2, <2>2, <3>1 DEF HeldIsListed
  <2> QED
    BY <2>1, <2>2
<1>7. OneClientPerCamera' /\ Locked'
  BY <1>2 DEF OneClientPerCamera, Locked
<1> QED
  BY <1>1, <1>5, <1>6, <1>7

\* Everything else leaves users, clients and the lock's meaning as they are.
LEMMA LoopCount ==
    ASSUME CountInv, [Next]_vars, UNCHANGED <<clients, users>>,
           mutex' # mutex => mutex \notin Users,
           at' \in {"first", "second"} => mutex' = "loop"
    PROVE  CountInv'
<1>1. TypeInv'
  BY TypeStep DEF CountInv
<1>2. Kept' /\ HeldIsListed' /\ OneClientPerCamera'
  BY KeptSame DEF CountInv, HeldIsListed, OneClientPerCamera, users, clients
<1>3. Locked'
  BY DEF CountInv, Locked, users, clients
<1> QED
  BY <1>1, <1>2, <1>3 DEF CountInv

LEMMA CountStep == CountInv /\ [Next]_vars => CountInv'
<1> SUFFICES ASSUME CountInv, [Next]_vars
             PROVE  CountInv'
  OBVIOUS
<1> USE DEF clients, users
<1>1. CASE UNCHANGED vars
  BY <1>1, LoopCount DEF vars, loop, CountInv, Locked
<1>2. ASSUME NEW u \in Users, UserStep(u)
      PROVE  CountInv'
  BY <1>2, LookupCount, RetainCount, DropCount, OtherUserCount DEF UserStep
<1>3. CASE LoopTurn
  <2>1. CASE LoopLock \/ Select
    BY <2>1, LoopCount, PteAssumption DEF LoopLock, Select
  <2>2. CASE LoopUnlock \/ StepDone
    BY <2>2, LoopCount, PteAssumption DEF LoopUnlock, StepDone, CountInv, Locked
  <2>3. CASE SelectTimesOut
    BY <2>3, LoopCount DEF SelectTimesOut
  <2> QED
    BY <1>3, <2>1, <2>2, <2>3 DEF LoopTurn
<1>4. ASSUME NEW c \in Clients, FirstPass(c)
      PROVE  CountInv'
  <2>1. CASE Remove(c)
    BY <2>1, RemoveCount
  <2>2. CASE ~Remove(c)
    <3>1. UNCHANGED <<mutex, at, clients, users>>
      BY <1>4, <2>2 DEF FirstPass, Dial, DialFails, ConnectLate, AnswerLate, Wait,
           SendLogin, SendLoginFails, HeartbeatDue, SendHeartbeat, SendHeartbeatFails,
           Retry, Serve, Visit
    <3> QED
      BY <3>1, LoopCount DEF CountInv, Locked
  <2> QED
    BY <2>1, <2>2
<1>5. ASSUME NEW c \in Clients, SecondPass(c)
      PROVE  CountInv'
  <2>1. UNCHANGED <<mutex, at, clients, users>>
    BY <1>5 DEF SecondPass, Connected, ReadSerial, ReadLogin, ReciveHeartbeat, Ignore,
                ReceiveFails, Handle
  <2> QED
    BY <2>1, LoopCount DEF CountInv, Locked
<1>6. ASSUME NEW c \in Clients, World(c)
      PROVE  CountInv'
  <2>1. UNCHANGED <<mutex, at, clients, users>>
    BY <1>6 DEF World, Accept, Event, Lost, Expire, Answer, loop
  <2> QED
    BY <2>1, LoopCount DEF CountInv, Locked
<1> QED
  BY <1>1, <1>2, <1>3, <1>4, <1>5, <1>6 DEF Next, SingleStep, LoopTurn

LEMMA CountInit == Init => CountInv
<1> SUFFICES ASSUME Init PROVE CountInv
  OBVIOUS
<1>1. TypeInv
  BY TypeInit
<1> QED
  BY <1>1 DEF Init, CountInv, Kept, HeldIsListed, OneClientPerCamera, Locked

\* A client counts its users unless two of them changed its count at the same time,
\* and counts too few only if an increment was overwritten.
THEOREM RefsCorrect == Spec => []MiscountedOnlyIfTorn
<1>1. CountInv => MiscountedOnlyIfTorn
  BY DEF CountInv, Kept, Right, MiscountedOnlyIfTorn
<1> QED
  BY <1>1, CountInit, CountStep, PTL DEF Spec

\* The loop frees no client that a user points at, unless an increment of its count
\* was overwritten.
THEOREM HeldCorrect == Spec => []HeldIsListed
<1>1. CountInv => HeldIsListed
  BY DEF CountInv
<1> QED
  BY <1>1, CountInit, CountStep, PTL DEF Spec

\* No camera has two clients, however the references are counted.
THEOREM OneClientCorrect == Spec => []OneClientPerCamera
<1>1. CountInv => OneClientPerCamera
  BY DEF CountInv
<1> QED
  BY <1>1, CountInit, CountStep, PTL DEF Spec

\* Only users, and the loop when it removes a client, change who uses which client.
LEMMA ElseStays ==
    ASSUME [Next]_vars
    PROVE  \/ UNCHANGED <<clients, users>>
           \/ \E u \in Users : UserStep(u)
           \/ \E c \in Clients : Remove(c)
<1>1. CASE UNCHANGED vars \/ LoopTurn
  BY <1>1 DEF vars, LoopTurn, LoopLock, LoopUnlock, SelectTimesOut, Select, StepDone
<1>2. ASSUME NEW c \in Clients, FirstPass(c), ~Remove(c)
      PROVE  UNCHANGED <<clients, users>>
  BY <1>2 DEF FirstPass, Dial, DialFails, ConnectLate, AnswerLate, Wait, SendLogin,
       SendLoginFails, HeartbeatDue, SendHeartbeat, SendHeartbeatFails, Retry, Serve, Visit, users
<1>3. ASSUME NEW c \in Clients, SecondPass(c) \/ World(c)
      PROVE  UNCHANGED <<clients, users>>
  BY <1>3 DEF SecondPass, Connected, ReadSerial, ReadLogin, ReciveHeartbeat, Ignore,
       ReceiveFails, Handle, World, Accept, Event, Lost, Expire, Answer
<1> QED
  BY <1>1, <1>2, <1>3 DEF Next, SingleStep, LoopTurn

-----------------------------------------------------------------------------
(* The clients implement ClientPool.                                       *)

\* A client is listed while it is for a camera, who looks for a client knows for
\* which, and the loop visits listed clients.
Purposeful ==
    /\ \A c \in Clients : c \in list <=> cam[c] # NONE
    /\ \A u \in Users : pc[u] = "lookup" => want[u] # NONE
    /\ at = "first" => todo \subseteq list

\* The list and what is to be visited change together.
LEMMA TodoStep ==
    ASSUME TypeInv, at = "first" => todo \subseteq list, [Next]_vars
    PROVE  at' = "first" => todo' \subseteq list'
<1> USE DEF clients, loop
<1>1. CASE UNCHANGED vars \/ LoopTurn
  BY <1>1 DEF vars, LoopTurn, LoopLock, LoopUnlock, SelectTimesOut, Select, StepDone
<1>2. ASSUME NEW u \in Users, UserStep(u)
      PROVE  at' = at /\ todo' = todo /\ list \subseteq list'
  <2>1. CASE Lookup(u)
    BY <2>1 DEF Lookup, Found, Created
  <2>2. CASE ~Lookup(u)
    BY <1>2, <2>2 DEF UserStep, LoginFirst, Leave, Drop, LookupFails, Retain
  <2> QED
    BY <2>1, <2>2
<1>3. ASSUME NEW c \in Clients, FirstPass(c)
      PROVE  at' = at /\ at = "first" /\ todo' = todo \ {c} /\ list \ {c} \subseteq list'
  BY <1>3 DEF FirstPass, Remove, Dial, DialFails, ConnectLate, AnswerLate, Wait,
       SendLogin, SendLoginFails, HeartbeatDue, SendHeartbeat, SendHeartbeatFails,
       Retry, Serve, Visit
<1>4. ASSUME NEW c \in Clients, SecondPass(c)
      PROVE  at' # "first"
  BY <1>4 DEF SecondPass, Connected, ReadSerial, ReadLogin, ReciveHeartbeat, Ignore,
       ReceiveFails, Handle
<1>5. ASSUME NEW c \in Clients, World(c)
      PROVE  UNCHANGED <<at, todo, list>>
  BY <1>5 DEF World, Accept, Event, Lost, Expire, Answer
<1> QED
  BY <1>1, <1>2, <1>3, <1>4, <1>5 DEF Next, SingleStep, LoopTurn

\* Every step keeps that.
LEMMA PurposeStep == TypeInv /\ Purposeful /\ [Next]_vars => Purposeful'
<1> SUFFICES ASSUME TypeInv, Purposeful, [Next]_vars PROVE Purposeful'
  OBVIOUS
<1> USE PteAssumption DEF TypeInv, TypeOK, clients, users
<1>0. at' = "first" => todo' \subseteq list'
  BY TodoStep DEF Purposeful
<1> DEFINE Rest == /\ \A c \in Clients : c \in list <=> cam[c] # NONE
                   /\ \A u \in Users : pc[u] = "lookup" => want[u] # NONE
<1> SUFFICES Rest'
  BY <1>0 DEF Purposeful
<1>1. CASE UNCHANGED <<list, cam, pc, want>>
  BY <1>1 DEF Purposeful
<1>2. ASSUME NEW u \in Users, UserStep(u) PROVE Rest'
  <2>1. CASE Lookup(u)
    <3>1. PICK c \in Clients : Found(u, c) \/ Created(u, c)
      BY <2>1 DEF Lookup
    <3>2. want[u] # NONE /\ want[u] \in Cams
      BY <2>1 DEF Lookup, Purposeful
    <3>3. \A d \in Clients : d \in list' <=> cam'[d] # NONE
      BY <3>1, <3>2 DEF Found, Created, Purposeful
    <3>4. \A v \in Users : pc'[v] = "lookup" => v # u /\ pc[v] = "lookup" /\ want'[v] = want[v]
      BY <2>1 DEF Lookup
    <3> QED
      BY <3>3, <3>4 DEF Purposeful
  <2>2. CASE LoginFirst(u)
    BY <2>2 DEF LoginFirst, Purposeful
  <2>3. CASE Drop(u) \/ Retain(u)
    BY <2>3 DEF Drop, Retain, Purposeful
  <2>4. CASE Leave(u) \/ LookupFails(u)
    <3>1. UNCHANGED <<list, cam>> /\ \A v \in Users : pc'[v] = "lookup" => v # u /\ pc[v] = "lookup"
      BY <2>4 DEF Leave, LookupFails
    <3>2. \A v \in Users \ {u} : want'[v] = want[v]
      BY <2>4 DEF Leave, LookupFails
    <3> QED
      BY <3>1, <3>2 DEF Purposeful
  <2> QED
    BY <1>2, <2>1, <2>2, <2>3, <2>4 DEF UserStep
<1>3. ASSUME NEW c \in Clients, Remove(c) PROVE Rest'
  BY <1>3 DEF Remove, Visit, Purposeful
<1> QED
  BY <1>1, <1>2, <1>3, ElseStays

\* The clients whose count has lost an increment are the ones the pool calls spoilt.
Spoilt == {c \in Clients : tear[c] = "low"}

\* Every step of users and loop is a step of the pool, or none.
LEMMA PoolStep ==
    CountInv /\ Purposeful /\ [Next]_vars => [Pool!Next]_(Pool!vars)
<1> SUFFICES ASSUME CountInv, Purposeful, [Next]_vars
             PROVE  [Pool!Next]_(Pool!vars)
  OBVIOUS
<1> USE DEF CountInv, TypeInv, TypeOK
<1>1. CASE UNCHANGED <<cam, ptr, tear>>
  BY <1>1 DEF Pool!vars
<1>2. ASSUME NEW u \in Users, Lookup(u) PROVE Pool!Next
  <2>1. PICK c \in Clients : (Found(u, c) \/ Created(u, c)) /\ ptr' = [ptr EXCEPT ![u] = c]
    BY <1>2 DEF Lookup
  <2>2. want[u] \in Cams /\ want[u] # NONE /\ ptr[u] = NONE
    BY <1>2 DEF Lookup, Purposeful, Pointed
  <2>3. CASE Found(u, c)
    <3>1. Pool!Share(u, want[u])
      BY <2>1, <2>2, <2>3 DEF Pool!Share, Found, clients
    <3> QED
      BY <2>2, <3>1 DEF Pool!Next
  <2>4. CASE Created(u, c)
    <3>1. cam[c] = NONE /\ \A d \in Clients : cam[d] # want[u]
      BY <2>2, <2>4 DEF Created, Purposeful
    <3>2. Spoilt' = IF \E v \in Users : ptr[v] = c THEN Spoilt ELSE Spoilt \ {c}
      BY <2>4 DEF Created, Forgive, Spoilt
    <3>3. Pool!Forgive(c)
      BY <3>2 DEF Pool!Forgive, Spoilt
    <3>4. PICK k \in Cams : k = want[u]
      BY <2>2
    <3>5. cam' = [cam EXCEPT ![c] = k]
      BY <2>4, <3>4 DEF Created
    <3>6. Pool!Appoint(u, k)
      BY <2>1, <2>2, <3>1, <3>3, <3>4, <3>5 DEF Pool!Appoint
    <3> QED
      BY <3>6 DEF Pool!Next
  <2> QED
    BY <2>1, <2>3, <2>4
<1>3. ASSUME NEW u \in Users, Drop(u) PROVE Pool!Next
  <2>1. ptr[u] # NONE
    BY <1>3 DEF Drop, Pointed
  <2>2. Spoilt' = Spoilt
    BY <1>3 DEF Drop, Spoilt
  <2>3. cam' = cam /\ ptr' = [ptr EXCEPT ![u] = NONE]
    BY <1>3 DEF Drop
  <2>4. Pool!Release(u)
    BY <2>1, <2>2, <2>3 DEF Pool!Release, Spoilt
  <2> QED
    BY <2>4 DEF Pool!Next
<1>4. ASSUME NEW u \in Users, Retain(u) PROVE [Pool!Next]_(Pool!vars)
  <2>1. PICK c \in Clients : ptr[u] = c
    BY <1>4 DEF Retain, Pointed
  <2>2. UNCHANGED <<cam, ptr>> /\ pc[u] = "retaining"
    BY <1>4 DEF Retain
  <2>3. CASE Counting(c, {"dropping"}) = {}
    <3>1. tear' = tear
      BY <1>4, <2>1, <2>3 DEF Retain
    <3> QED
      BY <1>1, <2>2, <3>1
  <2>4. CASE Counting(c, {"dropping"}) # {}
    <3>1. PICK v \in Users : pc[v] = "dropping" /\ ptr[v] = c
      BY <2>4 DEF Counting
    <3>2. tear' = [tear EXCEPT ![c] = "low"]
      BY <1>4, <2>1, <2>4 DEF Retain
    <3>3. Spoilt' = Spoilt \cup {ptr[u]}
      BY <2>1, <3>2 DEF Spoilt
    <3>4. u # v /\ ptr[u] # NONE /\ ptr[u] = ptr[v]
      BY <2>1, <2>2, <3>1, PteAssumption
    <3>5. Pool!Spoil(u, v)
      BY <2>2, <3>3, <3>4 DEF Pool!Spoil, Spoilt
    <3> QED
      BY <3>5 DEF Pool!Next
  <2> QED
    BY <2>3, <2>4
<1>5. ASSUME NEW c \in Clients, Remove(c) PROVE Pool!Next
  <2>1. cam' = [cam EXCEPT ![c] = NONE] /\ ptr' = ptr
    BY <1>5 DEF Remove, Visit
  <2>2. c \in list /\ cam[c] # NONE
    BY <1>5 DEF Remove, Visit, Purposeful
  <2>3. c \in Spoilt \/ \A u \in Users : ptr[u] # c
    BY <1>5, <2>2, RemovedUnheld DEF Spoilt
  <2>4. Spoilt' = IF \E v \in Users : ptr[v] = c THEN Spoilt ELSE Spoilt \ {c}
    BY <1>5 DEF Remove, Forgive, Spoilt
  <2>5. Pool!Forgive(c)
    BY <2>4 DEF Pool!Forgive, Spoilt
  <2>6. Pool!Retire(c)
    BY <2>1, <2>2, <2>3, <2>5 DEF Pool!Retire, Spoilt
  <2> QED
    BY <2>6 DEF Pool!Next
<1>6. ASSUME NEW u \in Users, LoginFirst(u) \/ Leave(u) \/ LookupFails(u)
      PROVE  [Pool!Next]_(Pool!vars)
  <2>1. UNCHANGED <<cam, ptr, tear>>
    BY <1>6 DEF LoginFirst, Leave, LookupFails, clients
  <2> QED
    BY <1>1, <2>1
<1> QED
  BY <1>1, <1>2, <1>3, <1>4, <1>5, <1>6, ElseStays DEF clients, users, UserStep

\* The command clients implement ClientPool: whatever users, loop and cameras do,
\* users of a camera share one client, and it is removed only when nobody uses it or
\* when an increment of its count was overwritten.
THEOREM PoolCorrect == Spec => PoolSpec
<1>1. CountInv => TypeInv
  BY DEF CountInv
<1>2. Init => Purposeful /\ Pool!Init
  BY PteAssumption DEF Init, Purposeful, Pool!Init
<1> QED
  BY <1>1, <1>2, CountInit, CountStep, PurposeStep, PoolStep, PTL
     DEF Spec, PoolSpec, Pool!Spec
=============================================================================
