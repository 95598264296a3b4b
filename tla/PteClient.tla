------------------------------ MODULE PteClient ------------------------------
(***************************************************************************)
(* The command connections to the cameras of the private protocol          *)
(* (privateLib/pteClient.c).  Stream threads (networkLib.c) share one      *)
(* command client per camera and count their references to it; one event   *)
(* loop connects each client, logs it in, keeps it alive with heartbeats,  *)
(* tries again after a failure and removes a client nobody refers to.      *)
(*                                                                         *)
(* The loop goes over the list under PC_G_Lock, waits in select without    *)
(* it, and goes over the list again.  A client is added under the lock; a  *)
(* reference is given up without it, so that a count may be read, changed  *)
(* by another thread, and written back.  The history variable tear says    *)
(* whose counts that has happened to; no action reads it.                  *)
(***************************************************************************)
EXTENDS Integers, Sequences, FiniteSets

CONSTANTS Users,      \* stream threads
          Cams,       \* an address, a user name and a password
          Clients,    \* memory for command clients
          MaxFaults,  \* bounds the faults of cameras, network and socket calls
          MaxBox,     \* bounds what a camera sends unasked
          MaxRef,     \* bound: counts that are raised are below it
          MaxBelow,   \* bound: counts that are lowered are above -MaxBelow
          NONE        \* nobody; no client; no camera

ASSUME PteAssumption == /\ IsFiniteSet(Users)
                        /\ IsFiniteSet(Clients)
                        /\ MaxFaults \in Nat
                        /\ MaxBox \in Nat
                        /\ MaxRef \in Nat
                        /\ MaxBelow \in Nat
                        /\ NONE \notin Users \cup Cams \cup Clients \cup {"loop"}
                        /\ "loop" \notin Users

VARIABLES mutex,     \* holder of PC_G_Lock
          list,      \* PC_G_CmdClientList
          cam,       \* client -> whom it is for
          ref,       \* client -> refCount
          state, step, due,    \* client -> state, longinStep, timeout <= 0
          link,      \* client -> the connection on sockFd, "none" without one
          ask, box, auth,  \* client -> requests and replies on that connection,
                           \* and whether the camera has accepted the login on it
          fds,       \* number of sockets the clients have open
          pc, ptr, want, reg,  \* user -> where it is, its pCmdClient, the
                               \* camera it logs in to, refCount as it read it
          at, watch, todo,     \* where the loop is, the clients in its sets,
                               \* and those it still has to visit
          faults,    \* number of faults so far
          tear       \* history: client -> "none", "high" once a decrement of its
                     \* count was overwritten, "low" once an increment was

clients == <<list, cam, ref>>
machine == <<state, step, due>>
wire    == <<ask, box, auth>>
conn    == <<link, wire, fds>>
users   == <<pc, ptr, want, reg, tear>>
loop    == <<at, watch, todo>>
vars    == <<mutex, clients, machine, conn, users, loop, faults>>

Logged == {"LOGINED", "SEND_HEARTBEAT", "RECIVE_HEARTBEAT"}

\* A state in which only the other side, or the end of the time it is given,
\* takes the client further.
Awaiting(c) == \/ state[c] \in {"CONNECTING", "RECIVE_HEARTBEAT"}
               \/ state[c] = "CONNECTED" /\ step[c] \in {1, 3}

Fault == faults < MaxFaults /\ faults' = faults + 1

\* Into a state, with a new time limit.
GoTo(c, s) == /\ state' = [state EXCEPT ![c] = s]
              /\ due' = [due EXCEPT ![c] = FALSE]

Open(c) == IF link[c] = "none" THEN 0 ELSE 1

\* NET_SOCKET_CLOSE, and a new socket if there is one.
Socket(c, l) ==
    /\ link' = [link EXCEPT ![c] = l]
    /\ fds' = (fds - Open(c)) + (IF l = "none" THEN 0 ELSE 1)
    /\ ask' = [ask EXCEPT ![c] = <<>>]
    /\ box' = [box EXCEPT ![c] = <<>>]
    /\ auth' = [auth EXCEPT ![c] = FALSE]

Visit(c) == /\ at = "first"
            /\ c \in todo
            /\ todo' = todo \ {c}
            /\ UNCHANGED <<mutex, at, pc, ptr, want, reg>>

\* A visit to a client that is not to be removed.
Serve(c) == /\ Visit(c)
            /\ ref[c] > 0
            /\ UNCHANGED <<clients, tear>>

Watch(c) == watch' = watch \cup {c}

\* A visit in the second pass.
Handle(c) == /\ at = "second"
             /\ c \in todo
             /\ todo' = todo \ {c}
             /\ UNCHANGED <<mutex, at, watch, users, clients, faults>>

\* send on an open connection succeeds; on a lost one it may seem to.
Send(c, request) ==
    /\ ask' = IF link[c] = "up" THEN [ask EXCEPT ![c] = Append(@, request)] ELSE ask
    /\ UNCHANGED <<link, box, auth, fds, faults>>

\* recv takes the first message.
Receive(c) == /\ box[c] # <<>>
              /\ box' = [box EXCEPT ![c] = Tail(@)]
              /\ UNCHANGED <<ask, auth, link, fds>>

\* Who has read the count of c and has not written it yet.
Counting(c, where) == {v \in Users : pc[v] \in where /\ ptr[v] = c}

\* What became of a count is forgotten with the memory, unless somebody still
\* points there.
Forgive(c) == tear' = IF \E v \in Users : ptr[v] = c THEN tear
                      ELSE [tear EXCEPT ![c] = "none"]

\* PC_AddCmdClient up to reading the count: the client of this camera,
Found(u, c) ==
    /\ c \in list /\ cam[c] = want[u]
    /\ ref[c] < MaxRef
    /\ reg' = [reg EXCEPT ![u] = ref[c]]
    /\ UNCHANGED <<clients, tear>>

\* or a new one, which PC_CreateCmdClient leaves in PC_CMD_INIT without a socket.
Created(u, c) ==
    /\ c \notin list /\ \A d \in list : cam[d] # want[u]
    /\ list' = list \cup {c}
    /\ cam' = [cam EXCEPT ![c] = want[u]]
    /\ ref' = [ref EXCEPT ![c] = 0]
    /\ reg' = [reg EXCEPT ![u] = 0]
    /\ Forgive(c)

-----------------------------------------------------------------------------
(* Faults a change to the code could introduce, each set in the place of   *)
(* the definition it is a variant of to see that a property notices it.    *)

\* A user that gives up its client forgets to say so.
DropSilently(u) ==
    /\ pc[u] = "dropping"
    /\ ptr' = [ptr EXCEPT ![u] = NONE]
    /\ reg' = [reg EXCEPT ![u] = 0]
    /\ pc' = [pc EXCEPT ![u] = IF want[u] = NONE THEN "out" ELSE "lookup"]
    /\ UNCHANGED <<mutex, clients, machine, conn, want, loop, faults, tear>>

\* PC_AddCmdClient goes over the list without the lock.
LookupUnlocked(u) ==
    /\ pc[u] = "lookup"
    /\ \E c \in Clients :
        /\ Found(u, c) \/ Created(u, c)
        /\ ptr' = [ptr EXCEPT ![u] = c]
    /\ want' = [want EXCEPT ![u] = NONE]
    /\ pc' = [pc EXCEPT ![u] = "retaining"]
    /\ UNCHANGED <<mutex, machine, conn, loop, faults>>

\* A client without references is passed over, and stays.
PassUnused(c) ==
    /\ Visit(c)
    /\ ref[c] <= 0
    /\ UNCHANGED <<clients, machine, conn, watch, faults, tear>>

\* The next request of the login is sent without an answer to the last one.
SendLoginAtOnce(c) ==
    /\ Serve(c)
    /\ state[c] = "CONNECTED"
    /\ Send(c, "login")
    /\ step' = [step EXCEPT ![c] = @ + 1]
    /\ Watch(c)
    /\ UNCHANGED <<state, due>>

\* A new attempt forgets the socket of the last one.
DialAnew(c) ==
    /\ Serve(c)
    /\ state[c] = "INIT"
    /\ GoTo(c, "CONNECTING")
    /\ link' = [link EXCEPT ![c] = "opening"]
    /\ fds' = fds + 1
    /\ ask' = [ask EXCEPT ![c] = <<>>]
    /\ box' = [box EXCEPT ![c] = <<>>]
    /\ auth' = [auth EXCEPT ![c] = FALSE]
    /\ Watch(c)
    /\ UNCHANGED <<step, faults>>

\* The login of a new connection goes on where the last one's ended.
ConnectedAgain(c) ==
    /\ Handle(c)
    /\ state[c] = "CONNECTING"
    /\ GoTo(c, "CONNECTED")
    /\ UNCHANGED <<step, conn>>

\* The reply to the login is not looked at.
LoginUnchecked(c) ==
    /\ Handle(c)
    /\ state[c] = "CONNECTED" /\ step[c] = 3
    /\ Receive(c)
    /\ GoTo(c, "LOGINED")
    /\ UNCHANGED step

-----------------------------------------------------------------------------
(* The stream threads.                                                     *)

\* PC_Login of a thread that has no command client (PC_InitCtx has found the list
\* there).
LoginFirst(u) == \E k \in Cams :
    /\ pc[u] = "out"
    /\ want' = [want EXCEPT ![u] = k]
    /\ pc' = [pc EXCEPT ![u] = "lookup"]
    /\ UNCHANGED <<mutex, clients, machine, conn, ptr, reg, loop, faults, tear>>

\* PC_Login to another camera than before, and PC_Delete, read the count of the
\* client.  (PC_Login to the same camera changes nothing: it looks at the state
\* up to three times.)
Leave(u) == \E k \in Cams \cup {NONE} :
    /\ pc[u] = "using"
    /\ k = NONE \/ cam[ptr[u]] # k
    /\ ref[ptr[u]] > -MaxBelow
    /\ want' = [want EXCEPT ![u] = k]
    /\ reg' = [reg EXCEPT ![u] = ref[ptr[u]]]
    /\ pc' = [pc EXCEPT ![u] = "dropping"]
    /\ UNCHANGED <<mutex, clients, machine, conn, ptr, loop, faults, tear>>

\* The count is written back, one less, and the pointer is given up.
Drop(u) ==
    /\ pc[u] = "dropping"
    /\ ref' = [ref EXCEPT ![ptr[u]] = reg[u] - 1]
    /\ ptr' = [ptr EXCEPT ![u] = NONE]
    /\ reg' = [reg EXCEPT ![u] = 0]
    /\ pc' = [pc EXCEPT ![u] = IF want[u] = NONE THEN "out" ELSE "lookup"]
    /\ tear' = IF Counting(ptr[u], {"dropping", "retaining"}) # {u}
                  /\ tear[ptr[u]] = "none"
               THEN [tear EXCEPT ![ptr[u]] = "high"] ELSE tear
    /\ UNCHANGED <<mutex, list, cam, machine, conn, want, loop, faults>>

\* PC_AddCmdClient up to reading the count.
Lookup(u) ==
    /\ pc[u] = "lookup" /\ mutex = NONE
    /\ \E c \in Clients :
        /\ Found(u, c) \/ Created(u, c)
        /\ ptr' = [ptr EXCEPT ![u] = c]
    /\ mutex' = u
    /\ want' = [want EXCEPT ![u] = NONE]
    /\ pc' = [pc EXCEPT ![u] = "retaining"]
    /\ UNCHANGED <<machine, conn, loop, faults>>

\* No memory for a new one: PC_Login returns -1.
LookupFails(u) ==
    /\ pc[u] = "lookup" /\ mutex = NONE
    /\ \A d \in list : cam[d] # want[u]
    /\ want' = [want EXCEPT ![u] = NONE]
    /\ pc' = [pc EXCEPT ![u] = "out"]
    /\ UNCHANGED <<mutex, clients, machine, conn, ptr, reg, loop, faults, tear>>

\* The rest of PC_AddCmdClient.
Retain(u) ==
    /\ pc[u] = "retaining"
    /\ ref' = [ref EXCEPT ![ptr[u]] = reg[u] + 1]
    /\ reg' = [reg EXCEPT ![u] = 0]
    /\ tear' = IF Counting(ptr[u], {"dropping"}) # {}
               THEN [tear EXCEPT ![ptr[u]] = "low"] ELSE tear
    /\ mutex' = NONE
    /\ pc' = [pc EXCEPT ![u] = "using"]
    /\ UNCHANGED <<list, cam, machine, conn, ptr, want, loop, faults>>

-----------------------------------------------------------------------------
(* PC_SingleStep, the first pass.                                          *)

LoopLock ==
    /\ at = "idle" /\ mutex = NONE
    /\ mutex' = "loop"
    /\ at' = "first"
    /\ todo' = list
    /\ UNCHANGED <<clients, machine, conn, users, watch, faults>>

\* PC_DeleteCmdClient: nobody refers to it.
Remove(c) ==
    /\ Visit(c)
    /\ ref[c] <= 0
    /\ list' = list \ {c}
    /\ cam' = [cam EXCEPT ![c] = NONE]
    /\ ref' = [ref EXCEPT ![c] = 0]
    /\ step' = [step EXCEPT ![c] = 0]
    /\ GoTo(c, "INIT")
    /\ Socket(c, "none")
    /\ Forgive(c)
    /\ UNCHANGED <<watch, faults>>

\* The old socket is closed; a new one begins to connect.
Dial(c) ==
    /\ Serve(c)
    /\ state[c] = "INIT"
    /\ GoTo(c, "CONNECTING")
    /\ Socket(c, "opening")
    /\ Watch(c)
    /\ UNCHANGED <<step, faults>>

DialFails(c) ==
    /\ Serve(c)
    /\ state[c] = "INIT"
    /\ GoTo(c, "FAILED")
    /\ Socket(c, "none")
    /\ Fault
    /\ UNCHANGED <<step, watch>>

ConnectLate(c) ==
    /\ Serve(c)
    /\ state[c] = "CONNECTING" /\ due[c]
    /\ GoTo(c, "FAILED")
    /\ Socket(c, "none")
    /\ UNCHANGED <<step, watch, faults>>

\* No reply in time; the socket stays open.
AnswerLate(c) ==
    /\ Serve(c)
    /\ Awaiting(c) /\ state[c] # "CONNECTING" /\ due[c]
    /\ GoTo(c, "FAILED")
    /\ UNCHANGED <<step, watch, conn, faults>>

Wait(c) ==
    /\ Serve(c)
    /\ Awaiting(c) \/ state[c] = "LOGINED"
    /\ ~due[c]
    /\ Watch(c)
    /\ UNCHANGED <<machine, conn, faults>>

\* send notices that the connection is lost.
SendFails(c) == link[c] = "down" /\ UNCHANGED <<conn, faults>>

\* Steps 0 and 2 of PC_CmdLogin do not look at the time.
SendLogin(c) ==
    /\ Serve(c)
    /\ state[c] = "CONNECTED" /\ step[c] \in {0, 2}
    /\ Send(c, IF step[c] = 0 THEN "serial" ELSE "login")
    /\ step' = [step EXCEPT ![c] = @ + 1]
    /\ Watch(c)
    /\ UNCHANGED <<state, due>>

SendLoginFails(c) ==
    /\ Serve(c)
    /\ state[c] = "CONNECTED" /\ step[c] \in {0, 2}
    /\ SendFails(c)
    /\ GoTo(c, "FAILED")
    /\ UNCHANGED <<step, watch>>

HeartbeatDue(c) ==
    /\ Serve(c)
    /\ state[c] = "LOGINED" /\ due[c]
    /\ state' = [state EXCEPT ![c] = "SEND_HEARTBEAT"]
    /\ UNCHANGED <<step, due, watch, conn, faults>>

SendHeartbeat(c) ==
    /\ Serve(c)
    /\ state[c] = "SEND_HEARTBEAT"
    /\ Send(c, "beat")
    /\ GoTo(c, "RECIVE_HEARTBEAT")
    /\ UNCHANGED <<step, watch>>

SendHeartbeatFails(c) ==
    /\ Serve(c)
    /\ state[c] = "SEND_HEARTBEAT"
    /\ SendFails(c)
    /\ GoTo(c, "FAILED")
    /\ UNCHANGED <<step, watch>>

\* Five seconds after a failure it is tried again, on the next pass.
Retry(c) ==
    /\ Serve(c)
    /\ state[c] = "FAILED"
    /\ state' = IF due[c] THEN [state EXCEPT ![c] = "INIT"] ELSE state
    /\ UNCHANGED <<step, due, watch, conn, faults>>

LoopUnlock ==
    /\ at = "first" /\ todo = {}
    /\ mutex' = NONE
    /\ at' = "select"
    /\ UNCHANGED <<clients, machine, conn, users, watch, todo, faults>>

-----------------------------------------------------------------------------
(* select, and the second pass.                                            *)

\* Only a client that is connecting is watched for writing, and it becomes
\* writable too when its connection is refused.
Ready(c) == IF state[c] = "CONNECTING" THEN link[c] # "opening"
                                       ELSE link[c] = "down" \/ box[c] # <<>>

SelectTimesOut ==
    /\ at = "select"
    /\ \A c \in watch : ~Ready(c)
    /\ at' = "idle"
    /\ watch' = {}
    /\ UNCHANGED <<mutex, clients, machine, conn, users, todo, faults>>

Select ==
    /\ at = "select" /\ mutex = NONE
    /\ \E c \in watch : Ready(c)
    /\ mutex' = "loop"
    /\ at' = "second"
    /\ todo' = {c \in watch : Ready(c)}
    /\ UNCHANGED <<clients, machine, conn, users, watch, faults>>

Connected(c) ==
    /\ Handle(c)
    /\ state[c] = "CONNECTING"
    /\ GoTo(c, "CONNECTED")
    /\ step' = [step EXCEPT ![c] = 0]
    /\ UNCHANGED conn

\* Step 1 of PC_CmdLogin: the time limit is still the one of the connection.
ReadSerial(c) ==
    /\ Handle(c)
    /\ state[c] = "CONNECTED" /\ step[c] = 1
    /\ Receive(c)
    /\ step' = [step EXCEPT ![c] = 2]
    /\ UNCHANGED <<state, due>>

\* Step 3 of PC_CmdLogin.
ReadLogin(c) ==
    /\ Handle(c)
    /\ state[c] = "CONNECTED" /\ step[c] = 3
    /\ Receive(c)
    /\ GoTo(c, IF Head(box[c]) = "refused" THEN "FAILED" ELSE "LOGINED")
    /\ UNCHANGED step

ReciveHeartbeat(c) ==
    /\ Handle(c)
    /\ state[c] = "RECIVE_HEARTBEAT"
    /\ Receive(c)
    /\ GoTo(c, "LOGINED")
    /\ UNCHANGED step

\* What a camera sends unasked is read and ignored.
Ignore(c) ==
    /\ Handle(c)
    /\ state[c] = "LOGINED"
    /\ Receive(c)
    /\ UNCHANGED machine

\* recv finds the connection closed.
ReceiveFails(c) ==
    /\ Handle(c)
    /\ state[c] # "CONNECTING"
    /\ link[c] = "down" /\ box[c] = <<>>
    /\ GoTo(c, "FAILED")
    /\ UNCHANGED <<step, conn>>

StepDone ==
    /\ at = "second" /\ todo = {}
    /\ mutex' = NONE
    /\ at' = "idle"
    /\ watch' = {}
    /\ UNCHANGED <<clients, machine, conn, users, todo, faults>>

-----------------------------------------------------------------------------
(* Cameras, network and clock.                                             *)

Accept(c) ==
    /\ link[c] = "opening"
    /\ link' = [link EXCEPT ![c] = "up"]
    /\ UNCHANGED <<mutex, clients, machine, wire, fds, users, loop, faults>>

\* The camera answers its next request, and may refuse a login.
Answer(c, reply) ==
    /\ link[c] = "up" /\ ask[c] # <<>>
    /\ IF reply = "refused" THEN Head(ask[c]) = "login" /\ Fault
                            ELSE UNCHANGED faults
    /\ auth' = [auth EXCEPT ![c] = @ \/ (Head(ask[c]) = "login" /\ reply = "ok")]
    /\ ask' = [ask EXCEPT ![c] = Tail(@)]
    /\ box' = [box EXCEPT ![c] = Append(@, reply)]
    /\ UNCHANGED <<mutex, clients, machine, link, fds, users, loop>>

Event(c) ==
    /\ link[c] = "up" /\ auth[c]
    /\ Len(ask[c]) + Len(box[c]) < MaxBox
    /\ box' = [box EXCEPT ![c] = Append(@, "ok")]
    /\ UNCHANGED <<mutex, clients, machine, link, ask, auth, fds, users, loop, faults>>

\* The connection is refused or lost, with what was on its way.
Lost(c) ==
    /\ link[c] \in {"opening", "up"}
    /\ Fault
    /\ link' = [link EXCEPT ![c] = "down"]
    /\ ask' = [ask EXCEPT ![c] = <<>>]
    /\ box' = [box EXCEPT ![c] = <<>>]
    /\ UNCHANGED <<mutex, clients, machine, auth, fds, users, loop>>

\* The time limit of a state passes; a reply that comes too late is a fault.
Expire(c) ==
    /\ c \in list /\ ~due[c]
    /\ state[c] \in {"LOGINED", "FAILED"} \/ Awaiting(c)
    /\ IF Awaiting(c) THEN Fault ELSE UNCHANGED faults
    /\ due' = [due EXCEPT ![c] = TRUE]
    /\ UNCHANGED <<mutex, clients, state, step, conn, users, loop>>

-----------------------------------------------------------------------------
Init ==
    /\ mutex = NONE
    /\ list = {}
    /\ cam = [c \in Clients |-> NONE]
    /\ ref = [c \in Clients |-> 0]
    /\ state = [c \in Clients |-> "INIT"]
    /\ step = [c \in Clients |-> 0]
    /\ due = [c \in Clients |-> FALSE]
    /\ link = [c \in Clients |-> "none"]
    /\ ask = [c \in Clients |-> <<>>]
    /\ box = [c \in Clients |-> <<>>]
    /\ auth = [c \in Clients |-> FALSE]
    /\ fds = 0
    /\ pc = [u \in Users |-> "out"]
    /\ ptr = [u \in Users |-> NONE]
    /\ want = [u \in Users |-> NONE]
    /\ reg = [u \in Users |-> 0]
    /\ tear = [c \in Clients |-> "none"]
    /\ at = "idle"
    /\ watch = {}
    /\ todo = {}
    /\ faults = 0

UserStep(u) == LoginFirst(u) \/ Leave(u) \/ Drop(u) \/ Lookup(u) \/ LookupFails(u) \/ Retain(u)

FirstPass(c) == \/ Remove(c) \/ Dial(c) \/ DialFails(c) \/ ConnectLate(c)
                \/ AnswerLate(c) \/ Wait(c) \/ SendLogin(c) \/ SendLoginFails(c)
                \/ HeartbeatDue(c) \/ SendHeartbeat(c) \/ SendHeartbeatFails(c)
                \/ Retry(c)

SecondPass(c) == \/ Connected(c) \/ ReadSerial(c) \/ ReadLogin(c)
                 \/ ReciveHeartbeat(c) \/ Ignore(c) \/ ReceiveFails(c)

SingleStep == \/ LoopLock \/ LoopUnlock \/ SelectTimesOut \/ Select \/ StepDone
              \/ \E c \in Clients : FirstPass(c) \/ SecondPass(c)

World(c) == \/ Accept(c) \/ Event(c) \/ Lost(c) \/ Expire(c)
            \/ \E reply \in {"ok", "refused"} : Answer(c, reply)

Next == \/ \E u \in Users : UserStep(u)
        \/ SingleStep
        \/ \E c \in Clients : World(c)

Spec == Init /\ [][Next]_vars

\* The loop goes on and gets the lock if it keeps becoming free; a user finishes
\* the steps that do not need the lock; a camera that is reached answers; time
\* passes.
FairSpec ==
    /\ Spec
    /\ SF_vars(SingleStep)
    /\ \A u \in Users : WF_vars(Drop(u) \/ Retain(u))
    /\ \A c \in Clients : /\ WF_vars(Accept(c))
                          /\ WF_vars(Answer(c, "ok"))
                          /\ WF_vars(~Awaiting(c) /\ Expire(c))

-----------------------------------------------------------------------------
TypeOK ==
    /\ mutex \in Users \cup {"loop", NONE}
    /\ list \subseteq Clients
    /\ cam \in [Clients -> Cams \cup {NONE}]
    /\ ref \in [Clients -> Int]
    /\ state \in [Clients -> Logged \cup {"INIT", "CONNECTING", "CONNECTED", "FAILED"}]
    /\ step \in [Clients -> 0 .. 3]
    /\ due \in [Clients -> BOOLEAN]
    /\ link \in [Clients -> {"none", "opening", "up", "down"}]
    /\ ask \in [Clients -> Seq({"serial", "login", "beat"})]
    /\ box \in [Clients -> Seq({"ok", "refused"})]
    /\ auth \in [Clients -> BOOLEAN]
    /\ fds \in Int
    /\ pc \in [Users -> {"out", "lookup", "retaining", "using", "dropping"}]
    /\ ptr \in [Users -> Clients \cup {NONE}]
    /\ want \in [Users -> Cams \cup {NONE}]
    /\ reg \in [Users -> Int]
    /\ tear \in [Clients -> {"none", "high", "low"}]
    /\ at \in {"idle", "first", "select", "second"}
    /\ watch \subseteq Clients
    /\ todo \subseteq Clients
    /\ faults \in 0 .. MaxFaults

Holders(c) == {u \in Users : ptr[u] = c /\ pc[u] # "retaining"}

\* pteClient.h calls refCount the number of references: a client is referred
\* to by as many users as it counts.
RefsCounted == \A c \in list : ref[c] = Cardinality(Holders(c))

\* That is so unless two of its users have changed it at the same time; and then
\* it is never too low unless one of them added a reference between the other's
\* read and write, so that whatever else happens no client in use is removed.
MiscountedOnlyIfTorn ==
    \A c \in list :
        /\ tear[c] = "none" => ref[c] = Cardinality(Holders(c))
        /\ tear[c] # "low" => ref[c] >= Cardinality(Holders(c))

\* A client that a user points at has not been freed by the loop, whatever the
\* other users of the camera do, unless one of their references was lost.
HeldIsListed == \A u \in Users :
    ptr[u] # NONE /\ tear[ptr[u]] # "low" => ptr[u] \in list

\* No camera has two clients, however the references are counted.
OneClientPerCamera ==
    \A c, d \in list : cam[c] = cam[d] => c = d

\* A client that passes for logged in has been accepted by the camera on the
\* connection it has now, not on one before a retry.
LoggedInHere == \A c \in Clients : state[c] \in Logged => auth[c]

\* Over any number of retries and removals the clients have no more sockets open
\* than they know of, and close none twice.
SocketsKnown == fds = Cardinality({c \in Clients : link[c] # "none"})

\* The list with its lock and its counts keeps the promise of ClientPool: users of
\* a camera share one client, which is theirs until the last of them has left it,
\* unless two of them have spoilt its count.
Pool == INSTANCE ClientPool WITH serves <- cam, using <- ptr,
                                 spoilt <- {c \in Clients : tear[c] = "low"}

PoolSpec == Pool!Spec

Serving(k) == {c \in list : cam[c] = k}

\* Whatever failed before, a camera whose client is referred to gets logged in to
\* once the faults are over, unless its users leave it.
LoginSucceeds == \A k \in Cams :
    (\E c \in Serving(k) : ref[c] > 0)
        ~> \/ \E c \in Serving(k) : state[c] \in Logged
           \/ \A c \in Serving(k) : ref[c] <= 0

\* A client that counts no user any more is removed, with its connection, unless a
\* user comes back before.  (After a lost decrement it counts one for ever.)
UnusedIsRemoved == \A k \in Cams :
    (\E c \in Serving(k) : ref[c] = 0)
        ~> Serving(k) = {} \/ \E c \in Serving(k) : ref[c] > 0
=============================================================================
