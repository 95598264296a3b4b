----------------------------- MODULE PortChange -----------------------------
(***************************************************************************)
(* Changing the ports of the RTSP and of the web server while they serve.  *)
(* The ports are rows of the database, read and written under one mutex    *)
(* (databaseLib.c) and cached in g_DbNetMngCfg.  A write starts a thread   *)
(* (DbSystem.c, NetMngChangeThread) that closes each server whose port is  *)
(* another one and opens it again; restoring the defaults does the same in *)
(* the thread that holds the mutex.  The servers (rtspSLib.c, boa.c) loop  *)
(* while their run flag is set, leave the loop when they see their update  *)
(* flag, and clear the run flag, which the closing thread waits for.       *)
(*                                                                         *)
(* The web server is itself a client of the database: its pages read and   *)
(* write it in the server's thread.                                        *)
(*                                                                         *)
(* No change begins during a restore, which holds the mutex, but a restore *)
(* does not ask whether a change is under way: then two threads close and  *)
(* open the same servers.  The history variable overlap says so; no action *)
(* reads it but for the bound of the model.                                *)
(***************************************************************************)
EXTENDS Naturals

CONSTANTS Threads,   \* threads, apart from the web server's, that use the database
          Ports,     \* port numbers
          Default,   \* the port a restore sets
          Busy,      \* bound: who may begin a call while a restore meets a change
          NONE       \* no thread; a socket that is not open

ASSUME PortAssumption == /\ Default \in Ports
                         /\ NONE \notin Ports \cup Threads
                         /\ NONE \notin {"rtsp", "boa", "change"}
                         /\ "boa" \notin Threads
                         /\ "change" \notin Threads

Servers == {"rtsp", "boa"}
Callers == Threads \cup {"boa"}       \* of databaseOperate
Closers == Callers \cup {"change"}    \* "change" is NetMngChangeThread

VARIABLES alive,     \* FALSE once the program has called exit
          mutex,     \* holder of databaseMutex
          cfg,       \* server -> its port in the database and in g_DbNetMngCfg
          new,       \* portinfo: server -> the port to change to; no more than
                     \* cfg when no change is under way and nobody reads it
          changing,  \* changingPortInfo
          run,       \* server -> g_rtspServerRun, g_boaRun
          update,    \* server -> g_updateParam, the boa update flag
          listen,    \* server -> port of its listening socket
          fd,        \* the socket the RTSP server's thread waits on, NONE when
                     \* it is out of its loop and will read it again
          at,        \* server -> where its thread is
          pc, ask,   \* caller -> where it is, and what it wants
          work,      \* closer -> server -> how far the reopening has got
          overlap    \* history: "present" while a restore and a change that met
                     \* are under way, "past" until a later restore has ended

store   == <<cfg, new, changing>>
flags   == <<run, update>>
sockets == <<listen, fd>>
calls   == <<mutex, pc, ask>>
vars    == <<alive, store, flags, sockets, at, calls, work, overlap>>

Idle   == [s \in Servers |-> "none"]
Before == {"todo", "marked"}   \* the server is not closed yet

\* The changing thread closes and opens the RTSP server first, a restore the
\* web server.
First(p) == IF p = "change" THEN "rtsp" ELSE "boa"

Target(p, s) == IF p = "change" THEN new[s] ELSE Default

Advance(p, s, to) == work' = [work EXCEPT ![p][s] = to]

\* All are closed, and the first one has been opened again.
MayOpen(p, s) ==
    /\ work[p][s] = "closed"
    /\ \A t \in Servers : work[p][t] \notin Before
    /\ s # First(p) => work[p][First(p)] # "closed" /\ work[p][First(p)] # "listening"

-----------------------------------------------------------------------------
(* Faults a change to the code could introduce, each set in the place of   *)
(* the definition it is a variant of to see that a property notices it.    *)

\* The closing thread does not wait for the server to leave its loop.
CloseAtOnce(p, s) ==
    /\ work[p][s] = "marked"
    /\ s # First(p) => work[p][First(p)] \notin Before
    /\ listen' = [listen EXCEPT ![s] = NONE]
    /\ Advance(p, s, "closed")
    /\ UNCHANGED <<alive, store, flags, fd, at, calls, overlap>>

\* The server is waited for without having been told to leave its loop.
MarkSilently(p, s) ==
    /\ work[p][s] = "todo"
    /\ s # First(p) => work[p][First(p)] \notin Before
    /\ Advance(p, s, "marked")
    /\ UNCHANGED <<alive, store, flags, sockets, at, calls, overlap>>

\* The new ports are compared with the cache after it has been written.
SetAfterCopy(c) == \E p \in [Servers -> Ports] :
    /\ pc[c] = "inside" /\ ask[c] = "access"
    /\ ~changing
    /\ changing' = TRUE
    /\ new' = p
    /\ work' = [work EXCEPT !["change"] = Idle]
    /\ pc' = [pc EXCEPT ![c] = "storing"]
    /\ UNCHANGED <<alive, cfg, flags, sockets, at, mutex, ask, overlap>>

\* A restore tells only the web server to leave its loop, and waits for both.
RestoreHalf(c) ==
    /\ pc[c] = "inside" /\ ask[c] = "default"
    /\ cfg' = [s \in Servers |-> Default]
    /\ update' = [update EXCEPT !["boa"] = TRUE]
    /\ work' = [work EXCEPT ![c] = [s \in Servers |-> "marked"]]
    /\ pc' = [pc EXCEPT ![c] = "restoring"]
    /\ overlap' = IF changing THEN "present" ELSE overlap
    /\ UNCHANGED <<alive, new, changing, run, sockets, at, mutex, ask>>

\* A server that is closed for good no longer names a socket.
ListenNowhere(p, s) ==
    /\ MayOpen(p, s)
    /\ listen' = [listen EXCEPT ![s] = 0]
    /\ Advance(p, s, "listening")
    /\ UNCHANGED <<alive, store, flags, fd, at, calls, overlap>>

-----------------------------------------------------------------------------
(* The server threads.                                                     *)

\* The outer loop of the RTSP server reads the socket that the inner loop will
\* wait on.  (The web server's does too, but a stale one is ignored there.)
ReadSocket ==
    /\ at["rtsp"] = "outer"
    /\ fd' = listen["rtsp"]
    /\ at' = [at EXCEPT !["rtsp"] = "testing"]
    /\ UNCHANGED <<alive, store, flags, listen, calls, work, overlap>>

Enter(s) ==
    /\ at[s] = "testing"
    /\ run[s] /\ ~update[s]
    /\ at' = [at EXCEPT ![s] = "turn"]
    /\ UNCHANGED <<alive, store, flags, sockets, calls, work, overlap>>

Leave(s) ==
    /\ at[s] = "testing"
    /\ ~run[s] \/ update[s]
    /\ at' = [at EXCEPT ![s] = "leaving"]
    /\ fd' = IF s = "rtsp" THEN NONE ELSE fd
    /\ UNCHANGED <<alive, store, flags, listen, calls, work, overlap>>

\* The run flag is cleared some time after it was tested.
ClearRun(s) ==
    /\ at[s] = "leaving"
    /\ run' = [run EXCEPT ![s] = FALSE]
    /\ at' = [at EXCEPT ![s] = IF s = "rtsp" THEN "outer" ELSE "testing"]
    /\ UNCHANGED <<alive, store, update, sockets, calls, work, overlap>>

\* A turn of the inner loop ends when its requests are answered.
Turn(s) ==
    /\ at[s] = "turn"
    /\ s = "boa" => pc["boa"] = "idle"
    /\ at' = [at EXCEPT ![s] = "testing"]
    /\ UNCHANGED <<alive, store, flags, sockets, calls, work, overlap>>

\* select on a socket that has been closed; the web server ignores EBADF.
SelectFails ==
    /\ at["rtsp"] = "turn"
    /\ fd # NONE /\ fd # listen["rtsp"]
    /\ at' = [at EXCEPT !["rtsp"] = "leaving"]
    /\ fd' = NONE
    /\ UNCHANGED <<alive, store, flags, listen, calls, work, overlap>>

-----------------------------------------------------------------------------
(* databaseOperate.                                                        *)

\* An access reads or writes, a "default" restores the network defaults.  A page
\* asks in a turn of the web server; a restore that is asked for there
\* runs in a thread of its own, one of Threads.
Ask(c) == \E what \in {"access", "default"} :
    /\ pc[c] = "idle"
    /\ overlap = "present" => c \in Busy
    /\ c = "boa" => at["boa"] = "turn" /\ what # "default"
    /\ pc' = [pc EXCEPT ![c] = "waiting"]
    /\ ask' = [ask EXCEPT ![c] = what]
    /\ UNCHANGED <<alive, store, flags, sockets, at, mutex, work, overlap>>

Lock(c) ==
    /\ pc[c] = "waiting"
    /\ mutex = NONE
    /\ mutex' = c
    /\ pc' = [pc EXCEPT ![c] = "inside"]
    /\ UNCHANGED <<alive, store, flags, sockets, at, ask, work, overlap>>

Unlock(c) == /\ mutex' = NONE
             /\ pc' = [pc EXCEPT ![c] = "idle"]
             /\ ask' = [ask EXCEPT ![c] = "none"]

\* A read; a write that changes nothing, comes while the ports are changing, or
\* whose statement fails; a restore whose statement fails.
Return(c) ==
    /\ pc[c] = "inside"
    /\ Unlock(c)
    /\ UNCHANGED <<alive, store, flags, sockets, at, work, overlap>>

\* DbUpdate_NetMngCfg up to the thread it creates.
Set(c) == \E p \in [Servers -> Ports] :
    /\ pc[c] = "inside" /\ ask[c] = "access"
    /\ ~changing
    /\ changing' = TRUE
    /\ new' = p
    /\ work' = [work EXCEPT !["change"] =
                    [s \in Servers |-> IF p[s] = cfg[s] THEN "none" ELSE "todo"]]
    /\ pc' = [pc EXCEPT ![c] = "storing"]
    /\ UNCHANGED <<alive, cfg, flags, sockets, at, mutex, ask, overlap>>

\* The rest of it, and the commit.
Stored(c) ==
    /\ pc[c] = "storing"
    /\ cfg' = new
    /\ Unlock(c)
    /\ UNCHANGED <<alive, new, changing, flags, sockets, at, work, overlap>>

\* DbUpdate_DefaultNetLink: both servers are told, then waited for, whether or
\* not a change is under way.
Restore(c) ==
    /\ pc[c] = "inside" /\ ask[c] = "default"
    /\ cfg' = [s \in Servers |-> Default]
    /\ update' = [s \in Servers |-> TRUE]
    /\ work' = [work EXCEPT ![c] = [s \in Servers |-> "marked"]]
    /\ pc' = [pc EXCEPT ![c] = "restoring"]
    /\ overlap' = IF changing THEN "present" ELSE overlap
    /\ UNCHANGED <<alive, new, changing, run, sockets, at, mutex, ask>>

Restored(c) ==
    /\ pc[c] = "restoring"
    /\ \A s \in Servers : work[c][s] \in {"open", "failed"}
    /\ work' = [work EXCEPT ![c] = Idle]
    /\ Unlock(c)
    /\ overlap' = CASE changing -> overlap
                    [] ~changing /\ overlap = "present" -> "past"
                    [] OTHER -> "none"
    /\ UNCHANGED <<alive, cfg, new, changing, flags, sockets, at>>

-----------------------------------------------------------------------------
(* Closing a server and opening it again: NetMngChangeThread, and a caller *)
(* that restores.                                                          *)

Mark(p, s) ==
    /\ work[p][s] = "todo"
    /\ s # First(p) => work[p][First(p)] \notin Before
    /\ update' = [update EXCEPT ![s] = TRUE]
    /\ Advance(p, s, "marked")
    /\ UNCHANGED <<alive, store, run, sockets, at, calls, overlap>>

\* rtspServerClose, BoaSocketClose: wait for the run flag and close the socket.
\* From here to Listen every session is closed and the senders are freed.
Close(p, s) ==
    /\ work[p][s] = "marked"
    /\ s # First(p) => work[p][First(p)] \notin Before
    /\ ~run[s]
    /\ listen' = [listen EXCEPT ![s] = NONE]
    /\ Advance(p, s, "closed")
    /\ UNCHANGED <<alive, store, flags, fd, at, calls, overlap>>

\* rtspServerReset, BoaResetPort: the socket, and then the flags.
Listen(p, s) ==
    /\ MayOpen(p, s)
    /\ listen' = [listen EXCEPT ![s] = Target(p, s)]
    /\ Advance(p, s, "listening")
    /\ UNCHANGED <<alive, store, flags, fd, at, calls, overlap>>

\* The port cannot be bound: the web server ends the program (DIE), the RTSP
\* server stays closed.
ListenFails(p, s) ==
    /\ MayOpen(p, s)
    /\ alive' = (s # "boa")
    /\ Advance(p, s, "failed")
    /\ UNCHANGED <<store, flags, sockets, at, calls, overlap>>

Open(p, s) ==
    /\ work[p][s] = "listening"
    /\ update' = [update EXCEPT ![s] = FALSE]
    /\ run' = [run EXCEPT ![s] = TRUE]
    /\ Advance(p, s, "open")
    /\ UNCHANGED <<alive, store, sockets, at, calls, overlap>>

\* The end of NetMngChangeThread.
Changed ==
    /\ changing
    /\ \A s \in Servers : work["change"][s] \in {"none", "open", "failed"}
    /\ changing' = FALSE
    /\ new' = IF \E c \in Callers : pc[c] = "storing" THEN new ELSE cfg
    /\ work' = [work EXCEPT !["change"] = Idle]
    /\ overlap' = IF overlap = "present" /\ \A c \in Callers : pc[c] # "restoring"
                  THEN "past" ELSE overlap
    /\ UNCHANGED <<alive, cfg, flags, sockets, at, calls>>

-----------------------------------------------------------------------------
Init ==
    /\ alive = TRUE
    /\ mutex = NONE
    /\ cfg \in [Servers -> Ports]
    /\ new = cfg
    /\ changing = FALSE
    /\ run = [s \in Servers |-> TRUE]
    /\ update = [s \in Servers |-> FALSE]
    /\ listen = cfg
    /\ fd = NONE
    /\ at = [s \in Servers |-> IF s = "rtsp" THEN "outer" ELSE "testing"]
    /\ pc = [c \in Callers |-> "idle"]
    /\ ask = [c \in Callers |-> "none"]
    /\ work = [p \in Closers |-> Idle]
    /\ overlap = "none"

ServerStep(s) == (s = "rtsp" /\ ReadSocket) \/ Enter(s) \/ Leave(s) \/ ClearRun(s) \/ Turn(s)

\* What a caller that holds the mutex does.
Inside(c) == Return(c) \/ Set(c) \/ Stored(c) \/ Restore(c) \/ Restored(c)

Reopen(p, s) == \/ Mark(p, s) \/ Close(p, s) \/ Listen(p, s)
                \/ ListenFails(p, s) \/ Open(p, s)

Step == \/ \E s \in Servers : ServerStep(s)
        \/ SelectFails
        \/ \E c \in Callers : Ask(c) \/ Lock(c) \/ Inside(c)
        \/ \E p \in Closers, s \in Servers : Reopen(p, s)
        \/ Changed

Next == alive /\ Step

Spec == Init /\ [][Next]_vars

\* Every thread goes on as long as it can; whoever waits for the mutex gets it if
\* it keeps becoming free; a turn has a bounded number of requests, so that it
\* ends if its pages keep coming back from the database.
FairSpec ==
    /\ Spec
    /\ \A s \in Servers : WF_vars(alive /\ ServerStep(s))
    /\ SF_vars(alive /\ Turn("boa"))
    /\ \A c \in Callers : /\ WF_vars(alive /\ Inside(c))
                          /\ SF_vars(alive /\ Lock(c))
    /\ \A c \in Threads : WF_vars(alive /\ \E s \in Servers : Reopen(c, s))
    /\ WF_vars(alive /\ (Changed \/ \E s \in Servers : Reopen("change", s)))

-----------------------------------------------------------------------------
TypeOK ==
    /\ alive \in BOOLEAN
    /\ mutex \in Callers \cup {NONE}
    /\ cfg \in [Servers -> Ports]
    /\ new \in [Servers -> Ports]
    /\ changing \in BOOLEAN
    /\ run \in [Servers -> BOOLEAN]
    /\ update \in [Servers -> BOOLEAN]
    /\ listen \in [Servers -> Ports \cup {NONE}]
    /\ fd \in Ports \cup {NONE}
    /\ at \in [Servers -> {"outer", "testing", "turn", "leaving"}]
    /\ pc \in [Callers -> {"idle", "waiting", "inside", "storing", "restoring"}]
    /\ ask \in [Callers -> {"none", "access", "default"}]
    /\ work \in [Closers -> [Servers -> {"none", "todo", "marked",
                                         "closed", "listening", "open", "failed"}]]
    /\ overlap \in {"none", "present", "past"}

\* From the moment another thread closes a server's socket and sessions until it
\* hands the new socket over, the server's own thread is not in its loop, where
\* it walks the same list of sessions without a lock.  That takes a single
\* closer: while a restore meets a change the one sets the run flag under the
\* other, and it is as bad as the code allows; once both have ended it is
\* true again, whatever they left behind.
ClosedAlone ==
    overlap # "present" =>
        \A p \in Closers, s \in Servers :
            work[p][s] \in {"closed", "listening"} => at[s] # "turn"

\* When no change is under way and nobody is in the database, a server's socket
\* is on the port that the database holds, so that a restart of the program
\* would find its clients where they are (an RTSP port that cannot be bound
\* leaves no socket at all).  A restore that met a change ends that, for the
\* change goes on to its own ports; the next one that meets none puts it right.
ListensWhereStored ==
    overlap = "none" /\ ~changing /\ mutex = NONE =>
        \A s \in Servers : listen[s] \in {cfg[s], NONE}

\* A change of ports comes to its end unless a restore meets it: the servers
\* leave their loops although the web server may have to wait for the database
\* first, and writes are accepted again, after an overlap in the past as well.
ChangeFinishes == changing ~> ~changing \/ ~alive \/ overlap = "present"

\* A restore waits for nothing but a page of the web server that waits for the
\* database: without one, and without a change that clears the update flags
\* under it, it comes to its end.
RestoreWaitsForPages ==
    \A c \in Threads : pc[c] = "restoring" ~>
                           \/ pc[c] # "restoring"
                           \/ pc["boa"] = "waiting"
                           \/ ~alive
                           \/ overlap = "present"

\* DbSystem.c:1834 says that DbUpdate_DefaultNetLink restores the defaults of
\* the network configuration: a restore that has begun comes to its end.
RestoreEnds ==
    \A c \in Threads : pc[c] = "restoring" ~> pc[c] # "restoring" \/ ~alive
=============================================================================
