# Verification of the 3535 NVR firmware

The repository is the firmware of a network video recorder on a HiSilicon 3535.
Cameras are pulled in over RTSP, ONVIF or a private protocol; their frames are
shared through in-memory queues and handed out again by an RTSP server and a
peer-to-peer service; a Qt process and a web server configure it. This directory
holds TLA+ models of its concurrent core, the TLC runs that check them on small
instances, and theorems that TLAPS proves for every instance.

All paths below are relative to `src/`.

## 1. The system

```
 camera --RTSP--> rtspCLib + buffer_ring --frames--> frame queue --> RTSP senders --> clients
                     ^  one network thread              (streamLib)   p2p senders --> phones
                     |  per channel and stream                        recorder, decoder (binaries)
 start/stop --> networkLib ------------------------------------------------^ used through
                                                                pVideoFrameQueue of the channel
 Qt process --System V messages--> procMsgLib --> appLib (function table) --> databaseLib, networkLib, ...
```

### Inventory

| component | state | operations | what is hard about it | what makes it correct |
|---|---|---|---|---|
| frame queue, share memory (`streamLib/streamFrameQueue.c`, `myMalloc.c`) | ring of 40 frame pointers, `writePos`, reference count in front of every frame; two cursors per reader, kept by the reader | insert, get, free, flush (`streamFreeAllFrameBuffer`), init, uninit | the first test of a get runs without the lock; the writer laps slow readers; frames are freed outside the lock | counts equal owners; a reader gets frames in order and misses only what was overwritten; a lost reader finds back |
| RTSP server (`rtspSLib/rtspSLib.c`, `hs_rtpLib.c`) | list of sessions with `sessStat`, the sender thread and its buffer, UDP targets per channel, `clientCnt` | accept, DESCRIBE/SETUP/PLAY/TEARDOWN, failed reply, stat check, close | the sender thread writes `sessStat` too, without a lock, and must be joined before its session is freed; a PLAY is several steps, any of which may fail; SETUP is answered in every state | senders are joined before their session is freed and clients counted off, or it is known how many are not; stopped sessions end; a target list is full only of clients |
| network stream threads (`networkLib/networkLib.c`) | per channel: use counts, message queue, `runFlag`, `isConnect`, published frame queue | start, stop, restart, the thread's loop, its end | count, queue and flag have a mutex each, nothing spans two; threads overlap, because a new one starts with a sleep and an old one ends slowly | flags and queues belong to a living thread; an unused channel ends; a used one is served |
| camera stream receiver (`rtspCLib/rtspCLib.c`, `streamLib/buffer_ring.c`) | 1 MB byte ring, `startFlag`, `packetBuf` | receive, parse a packet, reconnect | equal cursors mean full or empty; the parser never asks whether a packet is complete; fragments, audio and RTCP interleave; reconnects in mid-frame | the ring is a queue; the parser stays in step; frames are whole |
| RTSP client handshake (`rtspCLib/rtspFunc.c`) | state of OPTIONS..PLAY, authentication | invite, keep alive, close | reply and stream share a socket | the stream is not lost with the reply (it may be: see RtspReceive) |
| private protocol: receiver and command client (`privateLib`) | same ring; list of command clients with state, countdown, reference count | login, get stream, heartbeat, delete; event loop | list walked twice a turn with the lock released between; count changed outside the lock | a client lives as long as it is referenced; a failed login is retried |
| senders on a frame queue (`rtspSLib/hs_rtpLib.c`, `p2pLib/p2pLib.c`) | cursors, `waitIFrame`, `frameNo`, `noFrame`, the frame in hand | poll, wait for an SPS frame, send, notice a lost frame, give up | frames are lost by laps, jumps and flushes and known by a 16-bit number only; six exits that each have a frame to give back | see `p2pLib` below |
| p2p service (`p2pLib`) | sessions with a `run` flag, sender threads | play, stop, commands, senders | keeps the frame queue pointer; leaves with a frame in its hands | what is taken is freed; a client gets frames it can decode; a stopped session ends |
| Qt messages (`procMsgLib`) | one message queue, one shared block | request, answer | the block is unlocked between request and answer | each request gets its own answer |
| alarm queue, YUV queue, packet queue (`streamLib`) | rings | insert, get | locks commented out | no caller in the C sources |
| port change (`databaseLib/DbSystem.c`, `databaseLib.c`, `rtspSLib.c`, `boaLib/boa.c`) | `databaseMutex`, `g_DbNetMngCfg`, `portinfo`, `changingPortInfo`, the run and update flag and the socket of each server | store new ports, close, reset, restore the defaults; pages of the web server that use the database | run and update flag are a handshake between three threads; one of the closers holds the mutex the server may need | a server is closed only when its thread is out of its loop, and runs again on the port that is stored |
| database, application services, disks, maintenance threads (`databaseLib`, `appLib`, `diskLib`) | SQLite file; tables; mounts | dispatch, polling loops around system calls | little shared state | - |
| web server, allocator, vendor code (`boaLib`, `mempoolLib`, `Hi`, `lib`, `platLib`, `onvif`, `sqlite`; headers and objects only: `recordLib`, `playbackLib`, `alarmLib`, `gpioLib`, ...) | - | - | third-party or without source | - |

How they interact: the network thread of a channel owns the receiver's ring and
the frame queue it publishes in `pVideoFrameQueue`; RTSP and p2p senders, the
recorder and the decoder are its readers; the RTSP server asks
`networkCheckStreamExist` (which reads `isConnect`) before it answers DESCRIBE,
and starts and stops channels like every other user. A network thread of a camera
with the private protocol logs in through the command client of that camera. A
change of ports is stored by any user of the database, the web server among them,
and carried out by a thread of its own. No callbacks: threads share memory, flags
and message queues.

`PROJECT.json` lists every component with its status and the hazards of the modelled and planned parts, each at its line.

## 2. Modules

| module | models | uses |
|---|---|---|
| `FrameLog` | abstract: what a frame queue promises its readers | |
| `FrameQueue` | ring of counted frames, writer, readers | `FrameLog` by a refinement mapping |
| `StreamSender` | RTP and p2p senders on a frame queue | extends `FrameQueue`, composed with it |
| `RtspServer` | sessions and senders of the RTSP server | |
| `NetworkStream` | users and network threads of one channel | |
| `RtspReceive` | camera, socket, ring, parser, frame assembly | |
| `ClientPool` | abstract: what the command clients promise the stream threads | |
| `PteClient` | command clients of the private protocol and their event loop | `ClientPool` by a refinement mapping |
| `PortChange` | ports in the database, the servers that listen on them, who closes and opens them | |
| `MC*` | constants for TLC, nothing else | |
| `CountingLemmas` | cardinality of two sets that differ in one element | |
| `*Proofs` | the theorems of each module | |

### FrameQueue

A frame is the number of its insertion, so order and gaps can be stated.
`pFrameInfo`, `writePos`, `readBegin`, `readEnd` are the code's. What runs under
`frameMutex` is one action (`Insert` with the release of the frame it replaces,
`FreeAll`, `Uninit`). A get is two: `GetEnter` is the unlocked comparison with
`writePos`, then `GetHit` or `GetLost` is the locked part, with the start modes
-1, -2, -3 handled as in the code, which handles only the first two. `FreeFrame`
takes no queue lock. `StartReader` and `StopReader` are a consumer that begins and
ends a session, and `Forget` is one that drops a frame without freeing it, as the
p2p sender does with audio frames; `kept` counts these. After `Uninit` a reader that
has kept the pointer still gets, and finds empty slots: the queue's own memory is
never freed (`networkLib.c:763`), and a lock of its destroyed mutex fails at once.
The constants 40, 20 and 10 of the code
are `MAX_FRAME_QUEUE_NUM`, `SmoothLag` and `LostJump`.

`FrameLog` has no ring: frames 1, 2, 3, ... of which the last `Window` are
remembered, and sessions that are handed them in order and without a gap unless
the next one has been overwritten, or the log emptied since (`Flush`). The mapping is
`Window <- N, published <- inserted, flushed <- flushed`. `flushed`, the newest frame
when the slots were last emptied, is a history variable: a flush sets `writePos` to 0
under the readers' cursors, so nothing else tells how far back the queue may go.
Any number of flushes, at any moment, is allowed.

### StreamSender

The senders are readers of `FrameQueue`; the module has all its variables and adds
what a sender keeps: `waitIFrame`, `frameNo`, `noFrame`, and `sent`, the video
frames of the session. Every action of a sender is a step of the queue together
with what the thread does with the result: `PollEmpty` and `Miss` (no frame, one
more of at most `MaxNoFrame` for an RTP sender, none counted for p2p), `Got`, `Skip`
(not an SPS, or not the next number), `Send` and `SendFails`. The two kinds of
sender differ as in the code: an RTP sender asks for the queue in every turn and
gives up, a p2p sender keeps the pointer, never gives up, and keeps audio frames and
the frame of a failed send. A frame has a kind, because the code looks at the medium
and at the fifth byte; `"spsLike"` is an audio frame whose fifth byte is that of an
SPS, which the code takes for one. A number is the frame's modulo `FRAME_NO_MOD`
(65536), and nothing bounds how many frames are inserted: 65536 frames lost in a row,
or a multiple of them, look to a sender like none, so `SentDecodes` leaves out what was
lost in such a run (`Unnoticed`) and nothing else. The run has `FRAME_NO_MOD = 2`, where
that happens. `SentDecodes` also says what the code does rather than what one would
like: a session begins with a frame that reads like an SPS, be it audio. `run` is a session's `sessStat` (RTP) or its `run` flag (p2p). A
new session waits for the end of the thread of the old one, which p2p does not do.

### RtspServer

A session is a piece of memory, `"free"` or in one of the code's states. The
server thread is `step`/`cur`: in its loop, in a handler for a session, between
what SETUP or PLAY changes and their reply (`answering`, `replying`, `failing`), or
waiting in `pthread_join` (`joining`). `SenderExit` may come at any moment and always
writes STOP. Any request may come in any state, as in the code, and each reply may
fail (`Drop`, `ReplyFails`). `Close` has the branches of `RTSP_SessionClose`: early
return, TCP with stop and join, UDP with its targets; a UDP close of a session that
was stopped before any SETUP uses channel -1 and ends the program (`CloseCrash`).

SETUP of a session that streams makes it READY: the next close frees it without a join
and without taking it off `clientCnt`, and a second PLAY overwrites `tcpThrId`. A
sender that nobody can join any more is `stray` and later writes STOP into whatever
session has the memory. `again` (of a session) and `left` (of a channel) are
history variables that count such SETUPs; the properties use them to say that nothing
else leaves a sender or a client behind. `MaxAgain` bounds them in the instance,
`MaxDrift` how far `clientCnt` may sink below 0.

`targets` counts the entries of an address in the list of a UDP sender; clients may
share an address, and an entry is found by address only, as in the code. That
a target is *sent* anything is not modelled: the UDP packet senders are compiled out
or have no caller (`hs_rtpLib.c:341`, `:375-706`).

### NetworkStream

`Start`, `Stop` and `Restart` are split where the code leaves one mutex and takes
the next: first the count, then the message (`SendRun`, `SendExit`), then the
thread (`Create`). A network thread walks through `Check`, `Publish`, `Begin`,
then the outer loop (`Top`, `Judge*`, `Dial*`) and the inner one (`Poll`,
`Broken`), to `End`, `Unhook`, `UninitQueue`; each is one stretch without another
thread's possible influence in between. `queueLinkIn` appends to a linked list and never
waits; `MaxMsgs` and the number of threads bound the instance where a call *begins*
(`Room`, `ThreadLeft`), so that a call that has begun is never held up. Taking a message also sets `runFlag`, as
`GetMessageFromQueue` does. PAUSE, STOP, NEXT and WAIT have no sender in the
repository and are left out.

### RtspReceive

A byte of the stream is a unit; a packet is one header unit, which knows its kind
and size, and `size` payload units; a payload unit knows its frame and number
and whether it is the frame's last. `UsedSize`, `FreeSizeEx`, `CanPop`/`Popped`/
`AfterPop` are the functions of `buffer_ring.c` with their treatment of equal
cursors, including pops that fail and leave garbage. `Recv` is one recv of any
length at `dataEnd` with the test for `'$'`; the `Parse*` actions are the branches
of `RtspParseRtpPacketInfo`; `ParseFails` and `HangUp` lead to a new session, with
`ring_reset` but without a reset of `packetBuf`. `ReadReply` is the recv of the
reply to PLAY, which takes any prefix of the stream with it. The camera is
external: fragments of a frame in order, anything else between them.
`pending` and `synced` are history variables: no action's guard reads them.

Not in the model: a payload byte `'$'` that is taken for the beginning of the
stream, packets larger than the parser's reserve, and a GET_PARAMETER reply whose
end is misjudged (section 7).

### PteClient

`users` are stream threads with the reference they hold; they find or add a client
under the lock (`Lookup`), and raise (`Retain`) or lower (`Drop`) its count in two
steps, read and write, since the code lowers it without the lock: two such changes may
overwrite each other. `tear` is a history variable: it says of a client's count whether
a decrement (`"high"`) or an increment (`"low"`) was overwritten. The event loop is `at`/`watch`/`todo`: a
first pass over the list under the lock, select without it, a second pass; one
action for each state of a client in each pass, with the sends, the reads and the
errors of that state. A camera answers what it was asked, late or with a refusal,
speaks unasked, or hangs up; all that and failing calls count as `faults`. `due`
says that a client's countdown has run out. `auth` is a history variable too: the
camera's own knowledge of who is logged in on a connection.

`ClientPool` has neither lock nor list, counts or sockets: users acquire and release
the client of a camera, and a client is retired when nobody uses it, or when two of its users have
spoilt it by coming and going at the same time, which one user alone cannot. The mapping
is `serves <- cam, using <- ptr`, and `spoilt` are the clients with an overwritten increment: a client serves a camera from the moment it is filled in
until the loop frees it, and is used as long as a stream thread points at it.

### PortChange

A caller of `databaseOperate` is `pc`/`ask`: it takes the mutex, works inside, and
leaves. `Set` and `Stored` are a write of the ports, with the changing thread created
before they are in the cache; `Restore` does what
`DbUpdate_DefaultNetLink` does in the caller's own thread, whether or not a change is
under way. `overlap` is a history variable: `"present"` while a restore and a change
that met are under way, `"past"` until a later restore has ended. Closing a server is
`Mark` (its update flag), `Close` once its run flag is clear, `Listen`, and `Open`
(both flags); which server comes first depends on who closes. A server's thread walks through its loop,
serves a turn (the web server's turn may be a page that calls the database), sees
its flag, clears `run` and waits to be opened again.

## 3. Runs

| run | properties | bounds, and why they are enough |
|---|---|---|
| `senders` | `TypeOK`, `CountIsExact`, `SenderTypeOK`, `SentDecodes`, `SentInOrder`, `SenderEnds` | one RTP and one p2p sender of which one plays, ring of 2, 4 frames (SPS, slice, audio that reads like an SPS), numbers modulo 2, one empty get allowed, any number of flushes: the ring is lapped under a sender, the numbers wrap and come round within a loss, the queue is flushed and torn down while a frame is in hand |
| `frame_log` | `LogSpec`, `Drains` | two plain readers, three start modes, ring of 3, 6 frames, flushes at any moment: the ring is filled twice, with lag and jump of 1, so that cursor and window take every order on the circle |
| `rtsp_safety` | `TypeOK`, `SenderHasSession`, `CountIsBounded`, `StoppedIsClosed` | two sessions on one channel, one address, room for one target, one SETUP of a streaming session (`MaxAgain`): one session is joined while the other is stopped or arrives; memory is used again under a stray sender |
| `rtsp_targets` (violation) | `RefusedOnlyWhenFull` | two sessions, one channel, both media, two addresses, room for one target |
| `network_safety` | `TypeOK`, `RunFlagHasThread`, `PublishedIsAlive`, `ConnectHasThread`, `LastStopIsHeard`, `UnusedEnds` | two callers, two threads that overlap, up to two users of one type, calls that begin while fewer than two messages are queued or coming, stops of what was never started: a stale EXIT waits beside a RUN, and a stop need not be the last user's |
| `network_stop` (violation) | `StopStops` | one caller, two threads, three messages |
| `network_served` (violation) | `FirstUserServed` | one caller, two threads, three messages |
| `receive_ring` | `TypeOK`, `RingIsQueue`, `ParserInStep`, `FramesAreWhole` | ring of 7, reserve 3, receives up to 2 of 3 units in flight, five packets of sizes 1 and 2: cursors meet and wrap at every position, and a session ends in mid-frame before another begins |
| `port_change` | `TypeOK`, `ClosedAlone`, `ListensWhereStored`, `ChangeFinishes`, `RestoreWaitsForPages` | both servers, the web server and one more thread as users of the database, two ports, no limit on the number of changes and restores, which overlap as they like: each server is closed by each closer in each place of its loop. `Busy`: while a restore and a change are under way together only the web server's pages begin another call |
| `port_restore` (violation) | `RestoreEnds` | the same |
| `pte_client` | `TypeOK`, `MiscountedOnlyIfTorn`, `LoggedInHere`, `SocketsKnown`, `PoolSpec`, `LoginSucceeds`, `UnusedIsRemoved` | two stream threads of one camera whose counts tear, memory for two clients, one fault: a client is given up, removed and made again, in use or not, and a retry follows each failure. `MaxRef`, `MaxBelow`: how far a count that was torn may be off |
| `pte_release` (violation) | `RefsCounted` | two stream threads, two cameras, no faults |

`CHECK_DEADLOCK FALSE` in all but the runs of `PteClient`: the counters of frames,
packets, messages and uses are bounded, and a queue that was torn down, a camera
that has sent its last packet, a server without clients, or a program whose server
could not open its port (`exit`) has nothing to do. In `PteClient` the event loop
never ends, and deadlock is checked.

One session plays in `senders`; two at once are covered by the theorems, which hold
for any number. `network_safety` was also checked with three messages
(1,043,783 states, same result); the violation runs have three. `rtsp_safety` has one
channel and `pte_client` one camera because two of each are beyond five minutes with the
liveness properties; the theorems hold for any number.

Several properties have a condition that names a fault the code does not prevent:
`again`, `left`, `tear`, `overlap`, two threads at work at once. Each condition is a
history of the run, not a restriction on it: the faulty steps are taken in the same run,
what they break is in the states, and the property says what they do not break, and for
how long.

What the properties mean is said above each of them in its module. Every
property of a passing run has a mutant in `PROJECT.json`: a plausible mistake in
the code, written next to the definition it would change (the sections *Faults*),
that TLC finds with that property.

### Findings

The violation runs show where the code does not do what it says:

- `rtsp_targets`: a UDP PLAY whose reply fails leaves its targets in the sender's
  list for ever; after `RTP_MAX_SENDER` of them "reached the max sender target
  host" is said when nobody streams (`rtspSLib.c:865`).
- `network_stop`: stop and start within the second a new thread sleeps give two
  threads that both stream; one stop ends one of them (`networkLib.c:744`).
- `network_served`: a start while the last thread is ending creates a thread that
  takes the old one's `runFlag` for its own and returns; the user is never served.
- `port_restore`: restoring the network defaults waits for the web server while it
  holds the database mutex; a page that waits for that mutex never ends, and so
  neither of them goes on (`boa.c:226`).
- `pte_release`: a reference to a command client is given up without the lock
  under which another one is counted, and one of the two is lost
  (`pteClient.c:340`).

Met while modelling, but without a run: after TEARDOWN of a UDP session the socket
is never closed (`rtspSLib.c:897`); SETUP of a session in PLAY leaves its sender without
a join and its client counted (`rtspSLib.c:1668`, `SenderHasSession` and
`CountIsBounded` say how many); TEARDOWN before any SETUP makes the server use
channel -1 (`rtspSLib.c:903`); a restore during a change of ports breaks all four
properties of `port_change` while both are under way (`DbSystem.c:1896`; without their
condition on `overlap` TLC finds each violated); an audio frame whose first byte has the
type bits of an SPS starts a session in the middle of a picture (`hs_rtpLib.c:897`); the
p2p senders never free audio frames (`p2pLib.c:120`).

## 4. Fairness

- `FrameQueue`: weak fairness of a reader's next step (`ReaderStep`): the consumer
  threads poll (`usleep(20 * 1000)`), and every step of theirs stays enabled until
  it is taken. Nothing is assumed of the writer.
- `StreamSender`: weak fairness of each sender's thread, whatever its step finds: it
  is scheduled, and a send always returns, at the latest when `SO_SNDTIMEO` of three
  seconds is over (`hs_rtpLib.c:872`). For p2p that is an assumption: `P2pStartSendData` is a
  call of a binary library. No frame has to come, no send has to fail, and
  no session has to be stopped.
- `RtspServer`: the handler that has begun returns (sockets have a send timeout);
  every turn of the loop starts with the check for stopped sessions, which is disabled
  while a handler runs, hence strong fairness: a session that is stopped again and again
  is closed by the check, unless its client's SETUP makes it READY before each check;
  a sender that reads another state than PLAY leaves. Clients owe nothing.
- `NetworkStream`: a call that began is finished; threads are scheduled; the inner
  loop polls its messages between receives with a timeout; a camera that is dialled
  again and again answers once (strong fairness of `DialOk`). Nothing says that a
  connection ever breaks.
- `PortChange`: weak fairness of every thread's next step; strong fairness of taking
  the mutex, which others take in between, and of the end of a server's turn, which
  is disabled while a page is in the database. Nothing says that a change is ever
  asked for.
- `PteClient`: strong fairness of the loop's steps, which need the lock the stream
  threads take too; weak fairness of the steps of a stream thread that need no lock,
  of a camera's accepting and good answer (`MaxFaults` bounds how often it does
  otherwise), and of time in the states in which the code counts down without
  waiting for anybody.
- `RtspReceive` has safety properties only.

## 5. Proofs

All proofs are checked by TLAPS with no assumption but the named `ASSUME` of each
module, for every value of the constants.

**FrameQueue** (`FrameQueueProofs`): `TypeCorrect` (cursors stay slots whatever the
start mode), `CountCorrect`, `NoUseAfterFree`. `CountIsExact` is not inductive: an
insert gives number `inserted + 1` a count of 1, which is right only if no slot and
no reader has it already, and a free lowers the count of a frame that is in fact
held. `CountInductive` adds both. The proof counts with `CountingLemmas`: two sets that differ
in one element. `MemoryBounded` draws the conclusion for the box as a whole: leaving
aside what consumers forgot, there are never more frames in memory than slots and
readers. `LogCorrect`: the queue implements `FrameLog`, whenever it is flushed or torn
down. Slots and cursors are placed by their distance behind `writePos`, which an
insert changes by one and nothing else does. `LogInductive` says that the slot at
distance k holds frame `inserted + 1 - k`, or nothing if the queue was emptied after that
frame, and that a session which was given a frame since then either has been overrun or
has its cursor at the distance of the next one, with the end of its window not behind it.
From that the window test, which compares three places on a circle, is shown to tell one
case from the other (`HitInOrder`).

**StreamSender** (`StreamSenderProofs`): `SendersImplementQueue`, every step of the
composed system is a step of the queue or leaves it alone, so that its theorems hold
with senders among the readers (`SenderCountCorrect`, `SendersImplementLog`);
`SenderTypeCorrect`; `RtpLeaksNothing`, which is `MemoryBounded` for senders that forget
nothing (`P2pSenders = {}`); `SentInOrderCorrect` and `SentDecodesCorrect`, for all kinds of frames and any number of
them. A sender knows the last frame it went on with by
number only, and the frame it holds next may be any later one. `SendInductive` says
which frame that number stands for, and that all video from an SPS frame up to it has
been sent or was lost unnoticed; the frame in hand is later by `LogInductive` or, after a
flush, because only frames inserted since are left. The next number belongs to the next
frame, or at least `FRAME_NO_MOD` frames lie between (`NextNo`), and then those are a run
that `Unnoticed` allows (`GapUnnoticed`).

**RtspServer** (`RtspServerProofs`): `TypeCorrect`, `SenderCorrect`, `CountCorrect`, for
any requests in any state. Types need that the session whose PLAY is answered has a
channel, for that is where the client is counted (`Asked`). For the senders, `SenderInv`
says what holds between the steps of a handler: there are at most as many stray threads
as SETUPs that found the session streaming, and fewer while its sender runs where no join would
reach it, because the session does not stream over TCP or a SETUP of it is being
answered (`Owed`); a session without such a SETUP has a sender over TCP only, and
keeps its buffer (`Orderly`). The bound on the count is proved for the sessions
that have been counted, without the one between PLAY and its reply (`CountInv`, with
`Pending`): STOP by a sender, a stray one or TEARDOWN leaves a session counted, and a SETUP
moves it into `left`.

**NetworkStream** (`NetworkStreamProofs`): `TypeCorrect`, `RunFlagCorrect`,
`PublishedCorrect`, `ConnectCorrect`, each with an invariant that relates the flag
to the places its owner can be in. `LastStopCorrect` is the safety part of `UnusedEnds`:
a thread between its look at the use count and the end of its connection leaves only by
an EXIT, and one is queued or about to be if the count is 0. A start raises the count, a
last stop is about to send EXIT, and only the thread at work itself takes messages; the
proof needs that the sum of the counts is 0 just when all of them are (`UsedZero`).

**RtspReceive** (`RtspReceiveProofs`): `TypeCorrect`, `RingCorrect`,
`ParserCorrect`, `FramesCorrect`. None of the first three is inductive, and they need
each other. The invariant `IInv` says: the units received and those still on the wire form one
stream in which each header is followed, after its payload, by the next header
(`Linked`); the ring holds `pending` between its cursors and at most
`BufferSize + MaxRecv` units (`Layout`); and once the stream has started the ring is
never empty and begins with a header (`Started`). The last is the heart of the
matter: equal cursors would be ambiguous, but a parser that goes on only while
*more* than `BufferSize` is there, with packets shorter than that, never empties
the ring, and a receive of at most `MaxRecv` never fills it. That is what
`ReceiveAssumption` asks for: in the code the ring has 1 MB
(`MAX_FRAME_BUFFER_LEN`), the reserve is 8 KB or 4 KB (`rtspCLib.h:36`), the socket
buffer 64 KB or 128 KB (`networkLib.c:288`, `:470`), and RTP packets of cameras
stay below an Ethernet frame. The mutant `ParsingAtReserve` shows what happens
with `>=`.

`FramesCorrect` (`FramesAreWhole`) needs more: what lies ahead of the parser must be
the packets of *one* camera in the order it sent them. `Threaded` says so by naming,
for every unit ahead, the camera's state when that unit was sent (`Stream`: a packet
takes the state before it to the state after it, the last is the camera's own, and the
payload is what the state says), and that `packetBuf` holds what the camera had sent
of its frame in the state of the next unit (`Assembled`). Each step either adds a packet
at the far end (`CameraThreads`) or moves the units ahead by some number (`Moves`),
which `SuffixIsCarried` says the stream survives. Before the first frame start of a
session `packetBuf` is out of step, because `ring_reset` leaves it alone: that is why
the property asks for `synced`. That frames come in order is a third invariant,
`Ordered`: a frame that is still to begin, among the units ahead or at the camera, is
later than all units before it, than what `packetBuf` holds and than the frame last
shown (`Coming`). It survives a packet at either end (`CameraKeepsOrder`,
`ParseKeepsOrder`) and a reconnect, because the camera does not go back.

**PteClient** (`PteClientProofs`): `TypeCorrect` (with the steps of the login in order),
`LoggedInCorrect` (what a client believes is what the camera knows of its present
connection), `SocketsCorrect`; `RefsCorrect`, `HeldCorrect`, `OneClientCorrect` and
`PoolCorrect`, all without an assumption on how counts are changed. The invariant
`CountInv` follows a count through the hands of those who have read it and not yet written
it back. `Right` says of a number that it is the number of holders if no change of the
count was overwritten, and not below it unless an increment was; `Kept` says so of the
count and of what each thread that is about to write it has read. Who adds a reference
holds the lock (`Locked`), so that of two changes that meet at least one is a decrement,
and each write that overwrites another is noted in `tear`.
`PoolCorrect`: under that invariant, and because exactly the clients in the list are for
a camera (`Purposeful`), every step of the threads and the loop is one of `ClientPool` or
leaves it alone.

**PortChange** (`PortChangeProofs`): `TypeCorrect`, `ClosedOnlyAlone` and
`ListensAtStoredPort`, with restores that meet changes. `CloseInv` says who is
entitled to close, that there is only one unless an overlap is present, and that a server
whose run flag is clear is out of its loop, which an overlap in the past does not
spoil; `PlaceInv` adds what the ports in the database, in `portinfo` and of
the sockets have to do with each other at each stage of a change or restore, and that a
restore which begins after an overlap sets both servers right.

Only model-checked: liveness (`Drains`, `SenderEnds`, `StoppedIsClosed`, `UnusedEnds`,
`ChangeFinishes`, `RestoreWaitsForPages`, `LoginSucceeds`, `UnusedIsRemoved`; fairness is
out of the prover's reach).

## 6. Plan

Done, in order of importance: FrameQueue with FrameLog; RtspServer; NetworkStream;
RtspReceive; PortChange; PteClient; StreamSender. Each has its proofs. Left:

1. `PrivateReceive`: frames of the private protocol in the same ring, with
   `ring_reset` when one does not fit.
2. The sender of recordings (`hs_rtpLib.c`, `RTP_TcpSendRecordH264ThrFxn`) and its sessions.
3. `ProcMsg`: threads and the Qt process over one message queue and one block of
   shared memory. Abstract: a request and its answer.
4. RTSP client handshake (authentication retry), hot-plug thread, database cache.

Proofs worth adding: an abstract specification of the RTSP server (a client plays from
PLAY to TEARDOWN, a channel counts its clients) and of a network channel (used, served),
as `FrameLog` and `ClientPool` are for theirs.

## 7. Not modelled

Left out, each with its reason in `PROJECT.json`: formats and parsing of text (SDP,
SPS, headers, SQL, XML), encryption and authentication digests, H.264 and audio
packetisation, system calls and the shell commands around them, descriptor
numbers (hence the double closes), addresses and the failure of `malloc`, code
without callers (alarm queue, YUV queue, packet queue, `ring_push_n`), files named
`_bak`, `_back`, `_old`, and third-party code. The list of hazards
in `PROJECT.json` holds those of the modelled and the planned components; one that
no property covers, such as a payload byte `'$'` taken for a header, has the reason
beside it. Leaks and bad indices inside one sequential function, and hazards of code
without callers, are not listed.

Of the modelled components the following is left out or assumed:

- `StreamSender`: one thread for each `run` flag; results of `P2pStartSendData` other
  than -2 count as sent; creating a thread succeeds; the UDP senders and the sender of
  recordings; p2p registration, device information and PTZ commands; an RTP sender that
  moves on to the queue of a new network thread with the cursors of the old one
  (`hs_rtpLib.c:881`), where frame numbers begin again at 0 (`networkLib.c:699`).
- `RtspServer`: the sockets of sessions; what is sent to UDP targets.
- `FrameQueue`: `streamFreeAllFrameBuffer` and the start modes -2 and -3 are modelled
  though no C file calls them; headers and comments offer them.
- `PortChange`: requests of the RTSP server during a change are a turn; creating the
  changing thread succeeds.
- `PteClient`: `PC_InitCtx` and its race, `PC_UnInitCtx`, the media connection of
  `PC_GetStream`; a message cut in the middle is a lost connection; the countdowns are
  "due" or not; the polling of `PC_Login` only reads.
- `NetworkStream`: the protocol clients behind a connection; bit rates; readers that took
  `pVideoFrameQueue` before it was unhooked (they are in `FrameQueue`, after `Uninit`).

The map covers a small share of the repository's lines: most of them are SQLite,
OpenSSL, the vendor's SDK headers, gSOAP output, the CGI functions of the web server
and the SQL text of the tables, none of which has concurrency or state of its own to
model. Of the files modelled above the state-changing code is covered.
