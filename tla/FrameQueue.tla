----------------------------- MODULE FrameQueue -----------------------------
(***************************************************************************)
(* The ring of shared frames of streamLib (streamFrameQueue.c) with the    *)
(* reference-counted memory it is made of (myMalloc.c).  One network       *)
(* thread writes; every consumer reads on its own pair of cursors.         *)
(*                                                                         *)
(* A frame is named by the order in which it was inserted.  Writer steps   *)
(* run under frameMutex and are one action each; a get is two actions,     *)
(* because it compares its cursors with writePos before it takes the lock. *)
(***************************************************************************)
EXTENDS Integers, FiniteSets

CONSTANTS Readers,             \* consumer threads of this queue
          MAX_FRAME_QUEUE_NUM, \* slots of the ring (40)
          SmoothLag,           \* start of a -1/-1 reader after writePos (20)
          LostJump,            \* slots skipped when a reader was overrun (10)
          MaxFrames,           \* bound: frames the writer inserts
          Modes                \* start modes in use, a subset of {-1, -2, -3}

N == MAX_FRAME_QUEUE_NUM

ASSUME QueueAssumption ==
    /\ IsFiniteSet(Readers)
    /\ N \in Nat /\ N > 1
    /\ SmoothLag \in 0..N-1
    /\ LostJump \in 1..N-1
    /\ MaxFrames \in Nat
    /\ Modes \subseteq {-1, -2, -3}

NULL   == 0
Slots  == 0..N-1
Frames == 1..MaxFrames

VARIABLES pFrameInfo,  \* slot -> frame or NULL
          writePos,    \* next slot to be written
          inserted,    \* number of frames inserted so far
          count,       \* frame -> reference count in its share-memory header
          readBegin, readEnd,  \* reader -> cursor, or the start mode
          pc,          \* reader -> "off", "idle", "locking" or "using"
          held,        \* reader -> frame it was given and has not freed
          kept,        \* frame -> references readers had and never gave back
          last,        \* reader -> newest frame given in this session
          flushed,     \* newest frame when the slots were last emptied (history)
          open         \* FALSE once streamUninitFrameQueue has run

ring    == <<pFrameInfo, writePos, inserted, flushed, open>>
cursors == <<readBegin, readEnd>>
vars    == <<ring, count, cursors, pc, held, kept, last>>

-----------------------------------------------------------------------------
(* Share memory: the count is changed under mallocMutex.                   *)

ShareCopy(c, f) == IF f = NULL THEN c ELSE [c EXCEPT ![f] = @ + 1]
ShareFree(c, f) == IF f = NULL THEN c ELSE [c EXCEPT ![f] = @ - 1]

\* One ShareFree for every slot that is not NULL.
ShareFreeSlots(c) ==
    [f \in Frames |-> c[f] - Cardinality({i \in Slots : pFrameInfo[i] = f})]

-----------------------------------------------------------------------------
(* Faults a change to the code could introduce.  No specification uses     *)
(* these; each is set in the place of the definition it is a variant of to *)
(* see that a property notices it.                                         *)

\* The write position is not wrapped.
InsertUnwrapped ==
    /\ open
    /\ inserted < MaxFrames
    /\ LET f == inserted + 1
       IN /\ count' = [ShareFree(count, pFrameInfo[writePos]) EXCEPT ![f] = 1]
          /\ pFrameInfo' = [pFrameInfo EXCEPT ![writePos] = f]
          /\ inserted' = f
    /\ writePos' = writePos + 1
    /\ UNCHANGED <<cursors, pc, held, kept, last, flushed, open>>

\* The window test without the case in which only the reader has wrapped.
InWindowTwoCases(b, e, w) == \/ b <= e /\ e <= w
                             \/ e <= w /\ w <= b

\* A get that does not ask first whether there is anything new.
GetEnterUnasked(r) ==
    /\ pc[r] = "idle"
    /\ pc' = [pc EXCEPT ![r] = "locking"]
    /\ UNCHANGED <<ring, count, cursors, held, kept, last>>

\* An overrun reader whose window is not brought up to date: it stays lost.
GetLostNoResync(r) ==
    /\ pc[r] = "locking"
    /\ pc' = [pc EXCEPT ![r] = "idle"]
    /\ UNCHANGED <<ring, count, cursors, held, kept, last>>

-----------------------------------------------------------------------------
(* The writer.                                                             *)

\* streamFrameQueueLock .. steramFrameQueueUnlock around a new frame: its
\* memory is allocated with count 1, the frame it replaces is released.
Insert ==
    /\ open
    /\ inserted < MaxFrames
    /\ LET f == inserted + 1
       IN /\ count' = [ShareFree(count, pFrameInfo[writePos]) EXCEPT ![f] = 1]
          /\ pFrameInfo' = [pFrameInfo EXCEPT ![writePos] = f]
          /\ inserted' = f
    /\ writePos' = (writePos + 1) % N
    /\ UNCHANGED <<cursors, pc, held, kept, last, flushed, open>>

\* streamFreeAllFrameBuffer: the readers' cursors are theirs, and stay.
FreeAll ==
    /\ open
    /\ count' = ShareFreeSlots(count)
    /\ pFrameInfo' = [i \in Slots |-> NULL]
    /\ writePos' = 0
    /\ flushed' = inserted
    /\ UNCHANGED <<inserted, cursors, pc, held, kept, last, open>>

\* streamUninitFrameQueue.  The queue's own memory is never freed, and a lock
\* of its destroyed mutex returns at once: a reader that has kept the pointer
\* finds empty slots.
Uninit ==
    /\ open
    /\ count' = ShareFreeSlots(count)
    /\ pFrameInfo' = [i \in Slots |-> NULL]
    /\ flushed' = inserted
    /\ open' = FALSE
    /\ UNCHANGED <<writePos, inserted, cursors, pc, held, kept, last>>

-----------------------------------------------------------------------------
(* The readers.                                                            *)

StartReader(r, mode) ==
    /\ pc[r] = "off"
    /\ readBegin' = [readBegin EXCEPT ![r] = mode]
    /\ readEnd' = [readEnd EXCEPT ![r] = mode]
    /\ pc' = [pc EXCEPT ![r] = "idle"]
    /\ last' = [last EXCEPT ![r] = 0]
    /\ UNCHANGED <<ring, count, held, kept>>

StopReader(r) ==
    /\ pc[r] = "idle"
    /\ pc' = [pc EXCEPT ![r] = "off"]
    /\ last' = [last EXCEPT ![r] = 0]
    /\ UNCHANGED <<ring, count, cursors, held, kept>>

\* Nothing new: the get returns NULL without taking the lock.
CaughtUp(r) == readBegin[r] = readEnd[r] /\ readEnd[r] = writePos

\* The unlocked test let the reader through; it goes for the lock.
GetEnter(r) ==
    /\ pc[r] = "idle"
    /\ ~CaughtUp(r)
    /\ pc' = [pc EXCEPT ![r] = "locking"]
    /\ UNCHANGED <<ring, count, cursors, held, kept, last>>

\* The cursors a get works with: a start mode is replaced by a place.
Starts(r, mode) == readBegin[r] = mode /\ readEnd[r] = mode

Begin(r) == CASE Starts(r, -1) -> (writePos + SmoothLag) % N
              [] Starts(r, -2) -> writePos % N
              [] Starts(r, -3) -> (writePos + 1) % N
              [] OTHER -> readBegin[r]

End(r) == CASE Starts(r, -1) -> (writePos + SmoothLag) % N
            [] Starts(r, -2) -> writePos % N
            [] Starts(r, -3) -> writePos
            [] OTHER -> readEnd[r]

\* writePos has not passed the reader since its last get: going up from b,
\* cyclically, e comes before w.
InWindow(b, e, w) == \/ b <= e /\ e <= w
                     \/ e <= w /\ w <= b
                     \/ w <= b /\ b <= e

GetHit(r) ==
    /\ pc[r] = "locking"
    /\ InWindow(Begin(r), End(r), writePos)
    /\ LET f == pFrameInfo[Begin(r)]
       IN /\ count' = ShareCopy(count, f)
          /\ held' = [held EXCEPT ![r] = f]
          /\ last' = [last EXCEPT ![r] = IF f = NULL THEN @ ELSE f]
          /\ pc' = [pc EXCEPT ![r] = IF f = NULL THEN "idle" ELSE "using"]
    /\ readEnd' = [readEnd EXCEPT ![r] = writePos]
    /\ readBegin' = [readBegin EXCEPT ![r] = (Begin(r) + 1) % N]
    /\ UNCHANGED <<ring, kept>>

GetLost(r) ==
    /\ pc[r] = "locking"
    /\ ~InWindow(Begin(r), End(r), writePos)
    /\ readEnd' = [readEnd EXCEPT ![r] = writePos]
    /\ readBegin' = [readBegin EXCEPT ![r] = (Begin(r) + LostJump) % N]
    /\ pc' = [pc EXCEPT ![r] = "idle"]
    /\ UNCHANGED <<ring, count, held, kept, last>>

\* streamFreeFrameBuffer, without the queue's lock.
FreeFrame(r) ==
    /\ pc[r] = "using"
    /\ count' = ShareFree(count, held[r])
    /\ held' = [held EXCEPT ![r] = NULL]
    /\ pc' = [pc EXCEPT ![r] = "idle"]
    /\ UNCHANGED <<ring, cursors, kept, last>>

\* A consumer goes on, or ends, without streamFreeFrameBuffer.
Forget(r) ==
    /\ pc[r] = "using"
    /\ kept' = [kept EXCEPT ![held[r]] = @ + 1]
    /\ held' = [held EXCEPT ![r] = NULL]
    /\ pc' = [pc EXCEPT ![r] = "idle"]
    /\ UNCHANGED <<ring, count, cursors, last>>

-----------------------------------------------------------------------------
\* streamInitFrameQueue.
Init ==
    /\ pFrameInfo = [i \in Slots |-> NULL]
    /\ writePos = 0
    /\ inserted = 0
    /\ count = [f \in Frames |-> 0]
    /\ readBegin = [r \in Readers |-> 0]
    /\ readEnd = [r \in Readers |-> 0]
    /\ pc = [r \in Readers |-> "off"]
    /\ held = [r \in Readers |-> NULL]
    /\ kept = [f \in Frames |-> 0]
    /\ last = [r \in Readers |-> 0]
    /\ flushed = 0
    /\ open = TRUE

ReaderStep(r) == GetEnter(r) \/ GetHit(r) \/ GetLost(r) \/ FreeFrame(r)

Next == \/ Insert
        \/ FreeAll
        \/ Uninit
        \/ \E r \in Readers : \/ \E mode \in Modes : StartReader(r, mode)
                              \/ StopReader(r)
                              \/ ReaderStep(r)
                              \/ Forget(r)

Spec == Init /\ [][Next]_vars

\* A consumer thread keeps polling (p2pLib.c:79, hs_rtpLib.c:878) and always
\* gets the mutex in the end; nobody has to write, and nobody has to stop.
FairSpec == Spec /\ \A r \in Readers : WF_vars(ReaderStep(r))

-----------------------------------------------------------------------------
TypeOK ==
    /\ pFrameInfo \in [Slots -> Frames \cup {NULL}]
    /\ writePos \in Slots
    /\ inserted \in 0..MaxFrames
    /\ count \in [Frames -> Int]
    /\ readBegin \in [Readers -> Slots \cup Modes]
    /\ readEnd \in [Readers -> Slots \cup Modes]
    /\ \A r \in Readers : readBegin[r] \in Modes \/ readEnd[r] \in Modes
                          => readBegin[r] = readEnd[r]
    /\ pc \in [Readers -> {"off", "idle", "locking", "using"}]
    /\ held \in [Readers -> Frames \cup {NULL}]
    /\ kept \in [Frames -> Nat]
    /\ last \in [Readers -> Frames \cup {0}]
    /\ flushed \in 0..inserted
    /\ open \in BOOLEAN

\* The reference count of every frame is the number of slots and readers that
\* have it and of readers that forgot it: memory is never freed under a reader,
\* and never kept for another reason, whatever the order of inserts, gets,
\* frees and teardown.
InRing(f)  == {i \in Slots : pFrameInfo[i] = f}
Holders(f) == {r \in Readers : held[r] = f}

CountIsExact ==
    \A f \in Frames :
        count[f] = Cardinality(InRing(f)) + Cardinality(Holders(f)) + kept[f]

\* The queue keeps the promise of FrameLog: in order, and without a gap unless
\* the writer overran the reader or the queue was flushed.
Log == INSTANCE FrameLog WITH Window <- N, published <- inserted

LogSpec == Log!Spec

\* A reader that keeps polling catches up with a writer that has paused: the
\* jump after an overrun never sends it round for ever.
Drains ==
    \A r \in Readers :
        [](inserted = MaxFrames => <>(CaughtUp(r) \/ pc[r] = "off"))
=============================================================================
