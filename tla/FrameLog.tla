------------------------------ MODULE FrameLog ------------------------------
(***************************************************************************)
(* What a frame queue promises, without ring, cursors or counts.  One      *)
(* writer publishes frames 1, 2, 3, ...; the queue remembers the last      *)
(* Window of them, and none from before it was last emptied.  A session    *)
(* of a reader is handed frames in publication order, and misses a frame   *)
(* between two deliveries only when the writer has already overwritten     *)
(* it, or the queue has been emptied in between.                           *)
(***************************************************************************)
EXTENDS Naturals

CONSTANTS Readers,    \* the threads that follow the stream
          Window      \* how many frames the queue remembers

VARIABLES published,  \* number of the newest frame, 0 before the first
          flushed,    \* number of the newest frame when it was last emptied
          last        \* reader -> newest frame handed to its session, 0: none

vars == <<published, flushed, last>>

Remembered(f) == f \in flushed+1..published /\ published < f + Window

Init == /\ published = 0
        /\ flushed = 0
        /\ last = [r \in Readers |-> 0]

Publish == /\ published' = published + 1
           /\ UNCHANGED <<flushed, last>>

Flush == /\ flushed' = published
         /\ UNCHANGED <<published, last>>

\* A reader begins (or ends) a session: its history starts afresh.
NewSession(r) == /\ last' = [last EXCEPT ![r] = 0]
                 /\ UNCHANGED <<published, flushed>>

\* The next frame of a session: the one after the last, unless that one has
\* been overwritten; the first frame of a session, and the first one after the
\* queue was emptied, may be any later one that is remembered.
Deliver(r) == \E f \in 1..published :
                 /\ Remembered(f)
                 /\ f > last[r]
                 /\ last[r] > flushed /\ Remembered(last[r] + 1) => f = last[r] + 1
                 /\ last' = [last EXCEPT ![r] = f]
                 /\ UNCHANGED <<published, flushed>>

Next == \/ Publish
        \/ Flush
        \/ \E r \in Readers : NewSession(r) \/ Deliver(r)

Spec == Init /\ [][Next]_vars
=============================================================================
