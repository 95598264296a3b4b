-------------------------- MODULE FrameQueueProofs --------------------------
(***************************************************************************)
(* For every ring size, start lag, jump and set of readers: FrameQueue     *)
(* keeps its types, the reference count of each frame is exact, and the    *)
(* queue implements FrameLog.                                              *)
(***************************************************************************)
EXTENDS FrameQueue, CountingLemmas

\* The ring has finitely many slots.
LEMMA SlotsFinite == IsFiniteSet(Slots)
BY QueueAssumption, FS_Interval DEF Slots

\* The ring position after an increment.
LEMMA ModInSlots ==
    ASSUME NEW x \in Int
    PROVE  x % N \in Slots
BY QueueAssumption, SMT DEF Slots

-----------------------------------------------------------------------------
(* Types.                                                                  *)

\* Whatever start mode a get begins with, its cursors are slots afterwards.
LEMMA CursorInSlots ==
    ASSUME TypeOK, NEW r \in Readers
    PROVE  Begin(r) \in Slots /\ End(r) \in Slots
<1>1. writePos \in Int /\ SmoothLag \in Int
  BY QueueAssumption DEF TypeOK, Slots
<1>2. /\ (writePos + SmoothLag) % N \in Slots
      /\ writePos % N \in Slots
      /\ (writePos + 1) % N \in Slots
  BY <1>1, ModInSlots
<1>3. CASE \E mode \in Modes : Starts(r, mode)
  BY <1>2, <1>3, QueueAssumption DEF Begin, End, Starts, TypeOK
<1>4. CASE ~\E mode \in Modes : Starts(r, mode)
  <2>1. readBegin[r] \in Slots /\ readEnd[r] \in Slots
    BY <1>4 DEF Starts, TypeOK
  <2>2. Begin(r) = readBegin[r] /\ End(r) = readEnd[r]
    BY <2>1 DEF Begin, End, Starts, Slots
  <2>3. QED
    BY <2>1, <2>2
<1>5. QED
  BY <1>3, <1>4

\* New cursors that are slots, both of them, keep the cursors' types.
LEMMA CursorTypes ==
    ASSUME TypeOK, NEW r \in Readers, NEW b \in Slots,
           readBegin' = [readBegin EXCEPT ![r] = b],
           readEnd' = [readEnd EXCEPT ![r] = writePos]
    PROVE  /\ readBegin' \in [Readers -> Slots \cup Modes]
           /\ readEnd' \in [Readers -> Slots \cup Modes]
           /\ \A q \in Readers : readBegin'[q] \in Modes \/ readEnd'[q] \in Modes
                                 => readBegin'[q] = readEnd'[q]
<1>1. writePos \in Slots /\ writePos \notin Modes /\ b \notin Modes
  BY QueueAssumption DEF TypeOK, Slots
<1>2. QED
  BY <1>1 DEF TypeOK

USE DEF N, NULL

\* The types hold when the queue has been initialised.
LEMMA TypeInit == Init => TypeOK
BY QueueAssumption DEF Init, TypeOK, Slots, Frames

\* Releasing every slot leaves a count for every frame.
LEMMA ShareFreeSlotsType ==
    ASSUME TypeOK
    PROVE  ShareFreeSlots(count) \in [Frames -> Int]
<1>1. ASSUME NEW f \in Frames
      PROVE  Cardinality({i \in Slots : pFrameInfo[i] = f}) \in Nat
  <2>1. {i \in Slots : pFrameInfo[i] = f} \in SUBSET Slots
    OBVIOUS
  <2>2. QED
    BY <2>1, SlotsFinite, FS_Subset, FS_CardinalityType
<1>2. QED
  BY <1>1 DEF ShareFreeSlots, TypeOK

\* Every step keeps the types.
LEMMA TypeStep == TypeOK /\ [Next]_vars => TypeOK'
<1> SUFFICES ASSUME TypeOK, [Next]_vars PROVE TypeOK'
  OBVIOUS
<1> USE QueueAssumption
<1>1. CASE Insert
  <2>. writePos + 1 \in Int
    BY DEF TypeOK, Slots
  <2>1. (writePos + 1) % N \in Slots
    BY ModInSlots
  <2>2. writePos' \in Slots
    BY <1>1, <2>1 DEF Insert
  <2>3. inserted + 1 \in Frames /\ inserted' \in 0..MaxFrames
    BY <1>1 DEF Insert, TypeOK, Frames
  <2>4. pFrameInfo' \in [Slots -> Frames \cup {NULL}]
    BY <1>1, <2>3 DEF Insert, TypeOK
  <2>5. count' \in [Frames -> Int]
    <3>1. ShareFree(count, pFrameInfo[writePos]) \in [Frames -> Int]
      BY DEF ShareFree, TypeOK
    <3>2. QED
      BY <1>1, <2>3, <3>1 DEF Insert
  <2>6. QED
    BY <1>1, <2>2, <2>3, <2>4, <2>5 DEF Insert, TypeOK, cursors
<1>2. CASE FreeAll
  <2>1. inserted' = inserted /\ flushed' \in 0..inserted
    BY <1>2 DEF FreeAll, TypeOK
  <2>2. QED
    BY <1>2, <2>1, ShareFreeSlotsType DEF FreeAll, TypeOK, cursors, Slots
<1>3. CASE Uninit
  <2>1. inserted' = inserted /\ flushed' \in 0..inserted
    BY <1>3 DEF Uninit, TypeOK
  <2>2. QED
    BY <1>3, <2>1, ShareFreeSlotsType DEF Uninit, TypeOK, cursors
<1>4. ASSUME NEW r \in Readers, NEW mode \in Modes, StartReader(r, mode)
      PROVE  TypeOK'
  BY <1>4 DEF StartReader, TypeOK, ring
<1>5. ASSUME NEW r \in Readers, StopReader(r) PROVE TypeOK'
  BY <1>5 DEF StopReader, TypeOK, ring, cursors
<1>6. ASSUME NEW r \in Readers, GetEnter(r) PROVE TypeOK'
  BY <1>6 DEF GetEnter, TypeOK, ring, cursors
<1>7. ASSUME NEW r \in Readers, GetHit(r) PROVE TypeOK'
  <2>1. Begin(r) \in Slots
    BY CursorInSlots
  <2>2. (Begin(r) + 1) % N \in Slots
    BY <2>1, ModInSlots DEF Slots
  <2>3. pFrameInfo[Begin(r)] \in Frames \cup {NULL}
    BY <2>1 DEF TypeOK
  <2>4. count' \in [Frames -> Int]
    BY <1>7, <2>3 DEF GetHit, ShareCopy, TypeOK
  <2>5. /\ readBegin' \in [Readers -> Slots \cup Modes]
        /\ readEnd' \in [Readers -> Slots \cup Modes]
        /\ \A q \in Readers : readBegin'[q] \in Modes \/ readEnd'[q] \in Modes
                              => readBegin'[q] = readEnd'[q]
    BY <1>7, <2>2, CursorTypes DEF GetHit, TypeOK
  <2>6. /\ held' \in [Readers -> Frames \cup {NULL}]
        /\ last' \in [Readers -> Frames \cup {0}]
        /\ pc' \in [Readers -> {"off", "idle", "locking", "using"}]
    BY <1>7, <2>3 DEF GetHit, TypeOK
  <2>7. QED
    BY <1>7, <2>4, <2>5, <2>6 DEF GetHit, TypeOK, ring
<1>8. ASSUME NEW r \in Readers, GetLost(r) PROVE TypeOK'
  <2>1. (Begin(r) + LostJump) % N \in Slots
    BY CursorInSlots, ModInSlots DEF Slots
  <2>2. /\ readBegin' \in [Readers -> Slots \cup Modes]
        /\ readEnd' \in [Readers -> Slots \cup Modes]
        /\ \A q \in Readers : readBegin'[q] \in Modes \/ readEnd'[q] \in Modes
                              => readBegin'[q] = readEnd'[q]
    BY <1>8, <2>1, CursorTypes DEF GetLost, TypeOK
  <2>3. QED
    BY <1>8, <2>2 DEF GetLost, TypeOK, ring
<1>9. ASSUME NEW r \in Readers, FreeFrame(r) PROVE TypeOK'
  BY <1>9 DEF FreeFrame, ShareFree, TypeOK, ring, cursors
<1>10. ASSUME NEW r \in Readers, Forget(r) PROVE TypeOK'
  <2>1. /\ kept' = [kept EXCEPT ![held[r]] = @ + 1] /\ kept \in [Frames -> Nat]
        /\ held' = [held EXCEPT ![r] = NULL] /\ pc' = [pc EXCEPT ![r] = "idle"]
        /\ UNCHANGED <<ring, count, cursors, last>>
    BY <1>10 DEF Forget, TypeOK
  <2>2. kept' \in [Frames -> Nat]
    <3>1. ASSUME NEW f \in Frames PROVE kept[f] \in Nat /\ kept[f] + 1 \in Nat
      BY <2>1
    <3>2. kept' = [f \in Frames |-> IF f = held[r] THEN kept[f] + 1 ELSE kept[f]]
      BY <2>1
    <3>3. QED
      BY <3>1, <3>2
  <2>3. QED
    BY <2>1, <2>2 DEF TypeOK, ring, cursors
<1>11. CASE UNCHANGED vars
  BY <1>11 DEF TypeOK, vars, ring, cursors
<1>12. QED
  BY <1>1, <1>2, <1>3, <1>4, <1>5, <1>6, <1>7, <1>8, <1>9, <1>10, <1>11
     DEF Next, ReaderStep

\* Every variable keeps its type: cursors stay inside the ring (or are a start
\* mode), whatever lag and jump are configured.
THEOREM TypeCorrect == Spec => []TypeOK
BY TypeInit, TypeStep, PTL DEF Spec

-----------------------------------------------------------------------------
(* Reference counts.  Every step changes at most one slot and one reader,  *)
(* except the two that empty the ring; OneElement gives what a change of   *)
(* one place does to the number of places that have a frame.               *)

\* The slots that hold a frame are finitely many, so they can be counted.
LEMMA RingFinite ==
    ASSUME NEW f
    PROVE  IsFiniteSet(InRing(f)) /\ Cardinality(InRing(f)) \in Nat
<1>1. InRing(f) \in SUBSET Slots
  BY DEF InRing
<1>2. QED
  BY <1>1, FS_Subset, FS_CardinalityType, SlotsFinite

\* The readers that hold a frame are finitely many.
LEMMA HoldersFinite ==
    ASSUME NEW f
    PROVE  IsFiniteSet(Holders(f)) /\ Cardinality(Holders(f)) \in Nat
<1>1. Holders(f) \in SUBSET Readers
  BY DEF Holders
<1>2. QED
  BY <1>1, FS_Subset, FS_CardinalityType, QueueAssumption

\* One slot gets another frame.
LEMMA RingUpdate ==
    ASSUME TypeOK, NEW i \in Slots, NEW f,
           pFrameInfo' = [pFrameInfo EXCEPT ![i] = pFrameInfo'[i]]
    PROVE  Cardinality(InRing(f)') = Cardinality(InRing(f))
               - (IF pFrameInfo[i] = f THEN 1 ELSE 0)
               + (IF pFrameInfo'[i] = f THEN 1 ELSE 0)
<1>1. InRing(f) \ {i} = InRing(f)' \ {i}
  BY DEF InRing, TypeOK
<1>2. /\ i \in InRing(f) <=> pFrameInfo[i] = f
      /\ i \in InRing(f)' <=> pFrameInfo'[i] = f
  BY DEF InRing
<1> HIDE DEF InRing
<1>3. Cardinality(InRing(f)') =
          Cardinality(InRing(f)) - Has(InRing(f), i) + Has(InRing(f)', i)
  BY <1>1, RingFinite, OneElement
<1>4. QED
  BY <1>2, <1>3 DEF Has

\* One reader is given a frame, or gives one back.
LEMMA HoldersUpdate ==
    ASSUME TypeOK, NEW r \in Readers, NEW f,
           held' = [held EXCEPT ![r] = held'[r]]
    PROVE  Cardinality(Holders(f)') = Cardinality(Holders(f))
               - (IF held[r] = f THEN 1 ELSE 0)
               + (IF held'[r] = f THEN 1 ELSE 0)
<1>1. Holders(f) \ {r} = Holders(f)' \ {r}
  BY DEF Holders, TypeOK
<1>2. /\ r \in Holders(f) <=> held[r] = f
      /\ r \in Holders(f)' <=> held'[r] = f
  BY DEF Holders
<1>3. Cardinality(Holders(f)') =
          Cardinality(Holders(f)) - Has(Holders(f), r) + Has(Holders(f)', r)
  BY <1>1, HoldersFinite, OneElement
<1>4. QED
  BY <1>2, <1>3 DEF Has

\* CountIsExact with what makes it inductive: a frame that has not been inserted
\* yet is nowhere, and a reader has a frame exactly while it uses it.
CountInductive ==
    /\ TypeOK
    /\ CountIsExact
    /\ \A f \in Frames : f > inserted => kept[f] = 0
    /\ \A i \in Slots : pFrameInfo[i] <= inserted
    /\ \A r \in Readers : /\ held[r] <= inserted
                          /\ held[r] # NULL <=> pc[r] = "using"

\* The counts stay exact when neither the ring nor the readers' frames change.
LEMMA CountUnchanged ==
    ASSUME CountInductive, TypeOK', inserted' = inserted,
           pFrameInfo' = pFrameInfo, held' = held, count' = count, kept' = kept,
           \A r \in Readers : pc'[r] = "using" <=> pc[r] = "using"
    PROVE  CountInductive'
<1>1. CountIsExact'
  BY DEF CountInductive, CountIsExact, InRing, Holders
<1>2. QED
  BY <1>1 DEF CountInductive

\* An empty ring counts nothing.
LEMMA CountInit == Init => CountInductive
<1> SUFFICES ASSUME Init PROVE CountInductive
  OBVIOUS
<1>1. \A f \in Frames : /\ Cardinality(InRing(f)) = 0
                        /\ Cardinality(Holders(f)) = 0
  <2> TAKE f \in Frames
  <2>1. InRing(f) = {} /\ Holders(f) = {}
    BY DEF Init, InRing, Holders, Frames
  <2>2. QED
    BY <2>1, FS_EmptySet
<1>2. CountIsExact
  BY <1>1 DEF CountIsExact, Init
<1>3. QED
  BY <1>2, TypeInit DEF CountInductive, Init

\* An insert releases the frame it replaces and counts the new one once.
LEMMA CountInsert ==
    ASSUME CountInductive, TypeOK', Insert
    PROVE  CountInductive'
<1> DEFINE new == inserted + 1
           old == pFrameInfo[writePos]
<1>1. /\ new \in Frames /\ new # old /\ writePos \in Slots
      /\ old \in Frames \cup {NULL}
      /\ inserted' = new /\ pFrameInfo'[writePos] = new
  BY QueueAssumption DEF Insert, CountInductive, TypeOK, Frames, Slots
<1>2. /\ \A i \in Slots : pFrameInfo[i] # new
      /\ \A r \in Readers : held[r] # new
  BY DEF CountInductive, TypeOK, Frames
<1>3. ASSUME NEW f \in Frames
      PROVE  count'[f] = Cardinality(InRing(f)') + Cardinality(Holders(f)') + kept'[f]
  <2>1. Holders(f)' = Holders(f)
    BY DEF Holders, Insert
  <2>2. Cardinality(InRing(f)') = Cardinality(InRing(f))
            - (IF old = f THEN 1 ELSE 0) + (IF new = f THEN 1 ELSE 0)
    BY <1>1, RingUpdate, ZenonT(60) DEF Insert, CountInductive
  <2>3. count[f] = Cardinality(InRing(f)) + Cardinality(Holders(f)) + kept[f]
    BY DEF CountInductive, CountIsExact
  <2>4. /\ Cardinality(InRing(f)) \in Nat /\ Cardinality(Holders(f)) \in Nat
        /\ kept[f] \in Nat /\ kept'[f] = kept[f]
    BY RingFinite, HoldersFinite DEF Insert, CountInductive, TypeOK
  <2>5. CASE f = new
    <3>1. InRing(f) = {} /\ Holders(f) = {}
      BY <1>2, <2>5 DEF InRing, Holders
    <3>2. Cardinality(InRing(f)) = 0 /\ Cardinality(Holders(f)) = 0
      BY <3>1, FS_EmptySet
    <3>3. count'[f] = 1
      BY <2>5, <1>1 DEF Insert, ShareFree, CountInductive, TypeOK
    <3>4. kept[f] = 0
      BY <2>5 DEF CountInductive, TypeOK
    <3>5. QED
      BY <1>1, <2>1, <2>2, <2>4, <2>5, <3>2, <3>3, <3>4
  <2>6. CASE f = old
    <3>1. count'[f] = count[f] - 1
      BY <2>6, <1>1 DEF Insert, ShareFree, CountInductive, TypeOK, Frames
    <3>2. Cardinality(InRing(f)') = Cardinality(InRing(f)) - 1
      BY <1>1, <2>2, <2>4, <2>6
    <3>3. QED
      BY <2>1, <2>3, <2>4, <3>1, <3>2
  <2>7. CASE f # new /\ f # old
    <3>1. count'[f] = count[f]
      BY <2>7, <1>1 DEF Insert, ShareFree, CountInductive, TypeOK
    <3>2. Cardinality(InRing(f)') = Cardinality(InRing(f))
      BY <2>2, <2>4, <2>7
    <3>3. QED
      BY <2>1, <2>3, <2>4, <3>1, <3>2
  <2>8. QED
    BY <2>5, <2>6, <2>7
<1>4. /\ \A f \in Frames : f > inserted' => kept'[f] = 0
      /\ \A i \in Slots : pFrameInfo'[i] <= inserted'
      /\ \A r \in Readers : /\ held'[r] <= inserted'
                            /\ held'[r] # NULL <=> pc'[r] = "using"
  BY <1>1, SMTT(60) DEF Insert, CountInductive, TypeOK, Frames
<1>5. QED
  BY <1>3, <1>4 DEF CountInductive, CountIsExact

\* streamFreeAllFrameBuffer and streamUninitFrameQueue free every slot.
LEMMA CountEmptied ==
    ASSUME CountInductive, TypeOK', FreeAll \/ Uninit
    PROVE  CountInductive'
<1>1. /\ pFrameInfo' = [i \in Slots |-> NULL]
      /\ count' = ShareFreeSlots(count)
      /\ held' = held /\ pc' = pc /\ inserted' = inserted /\ kept' = kept
  BY DEF FreeAll, Uninit
<1>2. ASSUME NEW f \in Frames
      PROVE  count'[f] = Cardinality(InRing(f)') + Cardinality(Holders(f)') + kept'[f]
  <2>1. count'[f] = count[f] - Cardinality(InRing(f))
    BY <1>1 DEF ShareFreeSlots, InRing
  <2>2. InRing(f)' = {} /\ Holders(f)' = Holders(f)
    BY <1>1 DEF InRing, Holders, Frames
  <2>3. Cardinality(InRing(f)') = 0
    BY <2>2, FS_EmptySet
  <2>4. QED
    BY <1>1, <2>1, <2>2, <2>3, RingFinite, HoldersFinite
       DEF CountInductive, CountIsExact, TypeOK
<1>3. /\ \A f \in Frames : f > inserted' => kept'[f] = 0
      /\ \A i \in Slots : pFrameInfo'[i] <= inserted'
      /\ \A r \in Readers : /\ held'[r] <= inserted'
                            /\ held'[r] # NULL <=> pc'[r] = "using"
  BY <1>1 DEF CountInductive, TypeOK
<1>4. QED
  BY <1>2, <1>3 DEF CountInductive, CountIsExact

\* A successful get adds one holder and one reference.
LEMMA CountHit ==
    ASSUME CountInductive, TypeOK', NEW r \in Readers, GetHit(r)
    PROVE  CountInductive'
<1> DEFINE new == pFrameInfo[Begin(r)]
<1>1. Begin(r) \in Slots /\ new \in Frames \cup {NULL} /\ new <= inserted
  BY CursorInSlots DEF CountInductive, TypeOK
<1>2. held[r] = NULL /\ held'[r] = new
  BY DEF CountInductive, TypeOK, GetHit
<1>3. ASSUME NEW f \in Frames
      PROVE  count'[f] = Cardinality(InRing(f)') + Cardinality(Holders(f)') + kept'[f]
  <2>1. InRing(f)' = InRing(f)
    BY DEF InRing, GetHit, ring
  <2>2. Cardinality(Holders(f)') = Cardinality(Holders(f))
            - (IF held[r] = f THEN 1 ELSE 0) + (IF new = f THEN 1 ELSE 0)
    <3>1. held' = [held EXCEPT ![r] = held'[r]]
      BY <1>2 DEF GetHit
    <3>2. QED
      BY <1>2, <3>1, HoldersUpdate DEF CountInductive
  <2>3. /\ Cardinality(InRing(f)) \in Nat /\ Cardinality(Holders(f)) \in Nat
        /\ held[r] # f
    BY <1>2, RingFinite, HoldersFinite DEF Frames
  <2>4. count'[f] = count[f] + (IF new = f THEN 1 ELSE 0)
    <3>1. count' = ShareCopy(count, new) /\ count \in [Frames -> Int]
      BY DEF GetHit, CountInductive, TypeOK
    <3> HIDE DEF new
    <3>2. QED
      BY <1>1, <3>1 DEF ShareCopy, Frames
  <2>5. kept[f] \in Nat /\ kept'[f] = kept[f]
    BY DEF GetHit, CountInductive, TypeOK
  <2>6. QED
    BY <2>1, <2>2, <2>3, <2>4, <2>5 DEF CountInductive, CountIsExact
<1>4. /\ \A f \in Frames : f > inserted' => kept'[f] = 0
      /\ \A i \in Slots : pFrameInfo'[i] <= inserted'
      /\ \A q \in Readers : /\ held'[q] <= inserted'
                            /\ held'[q] # NULL <=> pc'[q] = "using"
  BY <1>1 DEF GetHit, CountInductive, TypeOK, ring
<1>5. QED
  BY <1>3, <1>4 DEF CountInductive, CountIsExact

\* Freeing takes one holder and one reference away.
LEMMA CountFree ==
    ASSUME CountInductive, TypeOK', NEW r \in Readers, FreeFrame(r)
    PROVE  CountInductive'
<1>1. held[r] \in Frames /\ held'[r] = NULL
  BY DEF CountInductive, TypeOK, FreeFrame
<1>2. ASSUME NEW f \in Frames
      PROVE  count'[f] = Cardinality(InRing(f)') + Cardinality(Holders(f)') + kept'[f]
  <2>1. InRing(f)' = InRing(f)
    BY DEF InRing, FreeFrame, ring
  <2>2. Cardinality(Holders(f)') = Cardinality(Holders(f))
            - (IF held[r] = f THEN 1 ELSE 0) + (IF held'[r] = f THEN 1 ELSE 0)
    BY HoldersUpdate, <1>1 DEF FreeFrame, CountInductive
  <2>3. /\ Cardinality(InRing(f)) \in Nat /\ Cardinality(Holders(f)) \in Nat
        /\ held'[r] # f
    BY <1>1, RingFinite, HoldersFinite DEF Frames
  <2>4. count'[f] = count[f] - (IF held[r] = f THEN 1 ELSE 0)
    BY <1>1, SMTT(60) DEF FreeFrame, ShareFree, CountInductive, TypeOK, Frames
  <2>5. kept[f] \in Nat /\ kept'[f] = kept[f]
    BY DEF FreeFrame, CountInductive, TypeOK
  <2>6. QED
    BY <2>1, <2>2, <2>3, <2>4, <2>5 DEF CountInductive, CountIsExact
<1>3. /\ \A f \in Frames : f > inserted' => kept'[f] = 0
      /\ \A i \in Slots : pFrameInfo'[i] <= inserted'
      /\ \A q \in Readers : /\ held'[q] <= inserted'
                            /\ held'[q] # NULL <=> pc'[q] = "using"
  BY DEF FreeFrame, CountInductive, TypeOK, ring
<1>4. QED
  BY <1>2, <1>3 DEF CountInductive, CountIsExact

\* A forgotten frame has a holder less and is forgotten once more.
LEMMA CountForget ==
    ASSUME CountInductive, TypeOK', NEW r \in Readers, Forget(r)
    PROVE  CountInductive'
<1>1. held[r] \in Frames /\ held'[r] = NULL /\ held[r] <= inserted
  BY DEF CountInductive, TypeOK, Forget
<1>2. ASSUME NEW f \in Frames
      PROVE  count'[f] = Cardinality(InRing(f)') + Cardinality(Holders(f)') + kept'[f]
  <2>1. InRing(f)' = InRing(f)
    BY DEF InRing, Forget, ring
  <2>2. Cardinality(Holders(f)') = Cardinality(Holders(f))
            - (IF held[r] = f THEN 1 ELSE 0) + (IF held'[r] = f THEN 1 ELSE 0)
    BY HoldersUpdate, <1>1 DEF Forget, CountInductive
  <2>3. /\ Cardinality(InRing(f)) \in Nat /\ Cardinality(Holders(f)) \in Nat
        /\ held'[r] # f
    BY <1>1, RingFinite, HoldersFinite DEF Frames
  <2>4. /\ kept[f] \in Nat /\ count'[f] = count[f]
        /\ kept'[f] = kept[f] + (IF held[r] = f THEN 1 ELSE 0)
    BY <1>1 DEF Forget, CountInductive, TypeOK
  <2>5. QED
    BY <2>1, <2>2, <2>3, <2>4 DEF CountInductive, CountIsExact
<1>3. /\ \A f \in Frames : f > inserted' => kept'[f] = 0
      /\ \A i \in Slots : pFrameInfo'[i] <= inserted'
      /\ \A q \in Readers : /\ held'[q] <= inserted'
                            /\ held'[q] # NULL <=> pc'[q] = "using"
  BY <1>1 DEF Forget, CountInductive, TypeOK, ring, Frames
<1>4. QED
  BY <1>2, <1>3 DEF CountInductive, CountIsExact

\* Every step keeps the counts exact.
LEMMA CountStep == CountInductive /\ [Next]_vars => CountInductive'
<1> SUFFICES ASSUME CountInductive, [Next]_vars PROVE CountInductive'
  OBVIOUS
<1>0. TypeOK'
  BY TypeStep DEF CountInductive
<1>1. CASE Insert
  BY <1>0, <1>1, CountInsert
<1>2. CASE FreeAll \/ Uninit
  BY <1>0, <1>2, CountEmptied
<1>3. ASSUME NEW r \in Readers, GetHit(r) PROVE CountInductive'
  BY <1>0, <1>3, CountHit
<1>4. ASSUME NEW r \in Readers, FreeFrame(r) \/ Forget(r) PROVE CountInductive'
  BY <1>0, <1>4, CountFree, CountForget
<1>5. ASSUME NEW r \in Readers,
             \/ \E mode \in Modes : StartReader(r, mode)
             \/ StopReader(r) \/ GetEnter(r) \/ GetLost(r)
      PROVE  CountInductive'
  <2>1. \A q \in Readers : pc'[q] = "using" <=> pc[q] = "using"
    BY <1>5 DEF CountInductive, TypeOK, StartReader, StopReader, GetEnter, GetLost
  <2>2. UNCHANGED <<inserted, pFrameInfo, held, count, kept>>
    BY <1>5 DEF StartReader, StopReader, GetEnter, GetLost, ring
  <2>3. QED
    BY <1>0, <2>1, <2>2, CountUnchanged
<1>6. CASE UNCHANGED vars
  BY <1>0, <1>6, CountUnchanged DEF vars, ring
<1>7. QED
  BY <1>1, <1>2, <1>3, <1>4, <1>5, <1>6 DEF Next, ReaderStep

\* Together with the counts: a frame that has not been inserted yet is nowhere, and
\* a reader has a frame exactly while it uses it.
THEOREM CountInductiveCorrect == Spec => []CountInductive
BY CountInit, CountStep, PTL DEF Spec

\* The share-memory count of a frame is the number of slots and of readers that
\* have it and of readers that forgot it, in every reachable state: no frame is
\* freed while somebody still has it (use after free), and none stays allocated
\* for another reason (leak).
THEOREM CountCorrect == Spec => []CountIsExact
<1>1. CountInductive => CountIsExact
  BY DEF CountInductive
<1>2. QED
  BY <1>1, CountInductiveCorrect, PTL

\* A frame that a reader is using, or that a slot holds, has not been freed.
THEOREM NoUseAfterFree ==
    TypeOK /\ CountIsExact =>
        \A f \in Frames : InRing(f) # {} \/ Holders(f) # {} => count[f] > 0
<1> SUFFICES ASSUME TypeOK, CountIsExact, NEW f \in Frames,
                    InRing(f) # {} \/ Holders(f) # {}
             PROVE  count[f] > 0
  OBVIOUS
<1>1. /\ InRing(f) = {} <=> Cardinality(InRing(f)) = 0
      /\ Holders(f) = {} <=> Cardinality(Holders(f)) = 0
  BY RingFinite, HoldersFinite, FS_EmptySet
<1>2. /\ Cardinality(InRing(f)) \in Nat /\ Cardinality(Holders(f)) \in Nat
      /\ kept[f] \in Nat
  BY RingFinite, HoldersFinite DEF TypeOK
<1>3. QED
  BY <1>1, <1>2 DEF CountIsExact

\* The frames whose memory is allocated, and those that a reader went on without
\* giving back.
InMemory == {f \in Frames : count[f] > 0}
Leaked   == {f \in Frames : kept[f] > 0}

\* What exact counts say of the memory in use.
LEMMA ExactBoundsMemory ==
    TypeOK /\ CountIsExact =>
        Cardinality(InMemory \ Leaked) <= N + Cardinality(Readers)
<1> SUFFICES ASSUME TypeOK, CountIsExact
             PROVE  Cardinality(InMemory \ Leaked) <= N + Cardinality(Readers)
  OBVIOUS
<1> DEFINE Ringed == {pFrameInfo[i] : i \in Slots}
           InHand == {held[r] : r \in Readers}
<1>1. IsFiniteSet(Ringed) /\ Cardinality(Ringed) <= N
  <2>1. Cardinality(Slots) = N
    BY QueueAssumption, FS_Interval DEF Slots
  <2>2. pFrameInfo \in [Slots -> Frames \cup {NULL}]
    BY DEF TypeOK
  <2>3. QED
    BY <2>1, <2>2, SlotsFinite, ValuesBounded
<1>2. IsFiniteSet(InHand) /\ Cardinality(InHand) <= Cardinality(Readers)
  <2>1. held \in [Readers -> Frames \cup {NULL}]
    BY DEF TypeOK
  <2>2. QED
    BY <2>1, QueueAssumption, ValuesBounded
<1>3. InMemory \ Leaked \subseteq Ringed \cup InHand
  <2> SUFFICES ASSUME NEW f \in Frames, count[f] > 0, ~(kept[f] > 0),
                      f \notin Ringed, f \notin InHand
               PROVE  FALSE
    BY DEF InMemory, Leaked
  <2>1. kept[f] = 0
    BY DEF TypeOK
  <2>2. InRing(f) = {} /\ Holders(f) = {}
    BY DEF InRing, Holders
  <2>3. Cardinality(InRing(f)) = 0 /\ Cardinality(Holders(f)) = 0
    BY <2>2, FS_EmptySet
  <2>4. count[f] = 0
    BY <2>1, <2>3 DEF CountIsExact
  <2>5. QED
    BY <2>4
<1> HIDE DEF Ringed, InHand
<1>4. /\ IsFiniteSet(Ringed \cup InHand)
      /\ Cardinality(Ringed \cup InHand) <= Cardinality(Ringed) + Cardinality(InHand)
  <2>1. IsFiniteSet(Ringed \cap InHand)
    BY <1>1, FS_Subset
  <2>2. Cardinality(Ringed \cap InHand) \in Nat
    BY <2>1, FS_CardinalityType
  <2>3. Cardinality(Ringed) \in Nat /\ Cardinality(InHand) \in Nat
    BY <1>1, <1>2, FS_CardinalityType
  <2>4. QED
    BY <1>1, <1>2, <2>2, <2>3, FS_Union
<1>5. Cardinality(InMemory \ Leaked) <= Cardinality(Ringed \cup InHand)
  BY <1>3, <1>4, FS_Subset
<1>6. /\ Cardinality(InMemory \ Leaked) \in Nat
      /\ Cardinality(Ringed) \in Nat /\ Cardinality(InHand) \in Nat
      /\ Cardinality(Ringed \cup InHand) \in Nat
      /\ Cardinality(Readers) \in Nat
  <2>1. IsFiniteSet(InMemory \ Leaked)
    BY <1>3, <1>4, FS_Subset
  <2>2. QED
    BY <1>1, <1>2, <1>4, <2>1, QueueAssumption, FS_CardinalityType
<1>7. QED
  BY <1>1, <1>2, <1>4, <1>5, <1>6, QueueAssumption

\* Apart from the frames that readers went on without giving back, never more
\* frames are in memory than the ring has slots and there are readers, however long
\* the queue runs: the stream does not use up the share memory.
THEOREM MemoryBounded ==
    Spec => [](Cardinality(InMemory \ Leaked) <= N + Cardinality(Readers))
<1>1. CountInductive => Cardinality(InMemory \ Leaked) <= N + Cardinality(Readers)
  BY ExactBoundsMemory DEF CountInductive
<1>2. QED
  BY <1>1, CountInductiveCorrect, PTL

-----------------------------------------------------------------------------
(* The queue implements FrameLog, flushes and teardown included.  The      *)
(* proof places slots and cursors by their distance behind writePos, which *)
(* a step of the writer changes by one.                                    *)

\* The distance of slot i behind slot w, and the slot at distance k.
Dist(w, i) == IF i < w THEN w - i ELSE w - i + N
Pos(w, k)  == IF k <= w THEN w - k ELSE w - k + N

\* The slots hold the newest frames in order, back to the last flush.
RingInOrder ==
    \A i \in Slots :
        pFrameInfo[i] = IF Dist(writePos, i) <= inserted - flushed
                        THEN inserted + 1 - Dist(writePos, i) ELSE NULL

\* The frame after the last one a session was given has been overwritten; or
\* the session's cursor is on it, with the end of its window not behind.
Overrun(r) == last[r] + N < inserted
Follows(r) == /\ inserted - last[r] \in 0..N
              /\ readBegin[r] = Pos(writePos, inserted - last[r])
              /\ \E k \in 0..(inserted - last[r]) : readEnd[r] = Pos(writePos, k)

\* What a session that has been given a frame since the last flush relies on; one
\* that has not may have its cursors anywhere.
SessionInOrder(r) ==
    /\ last[r] <= inserted
    /\ last[r] > flushed => /\ Overrun(r) \/ Follows(r)
                            /\ pc[r] = "locking" => last[r] < inserted

LogInductive ==
    /\ TypeOK
    /\ RingInOrder
    /\ \A r \in Readers : SessionInOrder(r)
    /\ ~open => flushed = inserted

\* The slot after a slot, without a remainder.
LEMMA NextSlot ==
    ASSUME NEW i \in Slots
    PROVE  (i + 1) % N = IF i = N - 1 THEN 0 ELSE i + 1
<1>1. CASE i = N - 1
  <2>1. (i + 1) % N = N % N
    BY <1>1, QueueAssumption
  <2>2. N % N = 0
    BY QueueAssumption, SMT
  <2>3. QED
    BY <1>1, <2>1, <2>2
<1>2. CASE i # N - 1
  BY <1>2, QueueAssumption, SMT DEF Slots
<1>3. QED
  BY <1>1, <1>2

\* Distances and places are inverse to each other.
LEMMA PosDist ==
    ASSUME NEW w \in Slots
    PROVE  /\ \A i \in Slots : Dist(w, i) \in 1..N /\ Pos(w, Dist(w, i)) = i
           /\ \A k \in 0..N : Pos(w, k) \in Slots
           /\ \A k \in 1..N : Dist(w, Pos(w, k)) = k
           /\ Pos(w, 0) = w
BY QueueAssumption DEF Dist, Pos, Slots

\* A step of the writer moves every place one further behind it.
LEMMA PosInsert ==
    ASSUME NEW w \in Slots, NEW v, v = (w + 1) % N
    PROVE  /\ \A k \in 0..N-1 : Pos(v, k + 1) = Pos(w, k)
           /\ \A i \in Slots : Dist(v, i) = IF i = w THEN 1 ELSE Dist(w, i) + 1
<1>1. v = IF w = N - 1 THEN 0 ELSE w + 1
  BY NextSlot
<1>2. QED
  BY <1>1, QueueAssumption DEF Dist, Pos, Slots

\* A reader that the writer has not overrun is in its window.
LEMMA FollowsInWindow ==
    ASSUME TypeOK, NEW r \in Readers, Follows(r)
    PROVE  InWindow(readBegin[r], readEnd[r], writePos)
<1>1. writePos \in Slots /\ last[r] \in Int /\ inserted \in Int
  BY DEF TypeOK, Frames
<1>2. PICK k \in 0..(inserted - last[r]) : readEnd[r] = Pos(writePos, k)
  BY DEF Follows
<1>3. QED
  BY <1>1, <1>2, QueueAssumption DEF Follows, Pos, Slots, InWindow

\* The cursors of a session that has been given a frame are slots, and a get
\* works with them as they are.
LEMMA FollowsCursor ==
    ASSUME TypeOK, NEW r \in Readers, Follows(r)
    PROVE  Begin(r) = readBegin[r] /\ End(r) = readEnd[r] /\ readBegin[r] \in Slots
<1>1. writePos \in Slots
  BY DEF TypeOK
<1>2. readBegin[r] \in Slots
  BY <1>1, PosDist DEF Follows
<1>3. QED
  BY <1>2 DEF Begin, End, Starts, Slots

\* A queue that has just been initialised is in order.
LEMMA LogInit == Init => LogInductive
<1> SUFFICES ASSUME Init PROVE LogInductive
  OBVIOUS
<1>1. TypeOK
  BY TypeInit
<1>2. \A i \in Slots : Dist(writePos, i) >= 1
  BY <1>1, PosDist DEF TypeOK
<1>3. \A i \in Slots : Dist(writePos, i) \in Int
  BY <1>1, PosDist DEF TypeOK
<1>4. QED
  BY <1>1, <1>2, <1>3 DEF Init, LogInductive, RingInOrder, SessionInOrder

\* An insert puts its frame at distance one and moves the others one further.
LEMMA LogInsert ==
    ASSUME LogInductive, TypeOK', Insert
    PROVE  LogInductive'
<1>1. /\ writePos \in Slots /\ inserted \in Nat /\ open /\ open'
      /\ flushed \in 0..inserted /\ flushed' = flushed
      /\ writePos' = (writePos + 1) % N
      /\ inserted' = inserted + 1
      /\ pFrameInfo' = [pFrameInfo EXCEPT ![writePos] = inserted + 1]
      /\ UNCHANGED <<readBegin, readEnd, last, pc>>
  BY DEF LogInductive, TypeOK, Insert, cursors
<1>2. RingInOrder'
  <2>1. ASSUME NEW i \in Slots
        PROVE  pFrameInfo'[i] = IF Dist(writePos', i) <= inserted' - flushed'
                                THEN inserted' + 1 - Dist(writePos', i) ELSE NULL
    <3>1. Dist(writePos', i) = IF i = writePos THEN 1 ELSE Dist(writePos, i) + 1
      BY <1>1, PosInsert
    <3>2. pFrameInfo'[i] = IF i = writePos THEN inserted + 1 ELSE pFrameInfo[i]
      BY <1>1 DEF LogInductive, TypeOK
    <3>3. Dist(writePos, i) \in Int
      BY <1>1, PosDist
    <3>4. pFrameInfo[i] = IF Dist(writePos, i) <= inserted - flushed
                          THEN inserted + 1 - Dist(writePos, i) ELSE NULL
      BY <1>1 DEF LogInductive, RingInOrder
    <3>5. QED
      BY <1>1, <3>1, <3>2, <3>3, <3>4
  <2>2. QED
    BY <2>1 DEF RingInOrder
<1>3. ASSUME NEW r \in Readers
      PROVE  SessionInOrder(r)'
  <2>0. last[r] \in Int /\ last[r] <= inserted
    BY <1>1 DEF LogInductive, SessionInOrder, TypeOK, Frames
  <2> SUFFICES ASSUME last[r] > flushed
               PROVE  Overrun(r)' \/ Follows(r)'
    BY <1>1, <2>0 DEF SessionInOrder
  <2>1. /\ last[r] \in Int /\ last[r] <= inserted
        /\ Overrun(r) \/ Follows(r)
    BY <1>1, <2>0 DEF LogInductive, SessionInOrder
  <2>2. CASE last[r] + N < inserted + 1
    BY <1>1, <2>1, <2>2 DEF Overrun
  <2>3. CASE ~(last[r] + N < inserted + 1)
    <3>1. Follows(r) /\ inserted - last[r] \in 0..N-1
      BY <1>1, <2>1, <2>3, QueueAssumption DEF Overrun
    <3>2. PICK k \in 0..(inserted - last[r]) : readEnd[r] = Pos(writePos, k)
      BY <3>1 DEF Follows
    <3>3. /\ Pos(writePos, inserted - last[r]) = Pos(writePos', inserted - last[r] + 1)
          /\ Pos(writePos, k) = Pos(writePos', k + 1)
      <4>1. \A j \in 0..N-1 : Pos(writePos', j + 1) = Pos(writePos, j)
        BY <1>1, PosInsert
      <4>2. k \in 0..N-1
        BY <1>1, <2>1, <3>1, <3>2, QueueAssumption
      <4>3. QED
        BY <3>1, <4>1, <4>2
    <3>4. inserted' - last'[r] = inserted - last[r] + 1
      BY <1>1, <2>1
    <3>5. /\ readBegin'[r] = Pos(writePos', inserted - last[r] + 1)
          /\ readEnd'[r] = Pos(writePos', k + 1)
      BY <1>1, <3>1, <3>2, <3>3 DEF Follows
    <3>6. k + 1 \in 0..(inserted' - last'[r]) /\ inserted' - last'[r] \in 0..N
      BY <1>1, <2>1, <3>1, <3>2, <3>4, QueueAssumption
    <3>7. Follows(r)'
      BY <3>4, <3>5, <3>6 DEF Follows
    <3>8. QED
      BY <1>1, <2>1, <3>7
  <2>4. QED
    BY <2>2, <2>3
<1>4. QED
  BY <1>1, <1>2, <1>3 DEF LogInductive

\* What a get that finds a frame gives to a session: a frame of the log after
\* the last one, and the next one if it is still there and no flush has come
\* between.
LEMMA HitInOrder ==
    ASSUME LogInductive, NEW r \in Readers, GetHit(r), pFrameInfo[Begin(r)] # NULL
    PROVE  LET f == pFrameInfo[Begin(r)]
           IN /\ Begin(r) \in Slots
              /\ f = inserted + 1 - Dist(writePos, Begin(r))
              /\ f \in 1..inserted /\ f \in flushed+1..inserted
              /\ inserted < f + N
              /\ f > last[r]
              /\ last[r] > flushed /\ inserted < last[r] + 1 + N => f = last[r] + 1
<1>1. /\ writePos \in Slots /\ inserted \in Nat /\ flushed \in 0..inserted
      /\ last[r] \in Nat /\ pc[r] = "locking"
  BY DEF LogInductive, TypeOK, GetHit, Frames
<1>2. Begin(r) \in Slots
  BY CursorInSlots DEF LogInductive
<1>3. Dist(writePos, Begin(r)) \in 1..N
  BY <1>1, <1>2, PosDist
<1>4. /\ pFrameInfo[Begin(r)] = inserted + 1 - Dist(writePos, Begin(r))
      /\ Dist(writePos, Begin(r)) <= inserted - flushed
  BY <1>1, <1>2 DEF LogInductive, RingInOrder
<1>5. CASE last[r] <= flushed
  BY <1>1, <1>2, <1>3, <1>4, <1>5, QueueAssumption
<1>6. CASE last[r] > flushed /\ Overrun(r)
  BY <1>1, <1>2, <1>3, <1>4, <1>6, QueueAssumption DEF Overrun
<1>7. CASE last[r] > flushed /\ Follows(r)
  <2>1. last[r] < inserted
    BY <1>1, <1>2, <1>7 DEF LogInductive, SessionInOrder
  <2>2. Begin(r) = Pos(writePos, inserted - last[r]) /\ inserted - last[r] \in 1..N
    BY <1>1, <1>7, <2>1, FollowsCursor DEF LogInductive, Follows
  <2>3. Dist(writePos, Begin(r)) = inserted - last[r]
    BY <1>1, <2>2, PosDist
  <2>4. QED
    BY <1>1, <1>2, <1>3, <1>4, <2>1, <2>2, <2>3, QueueAssumption
<1>8. QED
  BY <1>1, <1>2, <1>5, <1>6, <1>7 DEF LogInductive, SessionInOrder

\* After a get that found a frame the session follows it.
LEMMA LogHit ==
    ASSUME LogInductive, TypeOK', NEW r \in Readers, GetHit(r)
    PROVE  LogInductive'
<1> DEFINE f == pFrameInfo[Begin(r)]
<1>1. /\ writePos \in Slots /\ inserted \in Nat /\ flushed \in 0..inserted
      /\ UNCHANGED ring
      /\ pc[r] = "locking"
  BY DEF LogInductive, TypeOK, GetHit, ring
<1>2. RingInOrder'
  BY <1>1 DEF LogInductive, RingInOrder, Dist, ring
<1>3. ASSUME NEW q \in Readers, q # r
      PROVE  SessionInOrder(q)'
  <2>1. /\ last'[q] = last[q] /\ readBegin'[q] = readBegin[q]
        /\ readEnd'[q] = readEnd[q] /\ pc'[q] = pc[q]
    BY <1>3 DEF GetHit, LogInductive, TypeOK
  <2>2. SessionInOrder(q)
    BY <1>1 DEF LogInductive
  <2>3. QED
    BY <1>1, <2>1, <2>2 DEF SessionInOrder, Overrun, Follows, Pos, ring
<1>4. SessionInOrder(r)'
  <2>1. CASE f = NULL
    <3>1. last'[r] = last[r] /\ pc'[r] = "idle"
      BY <2>1 DEF GetHit, LogInductive, TypeOK
    <3>2. CASE last[r] <= flushed
      BY <1>1, <3>1, <3>2 DEF SessionInOrder, LogInductive, TypeOK, Frames, ring
    <3>3. CASE last[r] > flushed /\ Overrun(r)
      BY <1>1, <3>1, <3>3 DEF SessionInOrder, Overrun, LogInductive, ring
    <3>4. CASE last[r] > flushed /\ Follows(r)
      <4>1. last[r] < inserted /\ last[r] \in Nat
        BY <1>1, <3>4 DEF LogInductive, SessionInOrder, TypeOK, Frames
      <4>2. Begin(r) = Pos(writePos, inserted - last[r]) /\ inserted - last[r] \in 1..N
        BY <1>1, <3>4, <4>1, FollowsCursor DEF LogInductive, Follows
      <4>3. Dist(writePos, Begin(r)) = inserted - last[r] /\ Begin(r) \in Slots
        BY <1>1, <4>2, PosDist, FollowsCursor, <3>4 DEF LogInductive
      <4>4. Dist(writePos, Begin(r)) <= inserted - flushed
        BY <1>1, <3>4, <4>1, <4>3
      <4>5. f = inserted + 1 - Dist(writePos, Begin(r))
        BY <1>1, <4>3, <4>4 DEF LogInductive, RingInOrder
      <4>6. QED
        BY <1>1, <2>1, <4>1, <4>3, <4>5
    <3>5. QED
      <4>1. SessionInOrder(r) /\ last[r] \in Int /\ flushed \in Int
        BY <1>1 DEF LogInductive, TypeOK, Frames
      <4>2. last[r] > flushed => Overrun(r) \/ Follows(r)
        BY <4>1 DEF SessionInOrder
      <4>3. QED
        BY <3>2, <3>3, <3>4, <4>1, <4>2
  <2>2. CASE f # NULL
    <3>1. /\ Begin(r) \in Slots
          /\ f = inserted + 1 - Dist(writePos, Begin(r))
          /\ f \in 1..inserted
      BY <2>2, HitInOrder
    <3>2. /\ last'[r] = f /\ pc'[r] = "using"
          /\ readBegin'[r] = (Begin(r) + 1) % N
          /\ readEnd'[r] = writePos
      BY <2>2 DEF GetHit, LogInductive, TypeOK
    <3>3. Dist(writePos, Begin(r)) \in 1..N
      BY <1>1, <3>1, PosDist
    <3>4. readBegin'[r] = Pos(writePos, inserted - f)
      <4>1. readBegin'[r] = IF Begin(r) = N - 1 THEN 0 ELSE Begin(r) + 1
        BY <3>1, <3>2, NextSlot
      <4>2. inserted - f = Dist(writePos, Begin(r)) - 1
        BY <1>1, <3>1, <3>3
      <4>3. QED
        BY <1>1, <3>1, <4>1, <4>2, QueueAssumption DEF Pos, Dist, Slots
    <3>5. inserted - f \in 0..N /\ 0 \in 0..(inserted - f)
      BY <1>1, <3>1, <3>3, QueueAssumption
    <3>6. /\ Pos(writePos', inserted - f) = Pos(writePos, inserted - f)
          /\ Pos(writePos', 0) = writePos
      BY <1>1, <3>2, PosDist DEF Pos, ring
    <3>7. Follows(r)'
      <4>1. inserted' - last'[r] = inserted - f
        BY <1>1, <3>2 DEF ring
      <4>2. QED
        BY <3>2, <3>4, <3>5, <3>6, <4>1 DEF Follows, Pos
    <3>8. last'[r] <= inserted'
      BY <1>1, <3>1, <3>2 DEF ring
    <3>9. QED
      BY <3>2, <3>7, <3>8 DEF SessionInOrder
  <2>3. QED
    BY <2>1, <2>2
<1>5. QED
  BY <1>1, <1>2, <1>3, <1>4 DEF LogInductive, ring

\* A reader is lost only after the writer has overrun it.
LEMMA LogLost ==
    ASSUME LogInductive, TypeOK', NEW r \in Readers, GetLost(r)
    PROVE  LogInductive'
<1>1. /\ UNCHANGED ring /\ pc[r] = "locking" /\ last' = last
  BY DEF LogInductive, TypeOK, GetLost, ring
<1>2. RingInOrder'
  BY <1>1 DEF LogInductive, RingInOrder, Dist, ring
<1>3. ASSUME NEW q \in Readers, q # r
      PROVE  SessionInOrder(q)'
  <2>1. /\ readBegin'[q] = readBegin[q]
        /\ readEnd'[q] = readEnd[q] /\ pc'[q] = pc[q]
    BY <1>3 DEF GetLost, LogInductive, TypeOK
  <2>2. SessionInOrder(q)
    BY <1>1 DEF LogInductive
  <2>3. QED
    BY <1>1, <2>1, <2>2 DEF SessionInOrder, Overrun, Follows, Pos, ring
<1>4. SessionInOrder(r)'
  <2>1. SessionInOrder(r)
    BY <1>1 DEF LogInductive
  <2>2. ~Follows(r)
    <3>1. SUFFICES ASSUME Follows(r) PROVE FALSE
      OBVIOUS
    <3>2. InWindow(Begin(r), End(r), writePos)
      BY <3>1, FollowsInWindow, FollowsCursor DEF LogInductive
    <3>3. QED
      BY <3>2 DEF GetLost
  <2>3. last[r] > flushed => Overrun(r)' /\ last'[r] < inserted'
    BY <1>1, <2>1, <2>2, QueueAssumption
       DEF SessionInOrder, Overrun, LogInductive, TypeOK, Frames, ring
  <2>4. QED
    BY <1>1, <2>1, <2>3 DEF SessionInOrder, ring
<1>5. QED
  BY <1>1, <1>2, <1>3, <1>4 DEF LogInductive, ring

\* Going for the lock with something to read: a session that is up to date is
\* turned away by the unlocked test.
LEMMA LogEnter ==
    ASSUME LogInductive, TypeOK', NEW r \in Readers, GetEnter(r)
    PROVE  LogInductive'
<1>1. /\ UNCHANGED <<ring, readBegin, readEnd, last>>
      /\ writePos \in Slots
  BY DEF LogInductive, TypeOK, GetEnter, ring, cursors
<1>2. RingInOrder'
  BY <1>1 DEF LogInductive, RingInOrder, Dist, ring
<1>3. ASSUME NEW q \in Readers
      PROVE  SessionInOrder(q)'
  <2>1. SessionInOrder(q)
    BY <1>1 DEF LogInductive
  <2>2. last[q] \in Nat /\ inserted \in Nat
    BY DEF LogInductive, TypeOK, Frames
  <2>3. CASE q # r
    <3>1. pc'[q] = pc[q]
      BY <2>3 DEF GetEnter, LogInductive, TypeOK
    <3>2. QED
      BY <1>1, <2>1, <3>1 DEF SessionInOrder, Overrun, Follows, Pos, ring
  <2>4. CASE q = r
    <3>1. last[r] > flushed => last[r] < inserted
      <4>1. SUFFICES ASSUME last[r] > flushed, last[r] = inserted PROVE FALSE
        BY <2>1, <2>2, <2>4 DEF SessionInOrder
      <4>2. Follows(r)
        BY <2>1, <2>2, <2>4, <4>1, QueueAssumption DEF SessionInOrder, Overrun
      <4>3. inserted - last[r] = 0
        BY <2>2, <2>4, <4>1
      <4>4. readBegin[r] = Pos(writePos, 0) /\ readEnd[r] = Pos(writePos, 0)
        BY <4>2, <4>3 DEF Follows
      <4>5. CaughtUp(r)
        BY <1>1, <4>4, PosDist DEF CaughtUp
      <4>6. QED
        BY <4>5 DEF GetEnter
    <3>2. QED
      BY <1>1, <2>1, <2>4, <3>1 DEF SessionInOrder, Overrun, Follows, Pos, ring
  <2>5. QED
    BY <2>3, <2>4
<1>4. QED
  BY <1>1, <1>2, <1>3 DEF LogInductive, ring

\* The steps that neither read nor write the ring.
LEMMA LogElsewhere ==
    ASSUME LogInductive, TypeOK', NEW r \in Readers,
           \/ \E mode \in Modes : StartReader(r, mode)
           \/ StopReader(r) \/ FreeFrame(r) \/ Forget(r)
    PROVE  LogInductive'
<1>1. UNCHANGED ring
  BY DEF StartReader, StopReader, FreeFrame, Forget
<1>2. RingInOrder'
  BY <1>1 DEF LogInductive, RingInOrder, Dist, ring
<1>3. ASSUME NEW q \in Readers
      PROVE  SessionInOrder(q)'
  <2>1. SessionInOrder(q) /\ inserted \in Nat /\ flushed \in Nat
    BY DEF LogInductive, TypeOK
  <2>2. \/ last'[q] = 0
        \/ /\ last'[q] = last[q] /\ readBegin'[q] = readBegin[q]
           /\ readEnd'[q] = readEnd[q]
           /\ pc'[q] = "locking" => pc[q] = "locking"
    BY DEF StartReader, StopReader, FreeFrame, Forget, LogInductive, TypeOK, cursors
  <2>3. QED
    BY <1>1, <2>1, <2>2 DEF SessionInOrder, Overrun, Follows, Pos, ring
<1>4. QED
  BY <1>1, <1>2, <1>3 DEF LogInductive, ring

\* A flush, and the teardown: no slot holds a frame, and no session has been given
\* one since.
LEMMA LogEmptied ==
    ASSUME LogInductive, TypeOK', FreeAll \/ Uninit
    PROVE  LogInductive'
<1>1. /\ inserted' = inserted /\ flushed' = inserted /\ last' = last
      /\ inserted \in Nat
      /\ pFrameInfo' = [i \in Slots |-> NULL]
  BY DEF FreeAll, Uninit, LogInductive, TypeOK
<1>2. RingInOrder'
  <2>1. \A i \in Slots : Dist(writePos, i)' \in 1..N
    BY PosDist DEF TypeOK, Dist
  <2>2. QED
    BY <1>1, <2>1 DEF RingInOrder
<1>3. ASSUME NEW r \in Readers
      PROVE  SessionInOrder(r)'
  <2>1. last[r] \in Nat /\ last[r] <= inserted
    BY DEF LogInductive, SessionInOrder, TypeOK, Frames
  <2>2. QED
    BY <1>1, <2>1 DEF SessionInOrder
<1>4. QED
  BY <1>1, <1>2, <1>3 DEF LogInductive

\* Every step keeps slots and sessions in order.
LEMMA LogStep == LogInductive /\ [Next]_vars => LogInductive'
<1> SUFFICES ASSUME LogInductive, [Next]_vars PROVE LogInductive'
  OBVIOUS
<1>0. TypeOK'
  BY TypeStep DEF LogInductive
<1>1. CASE Insert
  BY <1>0, <1>1, LogInsert
<1>2. CASE FreeAll \/ Uninit
  BY <1>0, <1>2, LogEmptied
<1>4. ASSUME NEW r \in Readers, GetHit(r) PROVE LogInductive'
  BY <1>0, <1>4, LogHit
<1>5. ASSUME NEW r \in Readers, GetLost(r) PROVE LogInductive'
  BY <1>0, <1>5, LogLost
<1>6. ASSUME NEW r \in Readers, GetEnter(r) PROVE LogInductive'
  BY <1>0, <1>6, LogEnter
<1>7. ASSUME NEW r \in Readers,
             \/ \E mode \in Modes : StartReader(r, mode)
             \/ StopReader(r) \/ FreeFrame(r) \/ Forget(r)
      PROVE  LogInductive'
  BY <1>0, <1>7, LogElsewhere
<1>8. CASE UNCHANGED vars
  BY <1>0, <1>8 DEF vars, ring, cursors, LogInductive, RingInOrder, Dist,
                    SessionInOrder, Overrun, Follows, Pos
<1>9. QED
  BY <1>1, <1>2, <1>4, <1>5, <1>6, <1>7, <1>8 DEF Next, ReaderStep

\* Every step of the queue is a step of the log, or none.
LEMMA LogRefines == LogInductive /\ [Next]_vars => [Log!Next]_(Log!vars)
<1> SUFFICES ASSUME LogInductive, [Next]_vars PROVE [Log!Next]_(Log!vars)
  OBVIOUS
<1>1. CASE Insert
  BY <1>1 DEF Insert, Log!Next, Log!Publish
<1>2. CASE FreeAll
  BY <1>2 DEF FreeAll, Log!Next, Log!Flush
<1>3. CASE Uninit
  BY <1>3 DEF Uninit, Log!Next, Log!Flush
<1>4. ASSUME NEW r \in Readers, GetHit(r) PROVE [Log!Next]_(Log!vars)
  <2>1. CASE pFrameInfo[Begin(r)] = NULL
    <3>1. last' = last
      BY <1>4, <2>1 DEF GetHit, LogInductive, TypeOK
    <3>2. QED
      BY <1>4, <3>1 DEF GetHit, ring, Log!vars
  <2>2. CASE pFrameInfo[Begin(r)] # NULL
    <3> DEFINE f == pFrameInfo[Begin(r)]
    <3>1. /\ f \in 1..inserted /\ f \in flushed+1..inserted
          /\ inserted < f + N
          /\ f > last[r]
          /\ last[r] > flushed /\ inserted < last[r] + 1 + N => f = last[r] + 1
      BY <1>4, <2>2, HitInOrder
    <3>2. last' = [last EXCEPT ![r] = f] /\ inserted' = inserted /\ flushed' = flushed
      BY <1>4, <2>2 DEF GetHit, ring
    <3>3. Log!Remembered(f)
      BY <3>1 DEF Log!Remembered
    <3>4. last[r] > flushed /\ Log!Remembered(last[r] + 1) => f = last[r] + 1
      BY <3>1 DEF Log!Remembered
    <3>5. Log!Deliver(r)
      BY <3>1, <3>2, <3>3, <3>4 DEF Log!Deliver
    <3>6. QED
      BY <3>5 DEF Log!Next
  <2>3. QED
    BY <2>1, <2>2
<1>5. ASSUME NEW r \in Readers, GetLost(r) \/ GetEnter(r) \/ FreeFrame(r) \/ Forget(r)
      PROVE  [Log!Next]_(Log!vars)
  BY <1>5 DEF GetLost, GetEnter, FreeFrame, Forget, ring, Log!vars
<1>6. ASSUME NEW r \in Readers,
             (\E mode \in Modes : StartReader(r, mode)) \/ StopReader(r)
      PROVE  [Log!Next]_(Log!vars)
  <2>1. last' = [last EXCEPT ![r] = 0] /\ inserted' = inserted /\ flushed' = flushed
    BY <1>6 DEF StartReader, StopReader, ring
  <2>2. QED
    BY <2>1 DEF Log!Next, Log!NewSession
<1>7. CASE UNCHANGED vars
  BY <1>7 DEF vars, ring, Log!vars
<1>8. QED
  BY <1>1, <1>2, <1>3, <1>4, <1>5, <1>6, <1>7 DEF Next, ReaderStep

\* The queue implements FrameLog: whatever the writer laps, flushes or tears down,
\* and wherever the unlocked test, the jump after an overrun and the start modes
\* put a cursor, a session is given frames in order and misses only frames that
\* have been overwritten or flushed.
THEOREM LogCorrect == Spec => LogSpec
<1>1. Init => Log!Init
  BY DEF Init, Log!Init
<1>2. LogInductive /\ [Next]_vars => LogInductive'
  BY LogStep
<1>3. LogInductive /\ [Next]_vars => [Log!Next]_(Log!vars)
  BY LogRefines
<1>4. QED
  BY <1>1, <1>2, <1>3, LogInit, PTL DEF Spec, LogSpec, Log!Spec
=============================================================================
