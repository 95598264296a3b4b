-------------------------- MODULE RtspReceiveProofs --------------------------
(***************************************************************************)
(* For every ring, parser reserve, receive size and stream of packets that *)
(* meets ReceiveAssumption: the ring is the queue of what was received,    *)
(* the parser always begins at the header of a complete packet, and the    *)
(* frames it puts together are whole and in the order of the camera.       *)
(***************************************************************************)
EXTENDS RtspReceive, SequenceTheorems, TLAPS

\* The part of the assumption that the arithmetic needs.
LEMMA Sizes ==
    /\ BufLen \in Nat /\ BufferSize \in Nat /\ MaxRecv \in Nat
    /\ BufferSize > 0 /\ MaxRecv > 0
    /\ BufferSize + MaxRecv < BufLen
BY ReceiveAssumption

USE Sizes

-----------------------------------------------------------------------------
(* The ring's arithmetic.                                                   *)

\* A position at most one lap past the ring's start.
Wrap(a) == IF a < BufLen THEN a ELSE a - BufLen

\* % BufLen of a position at most one lap ahead.
LEMMA ModIsWrap ==
    ASSUME NEW a \in 0..2 * BufLen - 1
    PROVE  a % BufLen = Wrap(a) /\ Wrap(a) \in Cells
<1>1. CASE a < BufLen
  BY <1>1, SMT DEF Wrap, Cells
<1>2. CASE a >= BufLen
  <2>1. a - BufLen \in 0..BufLen - 1
    BY <1>2, SMT
  <2>2. a % BufLen = (a - BufLen) % BufLen
    BY <1>2, SMT
  <2>3. QED
    BY <2>1, <2>2, <1>2, SMT DEF Wrap, Cells
<1>3. QED
  BY <1>1, <1>2, SMT

\* Equal cursors are ambiguous, but not when the ring is neither full nor, once
\* the cursors have left zero, empty.
LEMMA UsedIsLength ==
    ASSUME NEW s \in Cells, NEW used \in 0..BufLen - 1, NEW e \in Cells,
           e = Wrap(s + used),
           used = 0 => e = 0
    PROVE  UsedSize(s, e) = used
<1>1. CASE used = 0
  <2>1. e = 0 /\ s = 0
    BY <1>1, SMT DEF Wrap, Cells
  <2>2. (e - s + BufLen) % BufLen = 0
    BY <2>1, ModIsWrap DEF Wrap
  <2>3. QED
    BY <2>1, <2>2, <1>1 DEF UsedSize
<1>2. CASE used > 0
  <2>1. e # s
    BY <1>2, SMT DEF Wrap, Cells
  <2>2. e - s + BufLen \in 0..2 * BufLen - 1 /\ Wrap(e - s + BufLen) = used
    BY <1>2, SMT DEF Wrap, Cells
  <2>3. (e - s + BufLen) % BufLen = used
    BY <2>2, ModIsWrap
  <2>4. QED
    BY <2>1, <2>3 DEF UsedSize
<1>3. QED
  BY <1>1, <1>2

-----------------------------------------------------------------------------
(* The inductive invariant.                                                *)

\* What the thread still has to parse: the ring first, then the network.
Unparsed(i) == IF i <= Len(pending) THEN pending[i] ELSE wire[i - Len(pending)]
Ahead       == Len(pending) + Len(wire)

\* Every packet of the stream is whole, smaller than BufferSize, and followed by
\* the next packet.
Linked ==
    \A i \in 1..Ahead :
        IsHeader(Unparsed(i)) =>
            /\ Unparsed(i).n \in 1..BufferSize - 1
            /\ i + Unparsed(i).n <= Ahead
            /\ i + Unparsed(i).n < Ahead => IsHeader(Unparsed(i + Unparsed(i).n + 1))

\* The ring holds pending between its cursors, and never fills up.
Layout ==
    /\ Len(pending) <= BufferSize + MaxRecv
    /\ dataEnd = Wrap(dataStart + Len(pending))
    /\ \A i \in 1..Len(pending) : buf[Wrap(dataStart + i - 1)] = pending[i]

\* Once the stream has started the ring is never empty, and begins with a packet.
Started ==
    /\ startFlag => replied /\ pending # <<>> /\ IsHeader(pending[1])
    /\ ~startFlag => pending = <<>> /\ dataStart = 0 /\ dataEnd = 0

IInv == TypeOK /\ Linked /\ Layout /\ Started

\* The invariant holds before the first session.
LEMMA InitIInv == Init => IInv
<1> SUFFICES ASSUME Init PROVE IInv
  OBVIOUS
<1>1. Garbage \in Units /\ 0 \in Cells
  BY DEF Garbage, Payload, Units, Cells
<1>2. TypeOK
  <2>1. /\ camera \in [packets : Nat, frame : Nat, sent : Nat, more : BOOLEAN]
        /\ buf \in [Cells -> Units]
    BY <1>1 DEF Init
  <2>2. <<>> \in Seq(Units)
    OBVIOUS
  <2>3. QED
    BY <1>1, <2>1, <2>2 DEF Init, TypeOK
<1>3. Ahead = 0 /\ Len(pending) = 0
  BY DEF Init, Ahead
<1>4. Linked
  BY <1>3 DEF Linked
<1>5. Layout
  BY <1>3 DEF Init, Layout, Wrap
<1>6. Started
  BY DEF Init, Started
<1>7. QED
  BY <1>2, <1>4, <1>5, <1>6 DEF IInv

\* The sizes the ring reports are those of the queue.
LEMMA UsedIsPending ==
    ASSUME IInv
    PROVE  UsedSize(dataStart, dataEnd) = Len(pending)
<1>1. Len(pending) \in 0..BufLen - 1 /\ dataStart \in Cells /\ dataEnd \in Cells
  BY DEF IInv, TypeOK, Layout
<1>2. Len(pending) = 0 => dataEnd = 0
  BY DEF IInv, TypeOK, Started
<1>3. QED
  BY <1>1, <1>2, UsedIsLength DEF IInv, Layout

\* A unit of the ring is where % says it is.
LEMMA CellOfPending ==
    ASSUME IInv, NEW i \in 1..Len(pending)
    PROVE  buf[(dataStart + i - 1) % BufLen] = pending[i]
<1>1. dataStart + i - 1 \in 0..2 * BufLen - 1
  BY SMT DEF IInv, TypeOK, Layout, Cells
<1>2. QED
  BY <1>1, ModIsWrap DEF IInv, Layout

\* The invariant says that the ring is the queue of what was received.
THEOREM RingFromIInv == IInv => RingIsQueue
BY UsedIsPending, CellOfPending DEF RingIsQueue

-----------------------------------------------------------------------------
(* Parsing.                                                                *)

\* What the parser relies on without checking it.
LEMMA ParserBegins ==
    ASSUME IInv, Parsing
    PROVE  /\ Current = pending[1]
           /\ IsHeader(Current)
           /\ Current.n \in 1..BufferSize - 1
           /\ Len(pending) > BufferSize
           /\ IsHeader(pending[Current.n + 2])
<1>1. Len(pending) > BufferSize /\ Len(pending) \in Nat
  BY UsedIsPending DEF Parsing, IInv, TypeOK
<1>2. startFlag
  BY <1>1, SMT DEF IInv, Started
<1>3. Current = pending[1]
  <2>1. buf[(dataStart + 1 - 1) % BufLen] = pending[1]
    BY <1>1, CellOfPending
  <2>2. dataStart \in 0..2 * BufLen - 1 /\ Wrap(dataStart) = dataStart
    BY SMT DEF IInv, TypeOK, Cells, Wrap
  <2>3. (dataStart + 1 - 1) % BufLen = dataStart
    BY <2>2, ModIsWrap
  <2>4. QED
    BY <2>1, <2>3 DEF Current
<1>4. IsHeader(pending[1])
  BY <1>2 DEF IInv, Started
<1>5. Unparsed(1) = pending[1] /\ 1 \in 1..Ahead
  BY <1>1 DEF Unparsed, Ahead, IInv, TypeOK
<1>6. /\ pending[1].n \in 1..BufferSize - 1
      /\ 1 + pending[1].n < Ahead => IsHeader(Unparsed(1 + pending[1].n + 1))
  BY <1>4, <1>5 DEF IInv, Linked
<1>7. /\ 1 + pending[1].n < Ahead
      /\ Unparsed(1 + pending[1].n + 1) = pending[pending[1].n + 2]
  BY <1>1, <1>6, SMTT(60) DEF Unparsed, Ahead, IInv, TypeOK
<1>8. QED
  BY <1>1, <1>3, <1>4, <1>6, <1>7

\* The invariant says that the parser begins whole packets.
THEOREM InStepFromIInv == IInv => ParserInStep
<1> SUFFICES ASSUME IInv, Parsing
             PROVE  IsHeader(Current) /\ Len(pending) > Current.n
  BY DEF ParserInStep
<1>1. QED
  BY ParserBegins DEF IInv, TypeOK

\* The pops find the whole packet, and leave the start at the next one.
LEMMA PopSucceeds ==
    ASSUME IInv, Parsing
    PROVE  /\ AfterPop(AfterHead, Current.n) = Wrap(dataStart + 1 + Current.n)
           /\ (AfterHead + Current.n) % BufLen = Wrap(dataStart + 1 + Current.n)
<1>0. PICK n \in 1..BufferSize - 1 : n = Current.n
  BY ParserBegins
<1>1. /\ Len(pending) > BufferSize
      /\ Len(pending) <= BufferSize + MaxRecv
      /\ Len(pending) \in Nat
      /\ dataStart \in Cells /\ dataEnd \in Cells
      /\ dataEnd = Wrap(dataStart + Len(pending))
  <2>1. Len(pending) > BufferSize
    BY ParserBegins
  <2>2. QED
    BY <2>1 DEF IInv, TypeOK, Layout
<1>2. AfterHead = Wrap(dataStart + 1) /\ AfterHead \in Cells
  <2>1. dataStart + 1 \in 0..2 * BufLen - 1
    BY <1>1, SMT DEF Cells
  <2>2. QED
    BY <2>1, ModIsWrap DEF AfterHead
<1>3. UsedSize(AfterHead, dataEnd) = Len(pending) - 1
  <2>1. Len(pending) - 1 \in 1..BufLen - 1
    <3>1. PICK used \in Nat : used = Len(pending)
      BY <1>1
    <3>2. used > BufferSize /\ used <= BufferSize + MaxRecv
      BY <1>1, <3>1
    <3>3. used - 1 \in 1..BufLen - 1
      BY <3>2
    <3>4. QED
      BY <3>1, <3>3
  <2>2. dataEnd = Wrap(AfterHead + (Len(pending) - 1))
    BY <1>1, <1>2, SMT DEF Wrap, Cells
  <2>3. QED
    BY <2>1, <2>2, <1>1, <1>2, UsedIsLength, SMT
<1>4. CanPop(AfterHead, n)
  BY <1>1, <1>3, SMT DEF CanPop
<1>5. /\ AfterHead + n \in 0..2 * BufLen - 1
      /\ Wrap(AfterHead + n) = Wrap(dataStart + 1 + n)
  BY <1>1, <1>2, SMT DEF Wrap, Cells
<1>6. (AfterHead + n) % BufLen = Wrap(dataStart + 1 + n)
  BY <1>5, ModIsWrap
<1>7. AfterPop(AfterHead, n) = (AfterHead + n) % BufLen
  BY <1>4 DEF AfterPop
<1>8. QED
  BY <1>0, <1>6, <1>7

-----------------------------------------------------------------------------
(* Sequences.                                                              *)

\* What is left of a sequence without its first d elements.
LEMMA DropFacts ==
    ASSUME NEW S, NEW s \in Seq(S), NEW d \in 0..Len(s)
    PROVE  /\ SubSeq(s, d + 1, Len(s)) \in Seq(S)
           /\ Len(SubSeq(s, d + 1, Len(s))) = Len(s) - d
           /\ \A i \in 1..Len(s) - d : SubSeq(s, d + 1, Len(s))[i] = s[d + i]
OBVIOUS

\* The first n elements of a sequence.
LEMMA TakeFacts ==
    ASSUME NEW S, NEW s \in Seq(S), NEW n \in 0..Len(s)
    PROVE  /\ SubSeq(s, 1, n) \in Seq(S)
           /\ Len(SubSeq(s, 1, n)) = n
           /\ \A i \in 1..n : SubSeq(s, 1, n)[i] = s[i]
OBVIOUS

\* The elements of a concatenation.
LEMMA ConcatFacts ==
    ASSUME NEW S, NEW s \in Seq(S), NEW t \in Seq(S)
    PROVE  /\ s \o t \in Seq(S)
           /\ Len(s \o t) = Len(s) + Len(t)
           /\ \A i \in 1..Len(s) : (s \o t)[i] = s[i]
           /\ \A i \in Len(s) + 1..Len(s) + Len(t) : (s \o t)[i] = t[i - Len(s)]
OBVIOUS

-----------------------------------------------------------------------------
(* The stream stays linked.                                                *)

\* Whatever the thread does, the units ahead of it become a suffix of what they
\* were.
Moves(d) == /\ d \in 0..Ahead
            /\ Ahead' = Ahead - d
            /\ \A i \in 1..Ahead - d : Unparsed(i)' = Unparsed(d + i)

\* A stream whose first units are gone is still one of packets in a row.
LEMMA SuffixIsLinked ==
    ASSUME IInv, NEW d \in Nat, Moves(d)
    PROVE  Linked'
<1>0. /\ d \in 0..Ahead
      /\ Ahead' = Ahead - d
      /\ \A i \in 1..Ahead - d : Unparsed(i)' = Unparsed(d + i)
  BY DEF Moves
<1>1. Ahead \in Nat
  BY DEF IInv, TypeOK, Ahead
<1> SUFFICES ASSUME NEW i \in 1..Ahead', IsHeader(Unparsed(i))'
             PROVE  (/\ Unparsed(i).n \in 1..BufferSize - 1
                     /\ i + Unparsed(i).n <= Ahead
                     /\ i + Unparsed(i).n < Ahead
                        => IsHeader(Unparsed(i + Unparsed(i).n + 1)))'
  BY DEF Linked
<1>2. d + i \in 1..Ahead /\ IsHeader(Unparsed(d + i)) /\ Unparsed(i)' = Unparsed(d + i)
  BY <1>0, <1>1 DEF IsHeader
<1>3. PICK n \in 1..BufferSize - 1 :
          /\ n = Unparsed(d + i).n
          /\ d + i + n <= Ahead
          /\ d + i + n < Ahead => IsHeader(Unparsed(d + i + n + 1))
  BY <1>2 DEF IInv, Linked
<1>4. i + n < Ahead' => IsHeader(Unparsed(i + n + 1))'
  <2>1. SUFFICES ASSUME i + n < Ahead - d
                 PROVE  IsHeader(Unparsed(i + n + 1))'
    BY <1>0, <1>1
  <2>2. i + n + 1 \in 1..Ahead - d /\ d + (i + n + 1) = d + i + n + 1
    BY <1>0, <1>1, <2>1
  <2>3. Unparsed(i + n + 1)' = Unparsed(d + i + n + 1)
    BY <1>0, <2>2
  <2>4. QED
    BY <1>1, <1>3, <2>1, <2>3 DEF IsHeader
<1>5. i + n <= Ahead'
  BY <1>0, <1>1, <1>3
<1>6. n = Unparsed(i)'.n
  BY <1>2, <1>3
<1>7. QED
  BY <1>3, <1>4, <1>5, <1>6

\* A packet joins the end of the stream.
LEMMA PacketAhead ==
    ASSUME IInv, NEW p \in Packets, NEW f \in Nat,
           NEW payload \in Seq(Units), Len(payload) = p.size,
           Send(p, f, payload),
           UNCHANGED pending,
           NEW k \in Nat, k = Ahead
    PROVE  /\ wire' \in Seq(Units)
           /\ Ahead' = k + 1 + p.size
           /\ \A i \in 1..k : Unparsed(i)' = Unparsed(i)
           /\ Unparsed(k + 1)' = Header(p.kind, f, p.size)
           /\ \A i \in 1..p.size : Unparsed(k + 1 + i)' = payload[i]
<1>1. /\ p.kind \in Kinds /\ p.size \in 1..BufferSize - 1
      /\ Header(p.kind, f, p.size) \in Units
  BY ReceiveAssumption DEF Header, Units
<1> DEFINE h == Header(p.kind, f, p.size)
<1>3. h \in Units
  BY <1>1
<1> HIDE DEF h
<1>4. /\ wire' \in Seq(Units)
      /\ Len(wire') = Len(wire) + 1 + p.size
      /\ \A i \in 1..Len(wire) : wire'[i] = wire[i]
      /\ wire'[Len(wire) + 1] = h
      /\ \A i \in 1..p.size : wire'[Len(wire) + 1 + i] = payload[i]
  <2>1. wire' = (wire \o <<h>>) \o payload
    BY DEF Send, h
  <2>2. /\ wire \o <<h>> \in Seq(Units)
        /\ Len(wire \o <<h>>) = Len(wire) + 1
        /\ \A i \in 1..Len(wire) : (wire \o <<h>>)[i] = wire[i]
        /\ (wire \o <<h>>)[Len(wire) + 1] = h
    BY <1>3 DEF IInv, TypeOK
  <2> DEFINE w == wire \o <<h>>
  <2> HIDE DEF w
  <2>3. /\ w \in Seq(Units) /\ Len(w) = Len(wire) + 1
        /\ \A i \in 1..Len(wire) : w[i] = wire[i]
        /\ w[Len(wire) + 1] = h
        /\ wire' = w \o payload
    BY <2>1, <2>2 DEF w
  <2>4. Len(wire) \in Nat
    BY DEF IInv, TypeOK
  <2>5. /\ wire' \in Seq(Units)
        /\ Len(wire') = Len(w) + Len(payload)
        /\ \A i \in 1..Len(w) : wire'[i] = w[i]
        /\ \A i \in Len(w) + 1..Len(w) + Len(payload) : wire'[i] = payload[i - Len(w)]
    BY <2>3, ConcatFacts
  <2>6. ASSUME NEW i \in 1..p.size
        PROVE  wire'[Len(wire) + 1 + i] = payload[i]
    <3>1. /\ Len(wire) + 1 + i \in Len(w) + 1..Len(w) + Len(payload)
          /\ Len(wire) + 1 + i - Len(w) = i
      BY <1>1, <2>3, <2>4
    <3>2. QED
      BY <2>5, <3>1
  <2>7. QED
    BY <1>1, <2>3, <2>4, <2>5, <2>6, SMTT(60)
<1>5. k = Ahead
  OBVIOUS
<1>6. /\ Ahead' = k + 1 + p.size
      /\ \A i \in 1..k : Unparsed(i)' = Unparsed(i)
      /\ Unparsed(k + 1)' = h
      /\ \A i \in 1..p.size : Unparsed(k + 1 + i)' = payload[i]
  <2>1. Len(wire) \in Nat /\ Len(pending) \in Nat /\ Len(pending') = Len(pending)
    BY DEF IInv, TypeOK
  <2>2. ASSUME NEW i \in 1..k PROVE Unparsed(i)' = Unparsed(i)
    <3>1. CASE i <= Len(pending)
      BY <3>1 DEF Unparsed
    <3>2. CASE ~(i <= Len(pending))
      <4>1. i - Len(pending) \in 1..Len(wire)
        BY <1>5, <2>1, <3>2 DEF Ahead
      <4>2. QED
        BY <1>4, <2>1, <3>2, <4>1 DEF Unparsed
    <3>3. QED
      BY <3>1, <3>2
  <2>3. Unparsed(k + 1)' = h
    BY <1>4, <1>5, <2>1 DEF Unparsed, Ahead
  <2>4. ASSUME NEW i \in 1..p.size PROVE Unparsed(k + 1 + i)' = payload[i]
    <3>1. k + 1 + i - Len(pending) = Len(wire) + 1 + i /\ ~(k + 1 + i <= Len(pending))
      BY <1>5, <2>1 DEF Ahead
    <3>2. Unparsed(k + 1 + i)' = wire'[Len(wire) + 1 + i]
      BY <2>1, <3>1 DEF Unparsed
    <3>3. QED
      BY <1>4, <3>2
  <2>5. Ahead' = k + 1 + p.size
    <3>1. PICK m \in Nat, w \in Nat, l \in Nat :
              m = p.size /\ w = Len(wire) /\ l = Len(pending)
      BY <1>1, <2>1
    <3>2. k = l + w
      BY <1>5, <3>1 DEF Ahead
    <3>3. Ahead' = l + (w + 1 + m)
      BY <1>4, <2>1, <3>1 DEF Ahead
    <3>4. Ahead' = k + 1 + m
      BY <3>2, <3>3
    <3>5. QED
      BY <3>1, <3>4
  <2>6. QED
    BY <2>2, <2>3, <2>4, <2>5
<1>7. Unparsed(k + 1)' = Header(p.kind, f, p.size)
  BY <1>6 DEF h
<1>8. QED
  BY <1>4, <1>6, <1>7

\* A packet leaves the stream linked.
LEMMA PacketIsLinked ==
    ASSUME IInv, NEW p \in Packets, NEW f \in Nat,
           NEW payload \in Seq(Units), Len(payload) = p.size,
           \A i \in 1..Len(payload) : ~IsHeader(payload[i]),
           Send(p, f, payload),
           UNCHANGED pending
    PROVE  Linked' /\ wire' \in Seq(Units)
<1>1. p.kind \in Kinds /\ p.size \in 1..BufferSize - 1
  BY ReceiveAssumption
<1> DEFINE h == Header(p.kind, f, p.size)
<1>2. IsHeader(h) /\ h.n = p.size
  BY <1>1 DEF Header, IsHeader
<1>3. h = Header(p.kind, f, p.size)
  OBVIOUS
<1> HIDE DEF h
<1>4. PICK k \in Nat : k = Ahead
  BY DEF IInv, TypeOK, Ahead
<1>5. k = Ahead /\ wire' \in Seq(Units)
  BY <1>4, PacketAhead
<1>6. /\ Ahead' = k + 1 + p.size
      /\ \A i \in 1..k : Unparsed(i)' = Unparsed(i)
      /\ Unparsed(k + 1)' = h
      /\ \A i \in 1..p.size : Unparsed(k + 1 + i)' = payload[i]
  BY <1>3, <1>4, PacketAhead
<1>7. Linked'
  <2> SUFFICES ASSUME NEW i \in 1..Ahead', IsHeader(Unparsed(i))'
               PROVE  (/\ Unparsed(i).n \in 1..BufferSize - 1
                       /\ i + Unparsed(i).n <= Ahead
                       /\ i + Unparsed(i).n < Ahead
                          => IsHeader(Unparsed(i + Unparsed(i).n + 1)))'
    BY DEF Linked
  <2>1. CASE i \in 1..k
    <3>1. PICK n \in 1..BufferSize - 1 :
              /\ n = Unparsed(i).n
              /\ i + n <= k
              /\ i + n < k => IsHeader(Unparsed(i + n + 1))
      BY <1>5, <1>6, <2>1 DEF IInv, Linked, IsHeader
    <3>2. IsHeader(Unparsed(i + n + 1))'
      <4>1. CASE i + n < k
        <5>1. Unparsed(i + n + 1)' = Unparsed(i + n + 1)
          BY <1>5, <1>6, <2>1, <4>1
        <5>2. QED
          BY <3>1, <4>1, <5>1 DEF IsHeader
      <4>2. CASE i + n = k
        <5>1. Unparsed(k + 1)' = h /\ i + n + 1 = k + 1
          BY <1>6, <4>2
        <5>2. QED
          BY <1>2, <5>1 DEF IsHeader
      <4>3. i + n < k \/ i + n = k
        BY <2>1, <3>1
      <4>4. QED
        BY <4>1, <4>2, <4>3
    <3>3. i + n <= Ahead' /\ n = Unparsed(i)'.n
      <4>1. Unparsed(i)' = Unparsed(i)
        BY <1>6, <2>1
      <4>2. PICK m \in Nat : m = p.size
        BY <1>1
      <4>3. i + n <= k + 1 + m
        BY <3>1
      <4>4. QED
        BY <1>6, <3>1, <4>1, <4>2, <4>3
    <3>4. QED
      BY <3>2, <3>3
  <2>2. CASE i = k + 1
    <3>1. Unparsed(i)'.n = p.size
      BY <1>2, <1>5, <1>6, <2>2
    <3>2. i + p.size = Ahead'
      BY <1>1, <1>5, <1>6, <2>2
    <3>3. QED
      BY <1>1, <1>5, <1>6, <3>1, <3>2
  <2>3. CASE i > k + 1
    <3>1. i - k - 1 \in 1..p.size /\ k + 1 + (i - k - 1) = i
      BY <1>1, <1>5, <1>6, <2>3
    <3>2. Unparsed(i)' = payload[i - k - 1]
      BY <1>5, <1>6, <3>1
    <3>3. QED
      BY <3>1, <3>2 DEF IsHeader
  <2>4. QED
    BY <1>1, <1>5, <1>6, <2>1, <2>2, <2>3
<1>8. QED
  BY <1>5, <1>7

-----------------------------------------------------------------------------
(* The steps.                                                               *)

\* The part of the invariant that types what the ring's steps read.
LEMMA StreamTypes ==
    ASSUME IInv
    PROVE  /\ pending \in Seq(Units) /\ wire \in Seq(Units)
           /\ Len(pending) \in Nat /\ Len(wire) \in Nat
           /\ dataStart \in Cells /\ dataEnd \in Cells
           /\ buf \in [Cells -> Units]
BY DEF IInv, TypeOK

PayloadUnits == [kind : {"data", "last", "other"}, frame : Nat, n : Nat]

\* No unit of a payload is a header.
LEMMA PayloadIsNoHeader ==
    ASSUME NEW size \in Nat, NEW s \in [1..size -> PayloadUnits]
    PROVE  /\ s \in Seq(Units)
           /\ Len(s) = size
           /\ \A i \in 1..size : ~IsHeader(s[i])
<1>1. PayloadUnits \subseteq Units
  BY DEF PayloadUnits, Units
<1>2. s \in Seq(PayloadUnits) /\ Len(s) = size
  OBVIOUS
<1>3. \A u \in PayloadUnits : ~IsHeader(u)
  BY DEF PayloadUnits, IsHeader, Kinds, VideoKinds
<1>4. s \in [1..size -> Units]
  BY <1>1
<1>5. QED
  BY <1>2, <1>3, <1>4

\* The payloads the camera sends.
LEMMA VideoPayload ==
    ASSUME NEW f \in Nat, NEW sent \in Nat, NEW size \in Nat \ {0}, NEW final
    PROVE  /\ VideoUnits(f, sent, size, final) \in Seq(Units)
           /\ Len(VideoUnits(f, sent, size, final)) = size
           /\ \A i \in 1..size : ~IsHeader(VideoUnits(f, sent, size, final)[i])
<1>1. ASSUME NEW i \in 1..size
      PROVE  Payload(IF final /\ i = size THEN "last" ELSE "data", f, sent + i)
             \in PayloadUnits
  BY DEF Payload, PayloadUnits
<1>2. VideoUnits(f, sent, size, final) \in [1..size -> PayloadUnits]
  BY <1>1 DEF VideoUnits
<1>3. QED
  BY <1>2, PayloadIsNoHeader

\* No unit of a payload that is not video is taken for a header.
LEMMA OtherPayload ==
    ASSUME NEW size \in Nat \ {0}
    PROVE  /\ [i \in 1..size |-> Payload("other", 0, i)] \in Seq(Units)
           /\ Len([i \in 1..size |-> Payload("other", 0, i)]) = size
           /\ \A i \in 1..size : ~IsHeader([j \in 1..size |-> Payload("other", 0, j)][i])
<1>1. [i \in 1..size |-> Payload("other", 0, i)] \in [1..size -> PayloadUnits]
  BY DEF Payload, PayloadUnits
<1>2. QED
  BY <1>1, PayloadIsNoHeader

\* Only the camera, the reply to PLAY and Recv change the network.
LEMMA CameraStep ==
    ASSUME IInv, NEW p \in Packets, CameraSends(p)
    PROVE  IInv'
<1>1. /\ camera.packets \in Nat /\ camera.frame \in Nat /\ camera.sent \in Nat
      /\ camera.more \in BOOLEAN
      /\ camera = [packets |-> camera.packets, frame |-> camera.frame,
                   sent |-> camera.sent, more |-> camera.more]
  BY DEF IInv, TypeOK
<1>2. p.size \in Nat \ {0}
  BY ReceiveAssumption
<1>3. ASSUME NEW f \in Nat, NEW sent \in Nat, NEW final \in BOOLEAN
      PROVE  /\ VideoUnits(f, sent, p.size, final) \in Seq(Units)
             /\ Len(VideoUnits(f, sent, p.size, final)) = p.size
             /\ \A i \in 1..p.size : ~IsHeader(VideoUnits(f, sent, p.size, final)[i])
  BY <1>2, VideoPayload
<1>4. /\ [i \in 1..p.size |-> Payload("other", 0, i)] \in Seq(Units)
      /\ Len([i \in 1..p.size |-> Payload("other", 0, i)]) = p.size
      /\ \A i \in 1..p.size : ~IsHeader([j \in 1..p.size |-> Payload("other", 0, j)][i])
  BY <1>2, OtherPayload
<1>5. Linked' /\ wire' \in Seq(Units)
        /\ camera' \in [packets : Nat, frame : Nat, sent : Nat, more : BOOLEAN]
  <2>1. UNCHANGED pending
    BY DEF CameraSends
  <2>2. CASE /\ p.kind \in {"start", "single"}
             /\ LET f == camera.frame + 1 IN
                /\ Send(p, f, VideoUnits(f, 0, p.size, p.kind = "single"))
                /\ camera' = [packets |-> camera.packets + 1, frame |-> f,
                              sent |-> p.size, more |-> p.kind = "start"]
    <3>1. camera.frame + 1 \in Nat /\ camera.packets + 1 \in Nat
      BY <1>1
    <3>2. Linked' /\ wire' \in Seq(Units)
      BY <2>1, <2>2, <1>3, <3>1, PacketIsLinked
    <3>3. QED
      BY <1>2, <2>2, <3>1, <3>2
  <2>3. CASE /\ p.kind \in {"middle", "end"}
             /\ Send(p, camera.frame,
                     VideoUnits(camera.frame, camera.sent, p.size, p.kind = "end"))
             /\ camera' = [camera EXCEPT !.packets = @ + 1, !.sent = @ + p.size,
                                         !.more = p.kind = "middle"]
    <3>1. Linked' /\ wire' \in Seq(Units)
      BY <2>1, <2>3, <1>1, <1>3, PacketIsLinked
    <3>2. camera.packets + 1 \in Nat /\ camera.sent + p.size \in Nat
      BY <1>1, <1>2
    <3>3. camera' = [packets |-> camera.packets + 1, frame |-> camera.frame,
                     sent |-> camera.sent + p.size, more |-> p.kind = "middle"]
      BY <1>1, <2>3
    <3>4. QED
      BY <1>1, <3>1, <3>2, <3>3
  <2>4. CASE /\ Send(p, 0, [i \in 1..p.size |-> Payload("other", 0, i)])
             /\ camera' = [camera EXCEPT !.packets = @ + 1]
    <3>1. Linked' /\ wire' \in Seq(Units)
      BY <2>1, <2>4, <1>4, PacketIsLinked
    <3>2. camera.packets + 1 \in Nat
      BY <1>1
    <3>3. camera' = [packets |-> camera.packets + 1, frame |-> camera.frame,
                     sent |-> camera.sent, more |-> camera.more]
      BY <1>1, <2>4
    <3>4. QED
      BY <1>1, <3>1, <3>2, <3>3
  <2>5. QED
    BY <2>2, <2>3, <2>4 DEF CameraSends
<1>6. Layout' /\ Started'
  BY DEF CameraSends, IInv, Layout, Started, Wrap
<1>7. TypeOK'
  BY <1>5 DEF CameraSends, IInv, TypeOK
<1>8. QED
  BY <1>5, <1>6, <1>7 DEF IInv

\* Whatever the recv of the reply to PLAY takes, a linked stream is left.
LEMMA ReplyStep ==
    ASSUME IInv, NEW n \in 0..MaxWire, ReadReply(n)
    PROVE  IInv' /\ Moves(n)
<1>1. ~startFlag /\ pending = <<>> /\ pending' = <<>> /\ n \in 0..Len(wire)
  BY DEF IInv, Started, ReadReply
<1>2. wire' = SubSeq(wire, n + 1, Len(wire))
  BY DEF ReadReply
<1>3. /\ wire' \in Seq(Units)
      /\ Len(wire') = Len(wire) - n
      /\ \A i \in 1..Len(wire) - n : wire'[i] = wire[n + i]
  BY <1>1, <1>2, DropFacts, StreamTypes
<1>4. Ahead = Len(wire) /\ Ahead' = Ahead - n /\ n \in 0..Ahead
  BY <1>1, <1>3, StreamTypes DEF Ahead
<1>5. \A i \in 1..Ahead - n : Unparsed(i)' = Unparsed(n + i)
  <2>1. \A i \in 1..Ahead - n : i - 0 = i /\ n + i - 0 = n + i /\ ~(i <= 0) /\ ~(n + i <= 0)
    BY <1>4, StreamTypes
  <2>2. Len(pending) = 0 /\ Len(pending') = 0
    BY <1>1
  <2>3. QED
    BY <1>3, <1>4, <2>1, <2>2 DEF Unparsed
<1>6. Moves(n) /\ Linked'
  BY <1>4, <1>5, SuffixIsLinked DEF Moves
<1>7. Layout' /\ Started'
  BY <1>1 DEF ReadReply, IInv, Layout, Started, Wrap
<1>8. TypeOK'
  BY <1>3 DEF ReadReply, IInv, TypeOK
<1>9. QED
  BY <1>6, <1>7, <1>8 DEF IInv

\* The thread receives: at most what lies free in one piece after dataEnd.
LEMMA ReceivingRoom ==
    ASSUME IInv, Receiving, NEW n \in 1..FreeSizeEx
    PROVE  /\ Len(pending) <= BufferSize
           /\ n \in Nat /\ n > 0
           /\ dataEnd + n <= BufLen
           /\ dataStart > dataEnd => dataEnd + n <= dataStart
<1>1. Len(pending) <= BufferSize
  BY UsedIsPending DEF Receiving
<1>2. PICK start \in 0..BufLen - 1, end \in 0..BufLen - 1 : start = dataStart /\ end = dataEnd
  BY StreamTypes DEF Cells
<1>3. CASE end # 0 /\ end = start
  BY <1>2, <1>3 DEF FreeSizeEx
<1>4. CASE start > end
  <2>1. n \in 1..start - end
    BY <1>2, <1>4 DEF FreeSizeEx
  <2>2. QED
    BY <1>1, <1>2, <1>4, <2>1
<1>5. CASE ~(start > end) /\ ~(end # 0 /\ end = start)
  <2>1. n \in 1..BufLen - end
    BY <1>2, <1>5 DEF FreeSizeEx
  <2>2. QED
    BY <1>1, <1>2, <1>5, <2>1
<1>6. QED
  BY <1>3, <1>4, <1>5

\* A receive moves units from the network to the end of the ring, or drops them.
LEMMA RecvStep ==
    ASSUME IInv, NEW n \in 1..MaxRecv, Recv(n)
    PROVE  IInv' /\ \E d \in Nat : Moves(d) /\ (startFlag => d = 0)
<1>1. /\ n \in 0..Len(wire) /\ n \in 1..Len(wire) /\ n \in 1..FreeSizeEx
      /\ Receiving /\ replied /\ replied' = replied
      /\ dataStart' = dataStart
      /\ wire' = SubSeq(wire, n + 1, Len(wire))
      /\ buf' = [i \in Cells |-> IF i \in dataEnd..dataEnd + n - 1
                                 THEN wire[i - dataEnd + 1] ELSE buf[i]]
      /\ startFlag' = (startFlag \/ wire[1].kind \in Kinds \ {"reply"})
  BY StreamTypes DEF Recv, Receiving
<1>2. /\ wire' \in Seq(Units)
      /\ Len(wire') = Len(wire) - n
      /\ \A i \in 1..Len(wire) - n : wire'[i] = wire[n + i]
  BY <1>1, DropFacts, StreamTypes
<1>3. PICK l \in Nat, w \in Nat, start \in Cells, end \in Cells :
         /\ l = Len(pending) /\ w = Len(wire)
         /\ start = dataStart /\ end = dataEnd
         /\ end = Wrap(start + l)
  BY StreamTypes DEF IInv, Layout
<1>4. /\ l <= BufferSize
      /\ end + n <= BufLen
      /\ start > end => end + n <= start
  BY <1>1, <1>3, ReceivingRoom
<1>5. ASSUME NEW i \in Cells
      PROVE  /\ buf'[i] \in Units
             /\ i \notin end..end + n - 1 => buf'[i] = buf[i]
             /\ i \in end..end + n - 1 => buf'[i] = wire[i - end + 1]
  <2>1. i \in end..end + n - 1 => i - end + 1 \in 1..Len(wire)
    BY <1>1, <1>3, StreamTypes DEF Cells
  <2>2. i \in end..end + n - 1 => wire[i - end + 1] \in Units
    BY <2>1, StreamTypes
  <2>3. QED
    BY <1>1, <1>3, <2>2, StreamTypes
<1>6. buf' \in [Cells -> Units]
  BY <1>1, <1>5
<1>7. CASE startFlag'
  <2>1. /\ dataEnd' = (end + n) % BufLen
        /\ pending' = pending \o SubSeq(wire, 1, n)
    BY <1>3, <1>7 DEF Recv
  <2>2. /\ SubSeq(wire, 1, n) \in Seq(Units)
        /\ Len(SubSeq(wire, 1, n)) = n
        /\ \A i \in 1..n : SubSeq(wire, 1, n)[i] = wire[i]
    BY <1>1, TakeFacts, StreamTypes
  <2>3. PICK t \in Seq(Units) : /\ pending' = pending \o t
                               /\ Len(t) = n
                               /\ \A i \in 1..n : t[i] = wire[i]
    BY <2>1, <2>2
  <2>4. /\ pending' \in Seq(Units)
        /\ Len(pending') = l + n
        /\ \A i \in 1..l : pending'[i] = pending[i]
        /\ \A i \in l + 1..l + n : pending'[i] = wire[i - l]
    <3>1. /\ pending' \in Seq(Units)
          /\ Len(pending') = Len(pending) + Len(t)
          /\ \A i \in 1..Len(pending) : pending'[i] = pending[i]
          /\ \A i \in Len(pending) + 1..Len(pending) + Len(t) :
                pending'[i] = t[i - Len(pending)]
      BY <2>3, ConcatFacts, StreamTypes
    <3>2. ASSUME NEW i \in l + 1..l + n
          PROVE  pending'[i] = wire[i - l]
      <4>1. i - l \in 1..n
        OBVIOUS
      <4>2. QED
        BY <1>3, <2>3, <3>1, <4>1
    <3>3. QED
      BY <1>3, <2>3, <3>1, <3>2
  <2>5. /\ dataEnd' = Wrap(start + (l + n)) /\ dataEnd' \in Cells
        /\ l + n <= BufferSize + MaxRecv
    <3>1. end + n \in 0..2 * BufLen - 1 /\ Wrap(end + n) = Wrap(start + (l + n))
      BY <1>3, <1>4, SMTT(60) DEF Wrap, Cells
    <3>2. QED
      BY <1>4, <2>1, <3>1, ModIsWrap
  <2>6. ASSUME NEW i \in 1..l + n
        PROVE  buf'[Wrap(start + i - 1)] = pending'[i]
    <3>1. CASE i <= l
      <4>1. Wrap(start + i - 1) \in Cells /\ Wrap(start + i - 1) \notin end..end + n - 1
        BY <1>3, <1>4, <3>1, SMTT(60) DEF Wrap, Cells
      <4>2. buf[Wrap(start + i - 1)] = pending[i]
        BY <1>3, <3>1 DEF IInv, Layout
      <4>3. QED
        BY <1>5, <2>4, <3>1, <4>1, <4>2
    <3>2. CASE i > l
      <4>1. /\ Wrap(start + i - 1) \in Cells /\ Wrap(start + i - 1) \in end..end + n - 1
            /\ Wrap(start + i - 1) - end + 1 = i - l
        BY <1>3, <1>4, <3>2, SMTT(60) DEF Wrap, Cells
      <4>2. buf'[Wrap(start + i - 1)] = wire[i - l]
        BY <1>5, <4>1
      <4>3. i \in l + 1..l + n
        BY <3>2
      <4>4. QED
        BY <2>4, <4>2, <4>3
    <3>3. QED
      BY <1>3, <3>1, <3>2
  <2>7. Layout'
    BY <1>1, <1>3, <2>4, <2>5, <2>6 DEF Layout
  <2>8. Started'
    <3>1. pending' # <<>>
      BY <1>3, <2>4
    <3>2. IsHeader(pending'[1])
      <4>1. CASE startFlag
        <5>1. l > 0 /\ IsHeader(pending[1])
          BY <1>3, <4>1, StreamTypes DEF IInv, Started
        <5>2. QED
          BY <2>4, <5>1
      <4>2. CASE ~startFlag
        <5>1. l = 0
          BY <1>3, <4>2 DEF IInv, Started
        <5>2. pending'[1] = wire[1]
          BY <2>4, <5>1
        <5>3. QED
          BY <1>1, <1>7, <4>2, <5>2 DEF IsHeader
      <4>3. QED
        BY <4>1, <4>2
    <3>3. QED
      BY <1>1, <1>7, <3>1, <3>2 DEF Started, IsHeader
  <2>9. Linked' /\ Moves(0)
    <3>1. Ahead = l + w /\ Ahead' = l + w
      BY <1>2, <1>3, <2>4 DEF Ahead
    <3>2. ASSUME NEW i \in 1..l + w
          PROVE  Unparsed(i)' = Unparsed(i)
      <4>1. CASE i <= l
        BY <1>3, <2>4, <4>1 DEF Unparsed
      <4>2. CASE i > l /\ i <= l + n
        BY <1>3, <2>4, <4>2 DEF Unparsed
      <4>3. CASE i > l + n
        <5>1. i - (l + n) \in 1..w - n /\ n + (i - (l + n)) = i - l
          BY <1>3, <4>3
        <5>2. wire'[i - (l + n)] = wire[i - l]
          BY <1>2, <1>3, <5>1
        <5>3. QED
          BY <1>3, <2>4, <4>3, <5>2 DEF Unparsed
      <4>4. QED
        BY <1>3, <4>1, <4>2, <4>3
    <3>3. 0 \in 0..Ahead /\ Ahead' = Ahead - 0
      BY <3>1
    <3>4. \A i \in 1..Ahead - 0 : Unparsed(i)' = Unparsed(0 + i)
      BY <3>1, <3>2
    <3>5. Moves(0)
      BY <3>3, <3>4 DEF Moves
    <3>6. QED
      BY <3>5, SuffixIsLinked
  <2>10. TypeOK'
    BY <1>1, <1>2, <1>6, <2>4, <2>5, StreamTypes DEF IInv, TypeOK, Recv
  <2>11. QED
    BY <2>7, <2>8, <2>9, <2>10 DEF IInv
<1>8. CASE ~startFlag'
  <2>1. dataEnd' = dataEnd /\ pending' = pending /\ ~startFlag
    BY <1>1, <1>8 DEF Recv
  <2>2. pending = <<>>
    BY <2>1 DEF IInv, Started
  <2>3. Len(pending) = 0 /\ Len(pending') = 0
    BY <2>1, <2>2
  <2>4. Ahead = w /\ Ahead' = w - n /\ n \in 0..Ahead
    BY <1>1, <1>2, <1>3, <2>3 DEF Ahead
  <2>5. \A i \in 1..Ahead - n : Unparsed(i)' = Unparsed(n + i)
    <3>1. \A i \in 1..Ahead - n : i - 0 = i /\ n + i - 0 = n + i /\ ~(i <= 0) /\ ~(n + i <= 0)
      BY <1>3, <2>4
    <3>2. QED
      BY <1>2, <1>3, <2>3, <2>4, <3>1 DEF Unparsed
  <2>6. Linked' /\ Moves(n) /\ n \in Nat
    <3>1. Moves(n) /\ n \in Nat
      BY <2>4, <2>5 DEF Moves
    <3>2. QED
      BY <3>1, SuffixIsLinked
  <2>7. Layout' /\ Started'
    BY <1>1, <1>8, <2>1, <2>2, <2>3 DEF IInv, Layout, Started
  <2>8. TypeOK'
    BY <1>1, <1>2, <1>6, <2>1, StreamTypes DEF IInv, TypeOK, Recv
  <2>9. QED
    BY <2>1, <2>6, <2>7, <2>8 DEF IInv
<1>9. QED
  BY <1>7, <1>8

\* Every kind of packet leaves the ring the same way: the parser moves to the next
\* packet, and as more than BufferSize units were there, the ring is not empty.
LEMMA ParseStep ==
    ASSUME IInv, Parsing,
           NEW n \in 1..BufferSize - 1, n = Current.n,
           pending' = SubSeq(pending, n + 1 + 1, Len(pending)),
           dataStart' = Wrap(dataStart + (n + 1)),
           UNCHANGED <<wire, replied, buf, dataEnd, startFlag>>
    PROVE  /\ Linked' /\ Layout' /\ Started'
           /\ pending' \in Seq(Units) /\ dataStart' \in Cells
           /\ Moves(n + 1)
<1>1. IsHeader(pending[n + 2])
  BY ParserBegins
<1>2. PICK l \in Nat, w \in Nat, start \in Cells, end \in Cells :
         /\ l = Len(pending) /\ w = Len(wire)
         /\ start = dataStart /\ end = dataEnd
         /\ end = Wrap(start + l)
  BY StreamTypes DEF IInv, Layout
<1>3. l > BufferSize /\ l <= BufferSize + MaxRecv
  BY <1>2, ParserBegins DEF IInv, Layout
<1>4. PICK d \in 0..l : d = n + 1
  BY <1>3
<1>5. /\ pending' \in Seq(Units)
      /\ Len(pending') = l - d
      /\ \A i \in 1..l - d : pending'[i] = pending[d + i]
  <2>1. pending' = SubSeq(pending, d + 1, Len(pending))
    BY <1>4
  <2>2. d \in 0..Len(pending)
    BY <1>2
  <2>3. QED
    BY <1>2, <2>1, <2>2, DropFacts, StreamTypes
<1>6. dataStart' = Wrap(start + d) /\ dataStart' \in Cells
  <2>1. dataStart' = Wrap(start + d)
    BY <1>2, <1>4
  <2>2. Wrap(start + d) \in Cells
    BY <1>3 DEF Wrap, Cells
  <2>3. QED
    BY <2>1, <2>2
<1>7. Layout'
  <2>1. end = Wrap(dataStart' + (l - d))
    <3>1. Wrap(Wrap(start + d) + (l - d)) = Wrap(start + l)
      BY <1>3 DEF Wrap, Cells
    <3>2. QED
      BY <1>2, <1>6, <3>1
  <2>2. ASSUME NEW i \in 1..l - d
        PROVE  buf[Wrap(dataStart' + i - 1)] = pending'[i]
    <3>1. d + i \in 1..l
      <4>1. d \in Nat /\ i \in Nat /\ d + i >= 1 /\ d + i <= l
        OBVIOUS
      <4>2. QED
        BY <4>1
    <3>2. Wrap(dataStart' + i - 1) = Wrap(start + (d + i) - 1)
      <4>1. Wrap(Wrap(start + d) + i - 1) = Wrap(start + (d + i) - 1)
        BY <1>3 DEF Wrap, Cells
      <4>2. QED
        BY <1>6, <4>1
    <3>3. buf[Wrap(start + (d + i) - 1)] = pending[d + i]
      BY <1>2, <3>1 DEF IInv, Layout
    <3>4. QED
      BY <1>5, <3>2, <3>3
  <2>3. l - d <= BufferSize + MaxRecv
    BY <1>3
  <2>4. QED
    BY <1>2, <1>5, <2>1, <2>2, <2>3 DEF Layout
<1>8. Started'
  <2>1. startFlag
    BY <1>2, <1>3 DEF IInv, Started
  <2>2. l - d >= 1
    BY <1>1, <1>3, <1>4
  <2>3. pending'[1] = pending[d + 1]
    BY <1>5, <2>2, SMTT(60)
  <2>4. IsHeader(pending[d + 1])
    BY <1>1, <1>4
  <2>5. pending' # <<>>
    <3>1. Len(pending') # 0
      BY <1>5, <2>2
    <3>2. QED
      BY <3>1
  <2>6. QED
    BY <2>1, <2>3, <2>4, <2>5 DEF IInv, Started, IsHeader
<1>9. Linked' /\ Moves(d)
  <2>1. d \in 0..Ahead /\ Ahead = l + w /\ Ahead' = (l - d) + w
    <3>1. Ahead = l + w
      BY <1>2 DEF Ahead
    <3>2. Len(wire') = w
      BY <1>2
    <3>3. Ahead' = (l - d) + w
      BY <1>5, <3>2 DEF Ahead
    <3>4. QED
      BY <3>1, <3>3
  <2>2. Ahead' = Ahead - d
    BY <2>1
  <2>3. ASSUME NEW i \in 1..Ahead - d
        PROVE  Unparsed(i)' = Unparsed(d + i)
    <3>1. CASE i <= l - d
      <4>1. i \in 1..l - d /\ d + i <= l
        BY <2>1, <3>1
      <4>2. Unparsed(i)' = pending'[i]
        <5>1. i <= Len(pending')
          BY <1>5, <4>1, SMTT(60)
        <5>2. QED
          BY <5>1 DEF Unparsed
      <4>3. Unparsed(d + i) = pending[d + i]
        BY <1>2, <4>1 DEF Unparsed
      <4>4. QED
        BY <1>5, <4>1, <4>2, <4>3
    <3>2. CASE i > l - d
      <4>1. i - (l - d) = (d + i) - l /\ ~(d + i <= l) /\ ~(i <= l - d)
        BY <2>1, <3>2
      <4>2. QED
        BY <1>2, <1>5, <4>1 DEF Unparsed
    <3>3. QED
      BY <2>1, <3>1, <3>2
  <2>4. Moves(d) /\ d \in Nat
    BY <2>1, <2>2, <2>3 DEF Moves
  <2>5. QED
    BY <2>4, SuffixIsLinked
<1>10. QED
  BY <1>4, <1>5, <1>6, <1>7, <1>8, <1>9

\* What the parser pops and puts in packetBuf are units.
LEMMA PoppedUnits ==
    ASSUME IInv, NEW start \in Cells, NEW n \in Nat
    PROVE  Popped(start, n) \in Seq(Units)
<1>1. Garbage \in Units
  BY DEF Garbage, Payload, Units
<1>2. ASSUME NEW i \in 1..n
      PROVE  buf[(start + i - 1) % BufLen] \in Units
  <2>1. start + i - 1 \in Int
    BY DEF Cells
  <2>2. (start + i - 1) % BufLen \in Cells
    BY <2>1 DEF Cells
  <2>3. QED
    BY <2>2, StreamTypes
<1>3. Popped(start, n) \in [1..n -> Units]
  BY <1>1, <1>2 DEF Popped
<1>4. QED
  BY <1>3

\* What the parser reads at a packet is made of units.
LEMMA ParseTypes ==
    ASSUME IInv, Parsing
    PROVE  /\ AfterHead \in Cells
           /\ Current \in Units
           /\ Popped(AfterHead, Current.n) \in Seq(Units)
<1>1. dataStart + 1 \in 0..2 * BufLen - 1
  BY StreamTypes DEF Cells
<1>2. AfterHead \in Cells
  BY <1>1, ModIsWrap DEF AfterHead
<1>3. Current \in Units
  BY StreamTypes DEF Current
<1>4. Current.n \in Nat
  BY ParserBegins
<1>5. QED
  BY <1>2, <1>3, <1>4, PoppedUnits

\* All kinds of packet keep the stream, whether they are popped or skipped.
LEMMA ParseKeepsStream ==
    ASSUME IInv, NEW kind, Parse(kind),
           \/ dataStart' = AfterPop(AfterHead, Current.n)
           \/ dataStart' = (AfterHead + Current.n) % BufLen
    PROVE  /\ Linked' /\ Layout' /\ Started'
           /\ pending' \in Seq(Units) /\ dataStart' \in Cells
           /\ Moves(Current.n + 1)
<1>1. Parsing /\ UNCHANGED <<wire, replied, buf, dataEnd, startFlag>>
  BY DEF Parse
<1>2. PICK n \in 1..BufferSize - 1 : n = Current.n
  BY <1>1, ParserBegins
<1>3. dataStart' = Wrap(dataStart + (n + 1))
  <2>1. dataStart' = Wrap(dataStart + 1 + n)
    BY <1>1, <1>2, PopSucceeds
  <2>2. dataStart + 1 + n = dataStart + (n + 1)
    BY StreamTypes DEF Cells
  <2>3. QED
    BY <2>1, <2>2
<1>4. pending' = SubSeq(pending, n + 1 + 1, Len(pending))
  <2>1. pending' = SubSeq(pending, n + 2, Len(pending))
    BY <1>2 DEF Parse
  <2>2. n + 2 = n + 1 + 1
    OBVIOUS
  <2>3. QED
    BY <2>1, <2>2
<1>5. QED
  BY <1>1, <1>2, <1>3, <1>4, ParseStep

\* The packets the parser knows.
LEMMA ParsePackets ==
    ASSUME IInv,
           \/ ParseStart \/ ParseMiddle \/ ParseEnd \/ ParseSingle
           \/ ParseAudio \/ ParseSkip
    PROVE  IInv'
<1>1. /\ Parsing
      /\ UNCHANGED <<camera, wire, replied, buf, dataEnd, startFlag>>
  BY DEF ParseStart, ParseMiddle, ParseEnd, ParseSingle, ParseAudio, ParseSkip, Parse
<1>2. /\ Linked' /\ Layout' /\ Started'
      /\ pending' \in Seq(Units) /\ dataStart' \in Cells
  <2>1. CASE ParseStart
    BY <2>1, ParseKeepsStream DEF ParseStart
  <2>2. CASE ParseMiddle
    BY <2>2, ParseKeepsStream DEF ParseMiddle
  <2>3. CASE ParseEnd
    BY <2>3, ParseKeepsStream DEF ParseEnd
  <2>4. CASE ParseSingle
    BY <2>4, ParseKeepsStream DEF ParseSingle
  <2>5. CASE ParseAudio
    BY <2>5, ParseKeepsStream DEF ParseAudio
  <2>6. CASE ParseSkip
    BY <2>6, ParseKeepsStream DEF ParseSkip
  <2>7. QED
    BY <2>1, <2>2, <2>3, <2>4, <2>5, <2>6
<1>3. packetBuf' \in Seq(Units) /\ video' \in Seq(Units) /\ synced' \in BOOLEAN
  <2>1. PICK units \in Seq(Units) : units = Popped(AfterHead, Current.n)
    BY <1>1, ParseTypes
  <2>2. <<Current>> \o units \in Seq(Units)
    BY <1>1, ParseTypes
  <2>3. packetBuf \in Seq(Units) /\ video \in Seq(Units) /\ synced \in BOOLEAN
    BY DEF IInv, TypeOK
  <2>4. packetBuf \o units \in Seq(Units)
    BY <2>3
  <2>5. QED
    BY <2>1, <2>2, <2>3, <2>4
       DEF ParseStart, ParseMiddle, ParseEnd, ParseSingle, ParseAudio, ParseSkip
<1>4. TypeOK'
  BY <1>1, <1>2, <1>3 DEF IInv, TypeOK
<1>5. QED
  BY <1>2, <1>4 DEF IInv

\* A new session begins with nothing ahead.
LEMMA ReconnectStep ==
    ASSUME IInv, Reconnect
    PROVE  IInv'
<1>1. wire' = <<>> /\ pending' = <<>> /\ Len(<<>>) = 0
  BY DEF Reconnect
<1>2. Ahead' = 0
  BY <1>1 DEF Ahead
<1>3. Linked'
  BY <1>2 DEF Linked
<1>4. Layout' /\ Started'
  BY <1>1 DEF Reconnect, Layout, Started, Wrap
<1>5. camera' \in [packets : Nat, frame : Nat, sent : Nat, more : BOOLEAN]
  BY DEF Reconnect, IInv, TypeOK
<1>6. <<>> \in Seq(Units) /\ 0 \in Cells
  BY DEF Cells
<1>7. TypeOK'
  BY <1>5, <1>6 DEF Reconnect, IInv, TypeOK
<1>8. QED
  BY <1>3, <1>4, <1>7 DEF IInv

\* Every step keeps the invariant.
LEMMA NextIInv == IInv /\ [Next]_vars => IInv'
<1> SUFFICES ASSUME IInv, [Next]_vars PROVE IInv'
  OBVIOUS
<1>1. ASSUME NEW p \in Packets, CameraSends(p) PROVE IInv'
  BY <1>1, CameraStep
<1>2. ASSUME NEW n \in 0..MaxWire, ReadReply(n) PROVE IInv'
  BY <1>2, ReplyStep
<1>3. ASSUME NEW n \in 1..MaxRecv, Recv(n) PROVE IInv'
  BY <1>3, RecvStep
<1>4. CASE ParseStart \/ ParseMiddle \/ ParseEnd \/ ParseSingle \/ ParseAudio \/ ParseSkip
  BY <1>4, ParsePackets
<1>5. CASE ParseFails \/ HangUp
  BY <1>5, ReconnectStep DEF ParseFails, HangUp
<1>6. CASE UNCHANGED vars
  <2>1. TypeOK' /\ Layout' /\ Started'
    BY <1>6 DEF vars, IInv, TypeOK, Layout, Started
  <2>2. Ahead' = Ahead /\ \A i : Unparsed(i)' = Unparsed(i)
    BY <1>6 DEF vars, Ahead, Unparsed
  <2>3. Linked'
    BY <2>2 DEF IInv, Linked, IsHeader
  <2>4. QED
    BY <2>1, <2>3 DEF IInv
<1>7. QED
  BY <1>1, <1>2, <1>3, <1>4, <1>5, <1>6 DEF Next

-----------------------------------------------------------------------------
(* Whole frames.  Ahead of the parser lies what the camera sent, so the     *)
(* invariant names the state the camera was in before each unit of it: a    *)
(* packet takes one such state to another, and what is in packetBuf is what *)
(* the camera had sent of its frame before the first unit.                  *)

CameraStates == [frame : Nat, sent : Nat, more : BOOLEAN]

CameraState == [frame |-> camera.frame, sent |-> camera.sent, more |-> camera.more]

\* A packet with header u takes the camera from s to t.
Follows(u, s, t) ==
    /\ u.kind \in {"start", "single"} =>
           /\ u.frame \in 1..MaxPackets
           /\ t = [frame |-> u.frame, sent |-> u.n, more |-> u.kind = "start"]
    /\ u.kind \in {"middle", "end"} =>
           /\ s.more
           /\ t = [frame |-> s.frame, sent |-> s.sent + u.n, more |-> u.kind = "middle"]
    /\ u.kind \notin VideoKinds => t = s

\* The payload of a video packet with header u that the camera sends in state s.
Expected(u, s) == IF u.kind \in {"start", "single"}
                  THEN VideoUnits(u.frame, 0, u.n, u.kind = "single")
                  ELSE VideoUnits(s.frame, s.sent, u.n, u.kind = "end")

Carried(i, st) ==
    /\ Follows(Unparsed(i), st[i], st[i + Unparsed(i).n + 1])
    /\ Unparsed(i).kind \in VideoKinds =>
           \A j \in 1..Unparsed(i).n : Unparsed(i + j) = Expected(Unparsed(i), st[i])[j]

Stream(st) ==
    /\ st \in [Nat -> CameraStates]
    /\ st[Ahead + 1] = CameraState
    /\ \A i \in 1..Ahead : IsHeader(Unparsed(i)) => Carried(i, st)

\* All units of the camera's frame up to state s.
Assembled(b, s) == /\ s.frame \in 1..MaxPackets
                   /\ b # <<>>
                   /\ Body(b) = VideoUnits(s.frame, 0, s.sent, ~s.more)

\* packetBuf is in step with the camera, and nothing shown is of the frame that is
\* being put together.
InStep(b, v, s) == Assembled(b, s) /\ (s.more => Before(v, s.frame))

Numbered == camera.frame <= camera.packets /\ camera.packets <= MaxPackets

Threaded == /\ Numbered
            /\ synced => startFlag
            /\ \E st \in [Nat -> CameraStates] :
                  Stream(st) /\ (synced => InStep(packetBuf, video, st[1]))

\* Nothing is ahead of a session that begins.
LEMMA EmptyIsThreaded == IInv /\ Ahead = 0 /\ Numbered /\ ~synced => Threaded
<1> SUFFICES ASSUME IInv, Ahead = 0, Numbered, ~synced PROVE Threaded
  OBVIOUS
<1>1. CameraState \in CameraStates
  BY DEF IInv, TypeOK, CameraState, CameraStates
<1> DEFINE st == [i \in Nat |-> CameraState]
<1>2. st \in [Nat -> CameraStates] /\ st[0 + 1] = CameraState
  BY <1>1
<1>3. Stream(st)
  BY <1>2 DEF Stream
<1>4. QED
  BY <1>2, <1>3 DEF Threaded

\* What the thread leaves ahead of it carries what it did.
LEMMA SuffixIsCarried ==
    ASSUME IInv, IInv', NEW d \in Nat, Moves(d), UNCHANGED camera,
           NEW st \in [Nat -> CameraStates], Stream(st),
           NEW su, su = [i \in Nat |-> st[d + i]]
    PROVE  Stream(su)' /\ su \in [Nat -> CameraStates]
<1>1. PICK a \in Nat, b \in Nat : a = Ahead /\ b = Ahead'
  <2>1. Ahead \in Nat
    BY DEF IInv, TypeOK, Ahead
  <2>2. Ahead' \in Nat
    BY DEF IInv, TypeOK, Ahead
  <2>3. QED
    BY <2>1, <2>2
<1>2. /\ d + b = a
      /\ \A i \in 1..b : Unparsed(i)' = Unparsed(d + i)
  BY <1>1 DEF Moves
<1>3. su \in [Nat -> CameraStates]
  OBVIOUS
<1>4. su[b + 1] = CameraState'
  <2>1. su[b + 1] = st[a + 1]
    BY <1>2
  <2>2. QED
    BY <1>1, <2>1 DEF Stream, CameraState
<1>5. ASSUME NEW i \in 1..b, IsHeader(Unparsed(i))'
      PROVE  Carried(i, su)'
  <2>1. PICK u : u = Unparsed(i)'
    OBVIOUS
  <2>2. PICK n \in 1..BufferSize - 1 : n = u.n /\ i + n <= b
    BY <1>1, <1>5, <2>1 DEF IInv, Linked
  <2>3. d + i \in 1..a /\ Unparsed(d + i) = u /\ IsHeader(Unparsed(d + i))
    <3>1. d + i \in 1..a
      BY <1>2
    <3>2. Unparsed(d + i) = u
      BY <1>2, <2>1
    <3>3. u.kind \in Kinds
      BY <1>5, <2>1 DEF IsHeader
    <3>4. QED
      BY <3>1, <3>2, <3>3 DEF IsHeader
  <2>4. Carried(d + i, st)
    BY <1>1, <2>3 DEF Stream
  <2>5. Follows(u, st[d + i], st[d + i + n + 1])
    BY <2>2, <2>3, <2>4 DEF Carried
  <2>6. su[i] = st[d + i] /\ su[i + n + 1] = st[d + i + n + 1]
    <3>1. d + (i + n + 1) = d + i + n + 1
      OBVIOUS
    <3>2. QED
      BY <3>1
  <2>7. ASSUME u.kind \in VideoKinds, NEW j \in 1..n
        PROVE  Unparsed(i + j)' = Expected(u, su[i])[j]
    <3>1. Unparsed(d + i + j) = Expected(u, st[d + i])[j]
      BY <2>2, <2>3, <2>4, <2>7 DEF Carried
    <3>2. i + j \in 1..b /\ d + (i + j) = d + i + j
      BY <2>2
    <3>3. Unparsed(i + j)' = Unparsed(d + i + j)
      BY <1>2, <3>2
    <3>4. QED
      BY <2>6, <3>1, <3>3
  <2>8. Follows(u, su[i], su[i + n + 1])
    BY <2>5, <2>6
  <2>9. QED
    BY <2>1, <2>2, <2>7, <2>8 DEF Carried
<1>6. QED
  BY <1>1, <1>3, <1>4, <1>5 DEF Stream

\* A packet the camera sends carries what its state says.
LEMMA PacketIsCarried ==
    ASSUME IInv, NEW p \in Packets, NEW f \in Nat,
           NEW payload \in Seq(Units), Len(payload) = p.size,
           \A i \in 1..Len(payload) : ~IsHeader(payload[i]),
           Send(p, f, payload),
           UNCHANGED pending,
           NEW k \in Nat, k = Ahead,
           NEW st \in [Nat -> CameraStates], Stream(st),
           NEW c \in CameraStates, c = CameraState',
           Follows(Header(p.kind, f, p.size), CameraState, c),
           p.kind \in VideoKinds =>
               payload = Expected(Header(p.kind, f, p.size), CameraState),
           NEW su, su = [i \in Nat |-> IF i = k + p.size + 2 THEN c ELSE st[i]]
    PROVE  Stream(su)' /\ su \in [Nat -> CameraStates] /\ su[1] = st[1]
<1>1. PICK m \in Nat \ {0} : m = p.size
  BY ReceiveAssumption
<1> DEFINE h == Header(p.kind, f, p.size)
<1>2. h.n = m /\ h.kind = p.kind
  BY <1>1 DEF Header
<1>3. h = Header(p.kind, f, p.size)
  OBVIOUS
<1> HIDE DEF h
<1>4. /\ Ahead' = k + 1 + m
      /\ \A i \in 1..k : Unparsed(i)' = Unparsed(i)
      /\ Unparsed(k + 1)' = h
      /\ \A i \in 1..m : Unparsed(k + 1 + i)' = payload[i]
  BY <1>1, <1>3, PacketAhead
<1>5. su \in [Nat -> CameraStates]
  BY <1>1
<1>6. /\ su[k + m + 2] = c
      /\ \A i \in 1..k + 1 : su[i] = st[i]
      /\ st[k + 1] = CameraState
  BY <1>1 DEF Stream
<1>7. ASSUME NEW i \in 1..k, IsHeader(Unparsed(i))'
      PROVE  Carried(i, su)'
  <2>1. PICK u : u = Unparsed(i) /\ u = Unparsed(i)' /\ IsHeader(Unparsed(i))
    BY <1>4, <1>7 DEF IsHeader
  <2>2. PICK n \in 1..BufferSize - 1 : n = u.n /\ i + n <= k
    BY <2>1 DEF IInv, Linked
  <2>3. /\ Follows(u, st[i], st[i + n + 1])
        /\ u.kind \in VideoKinds =>
              \A j \in 1..n : Unparsed(i + j) = Expected(u, st[i])[j]
    BY <2>1, <2>2 DEF Stream, Carried
  <2>4. su[i] = st[i] /\ su[i + n + 1] = st[i + n + 1]
    <3>1. i + n + 1 \in 1..k + 1 /\ i \in 1..k + 1
      BY <2>2
    <3>2. QED
      BY <1>6, <3>1
  <2>5. \A j \in 1..n : i + j \in 1..k /\ Unparsed(i + j)' = Unparsed(i + j)
    <3>1. ASSUME NEW j \in 1..n PROVE i + j \in 1..k
      BY <2>2
    <3>2. QED
      BY <1>4, <3>1
  <2>6. u.kind \in VideoKinds =>
            \A j \in 1..n : Unparsed(i + j)' = Expected(u, su[i])[j]
    BY <2>3, <2>4, <2>5
  <2>7. Follows(u, su[i], su[i + n + 1])
    BY <2>3, <2>4
  <2>8. QED
    BY <2>1, <2>2, <2>6, <2>7 DEF Carried
<1>9. ASSUME NEW i \in Nat, i = k + 1
      PROVE  Carried(i, su)'
  <2>1. Unparsed(i)' = h /\ i + m + 1 = k + m + 2 /\ su[i] = CameraState
    BY <1>4, <1>6, <1>9
  <2>2. Follows(h, su[i], su[i + m + 1])
    BY <1>3, <1>6, <2>1
  <2>3. ASSUME h.kind \in VideoKinds, NEW j \in 1..m
        PROVE  Unparsed(i + j)' = Expected(h, su[i])[j]
    <3>1. Unparsed(i + j)' = payload[j]
      BY <1>4, <1>9
    <3>2. payload = Expected(h, su[i])
      BY <1>2, <1>3, <2>1, <2>3
    <3>3. QED
      BY <3>1, <3>2
  <2>4. QED
    BY <1>2, <2>1, <2>2, <2>3 DEF Carried
<1>10. ASSUME NEW i \in k + 2..k + 1 + m
       PROVE  ~IsHeader(Unparsed(i))'
  <2>1. PICK j \in 1..m : i = k + 1 + j
    <3>1. i - k - 1 \in 1..m /\ i = k + 1 + (i - k - 1)
      OBVIOUS
    <3>2. QED
      BY <3>1
  <2>2. Unparsed(i)' = payload[j] /\ ~IsHeader(payload[j])
    BY <1>1, <1>4, <2>1
  <2>3. QED
    BY <2>2 DEF IsHeader
<1>11. ASSUME NEW i \in 1..k + 1 + m, IsHeader(Unparsed(i))'
       PROVE  Carried(i, su)'
  <2>1. i \in 1..k \/ i = k + 1 \/ i \in k + 2..k + 1 + m
    OBVIOUS
  <2>2. QED
    BY <1>7, <1>9, <1>10, <1>11, <2>1
<1>12. su[k + 1 + m + 1] = CameraState'
  <2>1. k + 1 + m + 1 = k + m + 2
    OBVIOUS
  <2>2. QED
    BY <1>6, <2>1
<1>13. su[1] = st[1]
  BY <1>6
<1>14. QED
  BY <1>4, <1>5, <1>11, <1>12, <1>13 DEF Stream

\* Every packet the camera sends is what its state says.
LEMMA CameraThreads ==
    ASSUME IInv, Numbered, NEW p \in Packets, CameraSends(p),
           NEW st \in [Nat -> CameraStates], Stream(st)
    PROVE  /\ Numbered'
           /\ \E su \in [Nat -> CameraStates] : Stream(su)' /\ su[1] = st[1]
<1>1. PICK packets \in Nat, frame \in Nat, sent \in Nat, more \in BOOLEAN :
          camera = [packets |-> packets, frame |-> frame, sent |-> sent, more |-> more]
  BY DEF IInv, TypeOK
<1>2. frame <= packets /\ packets < MaxPackets /\ MaxPackets \in Nat /\ packets <= MaxPackets
  BY <1>1, ReceiveAssumption DEF Numbered, CameraSends
<1>3. PICK m \in Nat \ {0} : m = p.size
  BY ReceiveAssumption
<1>0. ASSUME NEW f \in Nat, NEW t \in Nat, NEW final
      PROVE  /\ VideoUnits(f, t, m, final) \in Seq(Units)
             /\ Len(VideoUnits(f, t, m, final)) = m
             /\ \A i \in 1..m : ~IsHeader(VideoUnits(f, t, m, final)[i])
  BY VideoPayload
<1>4. PICK k \in Nat : k = Ahead
  BY DEF IInv, TypeOK, Ahead
<1>5. UNCHANGED pending
  BY DEF CameraSends
<1>6. p.kind \in Kinds
  BY ReceiveAssumption
<1>7. CameraState = [frame |-> frame, sent |-> sent, more |-> more]
  BY <1>1 DEF CameraState
<1>8. ASSUME NEW f \in Nat, NEW payload \in Seq(Units), Len(payload) = p.size,
             \A i \in 1..Len(payload) : ~IsHeader(payload[i]),
             Send(p, f, payload),
             NEW c \in CameraStates, c = CameraState',
             Follows(Header(p.kind, f, p.size), CameraState, c),
             p.kind \in VideoKinds =>
                 payload = Expected(Header(p.kind, f, p.size), CameraState)
      PROVE  \E su \in [Nat -> CameraStates] : Stream(su)' /\ su[1] = st[1]
  <2>0. PICK su : su = [i \in Nat |-> IF i = k + p.size + 2 THEN c ELSE st[i]]
    OBVIOUS
  <2>1. Stream(su)' /\ su \in [Nat -> CameraStates] /\ su[1] = st[1]
    BY <1>4, <1>5, <1>8, <2>0, PacketIsCarried, SMTT(60)
  <2>2. QED
    BY <2>1
<1>9. CASE /\ p.kind \in {"start", "single"}
           /\ LET f == camera.frame + 1 IN
              /\ Send(p, f, VideoUnits(f, 0, p.size, p.kind = "single"))
              /\ camera' = [packets |-> camera.packets + 1, frame |-> f,
                            sent |-> p.size, more |-> p.kind = "start"]
  <2>0. PICK final \in BOOLEAN : final = (p.kind = "single")
    OBVIOUS
  <2> DEFINE f == frame + 1
             c == [frame |-> f, sent |-> m, more |-> p.kind = "start"]
             payload == VideoUnits(f, 0, m, final)
  <2>1. f \in Nat /\ f \in 1..MaxPackets
    BY <1>2
  <2>2. /\ Send(p, f, payload)
        /\ camera' = [packets |-> packets + 1, frame |-> f,
                      sent |-> m, more |-> p.kind = "start"]
    BY <1>1, <1>3, <1>9, <2>0
  <2>3. c \in CameraStates /\ c = CameraState'
    BY <1>3, <2>1, <2>2 DEF CameraStates, CameraState
  <2>4. /\ payload \in Seq(Units) /\ Len(payload) = m
        /\ \A i \in 1..m : ~IsHeader(payload[i])
    BY <1>0, <2>0, <2>1
  <2>5. Follows(Header(p.kind, f, p.size), CameraState, c)
    BY <1>3, <1>9, <2>1 DEF Follows, Header, VideoKinds
  <2>6. payload = Expected(Header(p.kind, f, p.size), CameraState)
    BY <1>3, <1>9, <2>0 DEF Expected, Header
  <2>7. Numbered'
    BY <1>2, <2>2 DEF Numbered
  <2> HIDE DEF f, c, payload
  <2>8. QED
    BY <1>3, <1>8, <2>1, <2>2, <2>3, <2>4, <2>5, <2>6, <2>7
<1>10. CASE /\ p.kind \in {"middle", "end"}
            /\ camera.more
            /\ Send(p, camera.frame,
                    VideoUnits(camera.frame, camera.sent, p.size, p.kind = "end"))
            /\ camera' = [camera EXCEPT !.packets = @ + 1, !.sent = @ + p.size,
                                        !.more = p.kind = "middle"]
  <2>0. PICK final \in BOOLEAN : final = (p.kind = "end")
    OBVIOUS
  <2> DEFINE c == [frame |-> frame, sent |-> sent + m, more |-> p.kind = "middle"]
             payload == VideoUnits(frame, sent, m, final)
  <2>1. more /\ Send(p, frame, payload)
    BY <1>1, <1>3, <1>10, <2>0
  <2>2. camera' = [packets |-> packets + 1, frame |-> frame,
                   sent |-> sent + m, more |-> p.kind = "middle"]
    BY <1>1, <1>3, <1>10
  <2>3. c \in CameraStates /\ c = CameraState'
    BY <1>3, <2>2, SMTT(60) DEF CameraStates, CameraState
  <2>4. /\ payload \in Seq(Units) /\ Len(payload) = m
        /\ \A i \in 1..m : ~IsHeader(payload[i])
    BY <1>0, <2>0
  <2>5. Follows(Header(p.kind, frame, p.size), CameraState, c)
    BY <1>3, <1>7, <1>10, <2>1 DEF Follows, Header, VideoKinds
  <2>6. payload = Expected(Header(p.kind, frame, p.size), CameraState)
    BY <1>3, <1>7, <1>10, <2>0 DEF Expected, Header
  <2>7. Numbered'
    BY <1>2, <2>2 DEF Numbered
  <2> HIDE DEF c, payload
  <2>8. QED
    BY <1>3, <1>8, <2>1, <2>3, <2>4, <2>5, <2>6, <2>7
<1>11. CASE /\ p.kind \notin VideoKinds
            /\ Send(p, 0, [i \in 1..p.size |-> Payload("other", 0, i)])
            /\ camera' = [camera EXCEPT !.packets = @ + 1]
  <2> DEFINE c == [frame |-> frame, sent |-> sent, more |-> more]
             payload == [i \in 1..m |-> Payload("other", 0, i)]
  <2>1. Send(p, 0, payload)
    BY <1>3, <1>11
  <2>2. camera' = [packets |-> packets + 1, frame |-> frame, sent |-> sent, more |-> more]
    BY <1>1, <1>11
  <2>3. c \in CameraStates /\ c = CameraState'
    BY <2>2 DEF CameraStates, CameraState
  <2>4. /\ payload \in Seq(Units) /\ Len(payload) = m
        /\ \A i \in 1..m : ~IsHeader(payload[i])
    BY <1>3, OtherPayload
  <2>5. Follows(Header(p.kind, 0, p.size), CameraState, c)
    BY <1>7, <1>11 DEF Follows, Header, VideoKinds
  <2>6. Numbered'
    BY <1>2, <2>2 DEF Numbered
  <2> HIDE DEF c, payload
  <2>7. QED
    BY <1>3, <1>8, <1>11, <2>1, <2>3, <2>4, <2>5, <2>6
<1>12. QED
  BY <1>9, <1>10, <1>11 DEF CameraSends

\* The parser pops what follows the header.
LEMMA PoppedIsAhead ==
    ASSUME IInv, Parsing, NEW n \in Nat, n = Current.n
    PROVE  /\ Popped(AfterHead, n) = [j \in 1..n |-> Unparsed(1 + j)]
           /\ Current = Unparsed(1) /\ IsHeader(Unparsed(1)) /\ 1 \in 1..Ahead
<1>1. /\ Current = pending[1] /\ IsHeader(Current)
      /\ n \in 1..BufferSize - 1
      /\ Len(pending) > BufferSize
  BY ParserBegins
<1>2. PICK l \in Nat, start \in 0..BufLen - 1 :
          l = Len(pending) /\ start = dataStart /\ l <= BufferSize + MaxRecv
  BY StreamTypes DEF IInv, Layout, Cells
<1>3. l > BufferSize /\ l < BufLen
  BY <1>1, <1>2
<1>4. Unparsed(1) = pending[1] /\ 1 \in 1..Ahead
  BY <1>2, <1>3, StreamTypes DEF Unparsed, Ahead
<1>5. AfterHead = Wrap(start + 1) /\ AfterHead \in Cells
  <2>1. start + 1 \in 0..2 * BufLen - 1
    OBVIOUS
  <2>2. QED
    BY <1>2, <2>1, ModIsWrap DEF AfterHead
<1>6. CanPop(AfterHead, n)
  <2>1. UsedSize(AfterHead, dataEnd) = l - 1
    <3>1. l - 1 \in 0..BufLen - 1 /\ l - 1 > 0
      BY <1>1, <1>3
    <3>2. dataEnd \in Cells /\ dataEnd = Wrap(start + l)
      BY <1>2, StreamTypes DEF IInv, Layout
    <3>3. dataEnd = Wrap(AfterHead + (l - 1))
      BY <1>3, <1>5, <3>2 DEF Wrap, Cells
    <3>4. QED
      BY <1>5, <3>1, <3>2, <3>3, UsedIsLength
  <2>2. QED
    BY <1>1, <1>3, <2>1 DEF CanPop
<1>7. ASSUME NEW j \in 1..n
      PROVE  buf[(AfterHead + j - 1) % BufLen] = Unparsed(1 + j)
  <2>1. j \in Nat /\ 1 + j \in 1..l /\ 1 + j <= l
    BY <1>1, <1>3
  <2>2. /\ AfterHead + j - 1 \in 0..2 * BufLen - 1
        /\ Wrap(AfterHead + j - 1) = Wrap(start + (1 + j) - 1)
    BY <1>3, <1>5, <2>1 DEF Wrap, Cells
  <2>3. (AfterHead + j - 1) % BufLen = Wrap(start + (1 + j) - 1)
    BY <2>2, ModIsWrap
  <2>4. buf[Wrap(start + (1 + j) - 1)] = pending[1 + j]
    BY <1>2, <2>1 DEF IInv, Layout
  <2>5. Unparsed(1 + j) = pending[1 + j]
    BY <1>2, <2>1 DEF Unparsed
  <2>6. QED
    BY <2>3, <2>4, <2>5
<1>8. QED
  BY <1>1, <1>4, <1>6, <1>7 DEF Popped

\* A function on 1..size is a sequence.
LEMMA FunctionIsSeq ==
    ASSUME NEW S, NEW size \in Nat, NEW s \in [1..size -> S]
    PROVE  s \in Seq(S) /\ Len(s) = size
OBVIOUS

\* What the camera has sent of a frame that has more to come.
SentOf(f, m) == VideoUnits(f, 0, m, FALSE)

\* The frame from its beginning to the end of a run that follows its unit m.
Through(f, m, n, final) == VideoUnits(f, 0, m + n, final)

\* A run of a frame's units is a sequence of its length.
LEMMA UnitsAreSeq ==
    ASSUME NEW f \in Nat, NEW from \in Nat, NEW n \in Nat, NEW final
    PROVE  /\ VideoUnits(f, from, n, final)
                 \in Seq([kind : {"data", "last"}, frame : Nat, n : Nat])
           /\ Len(VideoUnits(f, from, n, final)) = n
<1>1. VideoUnits(f, from, n, final)
          \in [1..n -> [kind : {"data", "last"}, frame : Nat, n : Nat]]
  BY DEF VideoUnits, Payload
<1>2. QED
  BY <1>1, FunctionIsSeq

\* Two consecutive runs of a frame's units are one.
LEMMA UnitsJoin ==
    ASSUME NEW f \in Nat, NEW m \in Nat, NEW n \in Nat \ {0}, NEW final
    PROVE  SentOf(f, m) \o VideoUnits(f, m, n, final) = Through(f, m, n, final)
<1> DEFINE s == SentOf(f, m)
           t == VideoUnits(f, m, n, final)
           u == Through(f, m, n, final)
           S == [kind : {"data", "last"}, frame : Nat, n : Nat]
<1>1. /\ s \in Seq(S) /\ Len(s) = m
      /\ t \in Seq(S) /\ Len(t) = n
      /\ u \in Seq(S) /\ Len(u) = m + n
  <2>1. s \in [1..m -> S] /\ t \in [1..n -> S] /\ u \in [1..m + n -> S]
    BY DEF SentOf, Through, VideoUnits, Payload
  <2>2. s \in Seq(S) /\ Len(s) = m
    BY <2>1, FunctionIsSeq
  <2>3. t \in Seq(S) /\ Len(t) = n
    BY <2>1, FunctionIsSeq
  <2>4. m + n \in Nat
    OBVIOUS
  <2>5. u \in Seq(S) /\ Len(u) = m + n
    BY <2>1, <2>4, FunctionIsSeq
  <2>6. QED
    BY <2>2, <2>3, <2>5
<1>2. \A i \in 1..m : s[i] = Payload("data", f, i) /\ u[i] = Payload("data", f, i)
  BY DEF VideoUnits, SentOf, Through
<1>3. ASSUME NEW i \in m + 1..m + n
      PROVE  t[i - m] = u[i]
  <2>1. i - m \in 1..n /\ i \in 1..m + n /\ m + (i - m) = 0 + i /\ (i - m = n <=> i = m + n)
    OBVIOUS
  <2>2. t[i - m] = Payload(IF final /\ i - m = n THEN "last" ELSE "data", f, m + (i - m))
    BY <2>1 DEF VideoUnits
  <2>3. u[i] = Payload(IF final /\ i = m + n THEN "last" ELSE "data", f, 0 + i)
    BY <2>1 DEF VideoUnits, Through
  <2>4. QED
    BY <2>1, <2>2, <2>3
<1> HIDE DEF s, t, u, S
<1>4. /\ s \o t \in Seq(S) /\ Len(s \o t) = m + n
      /\ \A i \in 1..m : (s \o t)[i] = s[i]
      /\ \A i \in m + 1..m + n : (s \o t)[i] = t[i - m]
  BY <1>1, ConcatFacts
<1>5. ASSUME NEW i \in 1..m + n
      PROVE  (s \o t)[i] = u[i]
  <2>1. i \in 1..m \/ i \in m + 1..m + n
    OBVIOUS
  <2>2. QED
    BY <1>2, <1>3, <1>4, <2>1
<1>6. s \o t = u
  BY <1>1, <1>4, <1>5, SeqEqual
<1>7. QED
  BY <1>1, <1>6 DEF s, t, u

\* A fragment that is appended extends the body.
LEMMA BodyJoin ==
    ASSUME NEW b \in Seq(Units), b # <<>>, NEW t \in Seq(Units)
    PROVE  Body(b \o t) = Body(b) \o t /\ b \o t # <<>>
<1>1. b \o t # <<>> /\ (b \o t)[1] = b[1]
  OBVIOUS
<1>2. Tail(b \o t) = Tail(b) \o t
  OBVIOUS
<1>3. QED
  BY <1>1, <1>2 DEF Body

\* A packet is what the camera's state says, with the numbers the parser sees.
LEMMA ParsedIsExpected ==
    ASSUME IInv, NEW kind, Parse(kind),
           NEW st \in [Nat -> CameraStates], Stream(st),
           NEW n, n = Current.n
    PROVE  /\ n \in Nat \ {0} /\ Current.kind = kind
           /\ Follows(Current, st[1], st[n + 2])
           /\ kind \in VideoKinds => Popped(AfterHead, n) = Expected(Current, st[1])
           /\ Popped(AfterHead, n) \in Seq(Units)
           /\ Current \in Units
<1>1. Parsing /\ Current.kind = kind
  BY DEF Parse
<1>2. n \in Nat \ {0} /\ Current \in Units /\ Popped(AfterHead, n) \in Seq(Units)
  BY <1>1, ParserBegins, ParseTypes
<1>3. /\ Popped(AfterHead, n) = [j \in 1..n |-> Unparsed(1 + j)]
      /\ Current = Unparsed(1) /\ IsHeader(Unparsed(1)) /\ 1 \in 1..Ahead
  BY <1>1, <1>2, PoppedIsAhead
<1>4. Carried(1, st)
  BY <1>3 DEF Stream
<1>5. Follows(Current, st[1], st[n + 2])
  <2>1. 1 + n + 1 = n + 2
    BY <1>2
  <2>2. QED
    BY <1>3, <1>4, <2>1 DEF Carried
<1>6. ASSUME kind \in VideoKinds
      PROVE  Popped(AfterHead, n) = Expected(Current, st[1])
  <2>1. \A j \in 1..n : Unparsed(1 + j) = Expected(Current, st[1])[j]
    BY <1>1, <1>3, <1>4, <1>6 DEF Carried
  <2>2. Expected(Current, st[1]) = [j \in 1..n |-> Expected(Current, st[1])[j]]
    BY DEF Expected, VideoUnits
  <2>3. QED
    BY <1>3, <2>1, <2>2
<1>7. QED
  BY <1>1, <1>2, <1>5, <1>6

\* What a video packet is, kind by kind.
LEMMA VideoCases ==
    ASSUME NEW u, NEW s, NEW t, Follows(u, s, t)
    PROVE  /\ u.kind = "start" =>
                  /\ u.frame \in 1..MaxPackets
                  /\ t = [frame |-> u.frame, sent |-> u.n, more |-> TRUE]
                  /\ Expected(u, s) = VideoUnits(u.frame, 0, u.n, FALSE)
           /\ u.kind = "single" =>
                  /\ u.frame \in 1..MaxPackets
                  /\ t = [frame |-> u.frame, sent |-> u.n, more |-> FALSE]
                  /\ Expected(u, s) = VideoUnits(u.frame, 0, u.n, TRUE)
           /\ u.kind = "middle" =>
                  /\ s.more
                  /\ t = [frame |-> s.frame, sent |-> s.sent + u.n, more |-> TRUE]
                  /\ Expected(u, s) = VideoUnits(s.frame, s.sent, u.n, FALSE)
           /\ u.kind = "end" =>
                  /\ s.more
                  /\ t = [frame |-> s.frame, sent |-> s.sent + u.n, more |-> FALSE]
                  /\ Expected(u, s) = VideoUnits(s.frame, s.sent, u.n, TRUE)
<1>1. CASE u.kind = "start"
  BY <1>1 DEF Follows, Expected, VideoUnits
<1>2. CASE u.kind = "single"
  BY <1>2 DEF Follows, Expected, VideoUnits
<1>3. CASE u.kind = "middle"
  BY <1>3 DEF Follows, Expected, VideoUnits
<1>4. CASE u.kind = "end"
  BY <1>4 DEF Follows, Expected, VideoUnits
<1>5. QED
  BY <1>1, <1>2, <1>3, <1>4

\* The parser is left with the rest of the stream.
LEMMA ParseThreads ==
    ASSUME IInv, IInv', NEW kind, Parse(kind), Numbered,
           \/ dataStart' = AfterPop(AfterHead, Current.n)
           \/ dataStart' = (AfterHead + Current.n) % BufLen,
           NEW st \in [Nat -> CameraStates], Stream(st),
           NEW n, n = Current.n,
           synced' => InStep(packetBuf', video', st[n + 2])
    PROVE  Threaded'
<1>1. n \in Nat
  BY ParsedIsExpected
<1>2. Moves(n + 1) /\ UNCHANGED camera
  BY ParseKeepsStream DEF Parse
<1>3. PICK su : su = [i \in Nat |-> st[n + 1 + i]]
  OBVIOUS
<1>4. n + 1 \in Nat
  BY <1>1
<1>5. Stream(su)' /\ su \in [Nat -> CameraStates]
  BY <1>2, <1>3, <1>4, SuffixIsCarried
<1>6. su[1] = st[n + 2]
  <2>1. n + 1 + 1 = n + 2
    BY <1>1
  <2>2. QED
    BY <1>3, <2>1
<1>7. Numbered'
  BY <1>2 DEF Numbered
<1>8. startFlag'
  <2>1. Parsing /\ startFlag' = startFlag
    BY DEF Parse
  <2>2. Len(pending) > BufferSize
    BY <2>1, ParserBegins
  <2>3. QED
    BY <2>1, <2>2 DEF IInv, Started
<1>9. QED
  BY <1>5, <1>6, <1>7, <1>8 DEF Threaded

\* The first unit of a body is no frame start, so nothing is cut off.
LEMMA UnitsAreBody ==
    ASSUME NEW f \in Nat, NEW n \in Nat \ {0}, NEW final
    PROVE  /\ Body(VideoUnits(f, 0, n, final)) = VideoUnits(f, 0, n, final)
           /\ VideoUnits(f, 0, n, final) # <<>>
<1>1. VideoUnits(f, 0, n, final)[1].kind \in {"data", "last"}
  BY DEF VideoUnits, Payload
<1>2. Len(VideoUnits(f, 0, n, final)) = n
  BY UnitsAreSeq
<1>3. VideoUnits(f, 0, n, final) # <<>>
  <2>1. Len(<<>>) # n
    OBVIOUS
  <2>2. QED
    BY <1>2, <2>1
<1>4. QED
  BY <1>1, <1>3 DEF Body

\* A frame that is assembled up to a state without more to come is whole.
LEMMA AssembledIsWhole ==
    ASSUME NEW b, NEW f \in 1..MaxPackets, NEW n \in Nat \ {0},
           Body(b) = VideoUnits(f, 0, n, TRUE)
    PROVE  Whole(b, f)
<1>1. f \in Nat
  BY ReceiveAssumption
<1>2. Body(b) \in [1..n -> Units]
  BY <1>1 DEF VideoUnits, Payload, Units
<1>3. Len(Body(b)) = n
  BY <1>2, FunctionIsSeq
<1>4. QED
  BY <1>3 DEF Whole

\* packetBuf is in step with the camera when it holds what the camera sent of its
\* frame, with the last unit marked or not.
LEMMA AssembledTo ==
    ASSUME NEW b, b # <<>>, NEW f \in 1..MaxPackets, NEW n \in Nat \ {0}, NEW t
    PROVE  /\ /\ t = [frame |-> f, sent |-> n, more |-> TRUE]
              /\ Body(b) = VideoUnits(f, 0, n, FALSE)
              => Assembled(b, t)
           /\ /\ t = [frame |-> f, sent |-> n, more |-> FALSE]
              /\ Body(b) = VideoUnits(f, 0, n, TRUE)
              => Assembled(b, t)
<1>1. CASE /\ t = [frame |-> f, sent |-> n, more |-> TRUE]
           /\ Body(b) = VideoUnits(f, 0, n, FALSE)
  <2>1. t.frame = f /\ t.sent = n /\ t.more = TRUE
    BY <1>1
  <2>2. VideoUnits(t.frame, 0, t.sent, ~t.more) = VideoUnits(f, 0, n, FALSE)
    BY <2>1 DEF VideoUnits
  <2>3. QED
    BY <1>1, <2>1, <2>2 DEF Assembled
<1>2. CASE /\ t = [frame |-> f, sent |-> n, more |-> FALSE]
           /\ Body(b) = VideoUnits(f, 0, n, TRUE)
  <2>1. t.frame = f /\ t.sent = n /\ t.more = FALSE
    BY <1>2
  <2>2. VideoUnits(t.frame, 0, t.sent, ~t.more) = VideoUnits(f, 0, n, TRUE)
    BY <2>1 DEF VideoUnits
  <2>3. QED
    BY <1>2, <2>1, <2>2 DEF Assembled
<1>3. QED
  BY <1>1, <1>2

\* A fragment that continues the frame makes packetBuf hold more of it.
LEMMA FragmentJoins ==
    ASSUME IInv, NEW s \in CameraStates, s.more, Assembled(packetBuf, s),
           NEW n \in Nat \ {0}, NEW final,
           NEW units \in Seq(Units), units = VideoUnits(s.frame, s.sent, n, final)
    PROVE  /\ packetBuf \o units # <<>>
           /\ s.frame \in 1..MaxPackets /\ s.sent + n \in Nat \ {0}
           /\ Body(packetBuf \o units) = VideoUnits(s.frame, 0, s.sent + n, final)
<1>1. PICK f \in Nat, m \in Nat : f = s.frame /\ m = s.sent
  BY DEF CameraStates
<1>2. f \in 1..MaxPackets
  BY <1>1 DEF Assembled
<1>3. packetBuf \in Seq(Units) /\ packetBuf # <<>>
  BY DEF IInv, TypeOK, Assembled
<1>4. Body(packetBuf) = SentOf(f, m)
  <2>1. Body(packetBuf) = VideoUnits(s.frame, 0, s.sent, ~s.more)
    BY DEF Assembled
  <2>2. VideoUnits(s.frame, 0, s.sent, ~s.more) = SentOf(f, m)
    BY <1>1 DEF VideoUnits, SentOf
  <2>3. QED
    BY <2>1, <2>2
<1>5. /\ Body(packetBuf \o units) = Body(packetBuf) \o units
      /\ packetBuf \o units # <<>>
  BY <1>3, BodyJoin
<1>6. SentOf(f, m) \o VideoUnits(f, m, n, final) = Through(f, m, n, final)
  BY UnitsJoin, ZenonT(60)
<1>7. units = VideoUnits(f, m, n, final)
  BY <1>1
<1>8. Body(packetBuf \o units) = Through(f, m, n, final)
  BY <1>4, <1>5, <1>6, <1>7
<1>9. QED
  BY <1>1, <1>2, <1>5, <1>8 DEF Through

-----------------------------------------------------------------------------
(* Frames in order.  Whatever begins a frame ahead of the parser is later   *)
(* than all units before it, and than all that packetBuf and the last frame *)
(* shown consist of; the next frame of the camera will be, too.             *)

Begins(u) == u.kind \in {"start", "single"}

\* The frames that are still to begin.
Coming == {g \in Nat : \/ g = camera.frame + 1
                       \/ \E k \in 1..Ahead : Begins(Unparsed(k)) /\ g = Unparsed(k).frame}

Ordered ==
    /\ \A i \in 1..Ahead : Unparsed(i).frame \in 0..camera.frame
    /\ \A k \in 1..Ahead : Begins(Unparsed(k)) =>
           \A i \in 1..k - 1 : Unparsed(i).frame < Unparsed(k).frame
    /\ \A g \in Coming : Before(packetBuf, g) /\ Before(video, g)

\* What holds of two sequences holds of one after the other.
LEMMA BeforeJoin ==
    ASSUME NEW s \in Seq(Units), NEW t \in Seq(Units), NEW f \in Nat,
           Before(s, f), Before(t, f)
    PROVE  Before(s \o t, f)
<1> SUFFICES ASSUME NEW i \in 1..Len(s) + Len(t)
             PROVE  (s \o t)[i].frame < f
  BY ConcatFacts DEF Before
<1>1. CASE i <= Len(s)
  BY <1>1, ConcatFacts DEF Before
<1>2. CASE i > Len(s)
  <2>1. i \in Len(s) + 1..Len(s) + Len(t) /\ i - Len(s) \in 1..Len(t)
    BY <1>2
  <2> QED
    BY <2>1, ConcatFacts DEF Before
<1> QED
  BY <1>1, <1>2

\* Units that leave the stream leave the rest in order, if what they are put into
\* is not too late.
LEMMA SuffixIsOrdered ==
    ASSUME IInv, IInv', Ordered, NEW d \in Nat, Moves(d),
           camera'.frame = camera.frame,
           \A g \in Nat :
               \/ g = camera.frame + 1
               \/ \E k \in d + 1..Ahead : Begins(Unparsed(k)) /\ g = Unparsed(k).frame
               => Before(packetBuf', g) /\ Before(video', g)
    PROVE  Ordered'
<1>1. PICK a \in Nat, b \in Nat : a = Ahead /\ b = Ahead'
  <2>1. Ahead \in Nat
    BY DEF IInv, TypeOK, Ahead
  <2>2. Ahead' \in Nat
    BY DEF IInv, TypeOK, Ahead
  <2> QED
    BY <2>1, <2>2
<1>2. /\ d + b = a
      /\ \A i \in 1..b : Unparsed(i)' = Unparsed(d + i) /\ d + i \in d + 1..a /\ d + i \in 1..a
  BY <1>1 DEF Moves
<1>3. ASSUME NEW i \in 1..b
      PROVE  Unparsed(i)'.frame \in 0..camera'.frame
  BY <1>1, <1>2 DEF Ordered
<1>4. ASSUME NEW k \in 1..b, Begins(Unparsed(k)'), NEW i \in 1..k - 1
      PROVE  Unparsed(i)'.frame < Unparsed(k)'.frame
  <2>1. i \in 1..b /\ d + i \in 1..(d + k) - 1
    OBVIOUS
  <2>2. Unparsed(d + i).frame < Unparsed(d + k).frame
    BY <1>1, <1>2, <1>4, <2>1 DEF Ordered
  <2> QED
    BY <1>2, <2>1, <2>2
<1>5. ASSUME NEW g \in Coming'
      PROVE  Before(packetBuf', g) /\ Before(video', g)
  <2>1. \/ g = camera.frame + 1
        \/ \E k \in d + 1..Ahead : Begins(Unparsed(k)) /\ g = Unparsed(k).frame
    <3>1. CASE g = camera'.frame + 1
      BY <3>1
    <3>2. CASE \E k \in 1..b : Begins(Unparsed(k)') /\ g = Unparsed(k)'.frame
      BY <1>1, <1>2, <3>2
    <3> QED
      BY <1>1, <1>5, <3>1, <3>2 DEF Coming, Begins
  <2> QED
    BY <2>1 DEF Coming
<1> QED
  BY <1>1, <1>3, <1>4, <1>5 DEF Ordered, Begins, Before

\* A packet the camera sends comes after all it has sent and all that was shown.
LEMMA PacketIsOrdered ==
    ASSUME IInv, IInv', Ordered, NEW p \in Packets, NEW f \in Nat,
           NEW payload \in Seq(Units), Len(payload) = p.size,
           \A i \in 1..Len(payload) : ~IsHeader(payload[i]) /\ payload[i].frame = f,
           Send(p, f, payload),
           UNCHANGED <<pending, packetBuf, video>>,
           camera.frame <= camera'.frame, f <= camera'.frame,
           p.kind \in {"start", "single"} => f = camera.frame + 1
    PROVE  Ordered'
<1>1. PICK k \in Nat, c \in Nat, e \in Nat, m \in Nat :
          k = Ahead /\ c = camera.frame /\ e = camera'.frame /\ m = p.size
  <2>1. Ahead \in Nat /\ camera.frame \in Nat
    BY DEF IInv, TypeOK, Ahead
  <2>2. camera'.frame \in Nat
    BY DEF IInv, TypeOK
  <2>3. p.size \in Nat
    BY ReceiveAssumption
  <2> QED
    BY <2>1, <2>2, <2>3
<1>2. /\ Ahead' = k + 1 + m
      /\ \A i \in 1..k : Unparsed(i)' = Unparsed(i)
      /\ Unparsed(k + 1)' = Header(p.kind, f, p.size)
      /\ \A i \in 1..m : Unparsed(k + 1 + i)' = payload[i]
  BY <1>1, PacketAhead
<1>3. ASSUME NEW i \in 1..k + 1 + m
      PROVE  /\ i <= k => Unparsed(i)' = Unparsed(i)
             /\ i > k => Unparsed(i)'.frame = f
             /\ i > k /\ Begins(Unparsed(i)') => i = k + 1 /\ f = c + 1
  <2>1. CASE i <= k
    BY <1>2, <2>1
  <2>2. CASE i = k + 1
    BY <1>1, <1>2, <2>2 DEF Header, Begins
  <2>3. CASE i > k + 1
    <3>1. i - k - 1 \in 1..m /\ k + 1 + (i - k - 1) = i
      BY <2>3
    <3>2. Unparsed(i)' = payload[i - k - 1]
      BY <1>2, <3>1
    <3>3. ~IsHeader(payload[i - k - 1]) /\ payload[i - k - 1].frame = f
      BY <1>1, <3>1
    <3> QED
      BY <2>3, <3>2, <3>3 DEF IsHeader, Begins, Kinds, VideoKinds
  <2> QED
    BY <2>1, <2>2, <2>3
<1>4. ASSUME NEW i \in 1..k
      PROVE  Unparsed(i).frame \in 0..c
  BY <1>1 DEF Ordered
<1>5. ASSUME NEW i \in 1..k + 1 + m
      PROVE  Unparsed(i)'.frame \in 0..e
  BY <1>1, <1>3, <1>4
<1>6. ASSUME NEW j \in 1..k + 1 + m, Begins(Unparsed(j)'), NEW i \in 1..j - 1
      PROVE  Unparsed(i)'.frame < Unparsed(j)'.frame
  <2>1. CASE j <= k
    <3>1. i \in 1..k /\ i \in 1..k + 1 + m /\ i <= k /\ j \in 1..k
      BY <2>1
    <3>2. Unparsed(j)' = Unparsed(j) /\ Unparsed(i)' = Unparsed(i)
      BY <1>3, <2>1, <3>1
    <3> QED
      BY <1>1, <1>6, <3>1, <3>2 DEF Ordered
  <2>2. CASE j > k
    <3>1. j = k + 1 /\ f = c + 1 /\ Unparsed(j)'.frame = f
      BY <1>3, <1>6, <2>2
    <3>2. i \in 1..k /\ i \in 1..k + 1 + m
      BY <3>1
    <3>3. Unparsed(i)' = Unparsed(i) /\ Unparsed(i).frame \in 0..c
      BY <1>3, <1>4, <3>2
    <3> QED
      BY <3>1, <3>3
  <2> QED
    BY <2>1, <2>2
<1>7. ASSUME NEW g \in Coming'
      PROVE  Before(packetBuf', g) /\ Before(video', g)
  <2>1. ASSUME NEW h \in Coming, h <= g
        PROVE  Before(packetBuf, g) /\ Before(video, g)
    <3>1. Before(packetBuf, h) /\ Before(video, h) /\ h \in Nat /\ g \in Nat
      BY <1>7 DEF Ordered, Coming
    <3>2. \A u \in Units : u.frame \in Nat
      BY DEF Units
    <3>3. packetBuf \in Seq(Units) /\ video \in Seq(Units)
      BY DEF IInv, TypeOK
    <3> QED
      BY <2>1, <3>1, <3>2, <3>3 DEF Before
  <2>2. c + 1 \in Coming
    BY <1>1 DEF Coming
  <2>3. CASE g = e + 1
    BY <1>1, <2>1, <2>2, <2>3
  <2>4. ASSUME NEW j \in 1..k + 1 + m, Begins(Unparsed(j)'), g = Unparsed(j)'.frame
        PROVE  Before(packetBuf, g) /\ Before(video, g)
    <3>1. CASE j <= k
      <4>1. Unparsed(j)' = Unparsed(j) /\ j \in 1..Ahead /\ g \in Nat
        BY <1>1, <1>3, <1>7, <3>1 DEF Coming
      <4>2. g \in Coming
        BY <2>4, <4>1 DEF Coming
      <4> QED
        BY <2>1, <4>1, <4>2
    <3>2. CASE j > k
      BY <1>3, <2>1, <2>2, <2>4, <3>2
    <3> QED
      BY <3>1, <3>2
  <2> QED
    BY <1>1, <1>2, <1>7, <2>3, <2>4 DEF Coming, Begins
<1> QED
  BY <1>1, <1>2, <1>5, <1>6, <1>7 DEF Ordered, Begins

\* Whatever the camera sends keeps the order.
LEMMA CameraKeepsOrder ==
    ASSUME IInv, IInv', Ordered, NEW p \in Packets, CameraSends(p)
    PROVE  Ordered'
<1>1. PICK packets \in Nat, frame \in Nat, sent \in Nat, more \in BOOLEAN, m \in Nat \ {0} :
          /\ camera = [packets |-> packets, frame |-> frame, sent |-> sent, more |-> more]
          /\ m = p.size
  BY ReceiveAssumption DEF IInv, TypeOK
<1>2. ASSUME NEW f \in Nat, NEW t \in Nat, NEW final,
             NEW payload, payload = VideoUnits(f, t, m, final)
      PROVE  /\ payload \in Seq(Units) /\ Len(payload) = m
             /\ \A i \in 1..m : ~IsHeader(payload[i]) /\ payload[i].frame = f
  <2>1. \A i \in 1..m : payload[i].frame = f
    BY <1>2 DEF VideoUnits, Payload
  <2>2. /\ payload \in Seq(Units) /\ Len(payload) = m
        /\ \A i \in 1..m : ~IsHeader(payload[i])
    BY <1>2, VideoPayload
  <2> QED
    BY <2>1, <2>2
<1>3. UNCHANGED <<pending, packetBuf, video>>
  BY DEF CameraSends
<1>4. CASE /\ p.kind \in {"start", "single"}
           /\ LET f == camera.frame + 1 IN
              /\ Send(p, f, VideoUnits(f, 0, p.size, p.kind = "single"))
              /\ camera' = [packets |-> camera.packets + 1, frame |-> f,
                            sent |-> p.size, more |-> p.kind = "start"]
  <2>0. PICK final \in BOOLEAN : final = (p.kind = "single")
    OBVIOUS
  <2>1. PICK f \in Nat, z \in Nat : f = frame + 1 /\ z = 0
    OBVIOUS
  <2>2. PICK payload : payload = VideoUnits(f, z, m, final)
    OBVIOUS
  <2>3. Send(p, f, payload) /\ camera'.frame = f /\ camera.frame = frame
    BY <1>1, <1>4, <2>0, <2>1, <2>2
  <2>4. /\ payload \in Seq(Units) /\ Len(payload) = m
        /\ \A i \in 1..m : ~IsHeader(payload[i]) /\ payload[i].frame = f
    BY <1>2, <2>2
  <2>5. camera.frame <= camera'.frame /\ f <= camera'.frame /\ f = camera.frame + 1
    BY <2>1, <2>3
  <2> QED
    BY <1>1, <1>3, <2>3, <2>4, <2>5, PacketIsOrdered
<1>5. CASE /\ p.kind \in {"middle", "end"}
           /\ Send(p, camera.frame,
                   VideoUnits(camera.frame, camera.sent, p.size, p.kind = "end"))
           /\ camera' = [camera EXCEPT !.packets = @ + 1, !.sent = @ + p.size,
                                       !.more = p.kind = "middle"]
  <2>1. PICK final \in BOOLEAN : final = (p.kind = "end")
    OBVIOUS
  <2>2. PICK payload : payload = VideoUnits(frame, sent, m, final)
    OBVIOUS
  <2>3. Send(p, frame, payload) /\ camera'.frame = frame /\ camera.frame = frame
    BY <1>1, <1>5, <2>1, <2>2
  <2>4. /\ payload \in Seq(Units) /\ Len(payload) = m
        /\ \A i \in 1..m : ~IsHeader(payload[i]) /\ payload[i].frame = frame
    BY <1>2, <2>2
  <2> QED
    BY <1>1, <1>3, <1>5, <2>3, <2>4, PacketIsOrdered
<1>6. CASE /\ p.kind \notin VideoKinds
           /\ Send(p, 0, [i \in 1..p.size |-> Payload("other", 0, i)])
           /\ camera' = [camera EXCEPT !.packets = @ + 1]
  <2>1. PICK payload : payload = [i \in 1..m |-> Payload("other", 0, i)]
    OBVIOUS
  <2>2. /\ payload \in Seq(Units) /\ Len(payload) = m
        /\ \A i \in 1..m : ~IsHeader(payload[i])
    BY <1>1, <2>1, OtherPayload
  <2>3. \A i \in 1..m : payload[i].frame = 0
    BY <2>1 DEF Payload
  <2>4. Send(p, 0, payload) /\ camera'.frame = frame /\ camera.frame = frame
    BY <1>1, <1>6, <2>1
  <2>5. p.kind \notin {"start", "single"}
    BY <1>6 DEF VideoKinds
  <2>6. 0 \in Nat /\ 0 <= frame
    OBVIOUS
  <2> QED
    BY <1>1, <1>3, <2>2, <2>3, <2>4, <2>5, <2>6, PacketIsOrdered
<1> QED
  BY <1>4, <1>5, <1>6 DEF CameraSends

\* So does the parser, whatever it makes of a packet.
LEMMA ParseKeepsOrder ==
    ASSUME IInv, IInv', Ordered, NEW kind, Parse(kind),
           NEW n, n = Current.n,
           \/ dataStart' = AfterPop(AfterHead, n)
           \/ dataStart' = (AfterHead + n) % BufLen,
           \/ packetBuf' = packetBuf
           \/ packetBuf' = <<Current>> \o Popped(AfterHead, n)
           \/ packetBuf' = packetBuf \o Popped(AfterHead, n)
           \/ packetBuf' = Popped(AfterHead, n),
           video' = video \/ video' = packetBuf'
    PROVE  Ordered'
<1>1. Parsing /\ UNCHANGED camera /\ n \in Nat /\ n + 1 \in Nat
  <2>1. Parsing
    BY DEF Parse
  <2> QED
    BY <2>1, ParserBegins DEF Parse
<1>2. Moves(n + 1)
  BY ParseKeepsStream
<1>3. /\ Popped(AfterHead, n) = [j \in 1..n |-> Unparsed(1 + j)]
      /\ Current = Unparsed(1)
  BY <1>1, PoppedIsAhead
<1>4. PICK units \in Seq(Units), u \in Units : units = Popped(AfterHead, n) /\ u = Current
  BY <1>1, ParseTypes
<1>5. PICK a \in Nat, c \in Nat : a = Ahead /\ c = camera.frame /\ n + 1 <= a
  <2>1. Ahead \in Nat
    BY SMTT(30) DEF IInv, TypeOK, Ahead
  <2>2. camera.frame \in Nat
    BY SMTT(30) DEF IInv, TypeOK
  <2>3. n + 1 <= Ahead
    BY <1>2, <2>1 DEF Moves
  <2> QED
    BY <2>1, <2>2, <2>3
<1>6. packetBuf \in Seq(Units) /\ video \in Seq(Units)
  BY DEF IInv, TypeOK
<1>7. ASSUME NEW g \in Nat,
             \/ g = c + 1
             \/ \E k \in n + 1 + 1..a : Begins(Unparsed(k)) /\ g = Unparsed(k).frame
      PROVE  Before(packetBuf', g) /\ Before(video', g)
  <2>1. ASSUME NEW i \in 1..n + 1
        PROVE  Unparsed(i).frame < g
    <3>1. Unparsed(i).frame \in 0..c
      <4>1. i \in 1..a
        BY <1>1, <1>5
      <4> QED
        BY <1>5, <4>1 DEF Ordered
    <3>2. CASE g = c + 1
      BY <3>1, <3>2
    <3>3. ASSUME NEW k \in n + 1 + 1..a, Begins(Unparsed(k)), g = Unparsed(k).frame
          PROVE  Unparsed(i).frame < g
      <4>1. k \in 1..a /\ i \in 1..k - 1
        BY <1>1
      <4> QED
        BY <1>5, <3>3, <4>1 DEF Ordered
    <3> QED
      BY <1>7, <3>2, <3>3
  <2>2. g \in Coming
    <3>1. n + 1 + 1..a \subseteq 1..a
      BY <1>1
    <3> QED
      BY <1>5, <1>7, <3>1 DEF Coming
  <2>3. Before(packetBuf, g) /\ Before(video, g)
    BY <2>2 DEF Ordered
  <2>4. Before(units, g)
    <3>1. Len(units) = n /\ \A j \in 1..n : units[j] = Unparsed(1 + j) /\ 1 + j \in 1..n + 1
      BY <1>1, <1>3, <1>4
    <3> QED
      BY <2>1, <3>1 DEF Before
  <2>5. <<u>> \in Seq(Units) /\ Before(<<u>>, g)
    <3>1. u.frame < g
      BY <1>1, <1>3, <1>4, <2>1
    <3> QED
      BY <3>1 DEF Before
  <2>6. Before(<<u>> \o units, g) /\ Before(packetBuf \o units, g)
    BY <1>6, <2>3, <2>4, <2>5, BeforeJoin
  <2>7. Before(packetBuf', g)
    BY <1>4, <2>3, <2>4, <2>6
  <2> QED
    BY <2>3, <2>7
<1> QED
  BY <1>1, <1>2, <1>5, <1>7, SuffixIsOrdered

\* A frame that begins now is later than the last one shown.
LEMMA BeginsLater ==
    ASSUME IInv, Ordered, Parsing, Begins(Current)
    PROVE  Before(video, Current.frame)
<1>1. Current \in Units /\ Current = Unparsed(1) /\ 1 \in 1..Ahead
  BY ParserBegins, ParseTypes, PoppedIsAhead
<1>2. Current.frame \in Coming
  BY <1>1 DEF Coming, Units
<1> QED
  BY <1>2 DEF Ordered

\* Every step keeps the order.
LEMMA NextOrdered ==
    ASSUME IInv, IInv', Ordered, [Next]_vars
    PROVE  Ordered'
<1>1. ASSUME NEW d \in Nat, Moves(d), camera'.frame = camera.frame,
             UNCHANGED <<packetBuf, video>>
      PROVE  Ordered'
  <2>1. PICK a \in Nat : a = Ahead
    BY DEF IInv, TypeOK, Ahead
  <2>2. ASSUME NEW g \in Nat,
               \/ g = camera.frame + 1
               \/ \E k \in d + 1..Ahead : Begins(Unparsed(k)) /\ g = Unparsed(k).frame
        PROVE  Before(packetBuf, g) /\ Before(video, g)
    <3>1. d + 1..a \subseteq 1..a
      OBVIOUS
    <3>2. g \in Coming
      BY <2>1, <2>2, <3>1 DEF Coming
    <3> QED
      BY <3>2 DEF Ordered
  <2> QED
    BY <1>1, <2>2, SuffixIsOrdered
<1>2. ASSUME NEW p \in Packets, CameraSends(p) PROVE Ordered'
  BY <1>2, CameraKeepsOrder
<1>3. ASSUME NEW n \in 0..MaxWire, ReadReply(n) PROVE Ordered'
  <2>1. Moves(n) /\ n \in Nat
    BY <1>3, ReplyStep
  <2> QED
    BY <1>1, <1>3, <2>1 DEF ReadReply
<1>4. ASSUME NEW n \in 1..MaxRecv, Recv(n) PROVE Ordered'
  <2>1. PICK d \in Nat : Moves(d)
    BY <1>4, RecvStep
  <2> QED
    BY <1>1, <1>4, <2>1 DEF Recv
<1>5. ASSUME Reconnect PROVE Ordered'
  <2>1. PICK a \in Nat : a = Ahead
    BY DEF IInv, TypeOK, Ahead
  <2>2. Ahead' = 0 /\ camera'.frame = camera.frame /\ UNCHANGED <<packetBuf, video>>
    BY <1>5 DEF Reconnect, Ahead, IInv, TypeOK
  <2>3. Moves(a)
    BY <2>1, <2>2 DEF Moves
  <2> QED
    BY <1>1, <2>2, <2>3
<1>6. CASE ParseStart
  BY <1>6, ParseKeepsOrder DEF ParseStart
<1>7. CASE ParseMiddle
  BY <1>7, ParseKeepsOrder DEF ParseMiddle
<1>8. CASE ParseEnd
  BY <1>8, ParseKeepsOrder DEF ParseEnd
<1>9. CASE ParseSingle
  BY <1>9, ParseKeepsOrder DEF ParseSingle
<1>10. CASE ParseAudio
  BY <1>10, ParseKeepsOrder DEF ParseAudio
<1>11. CASE ParseSkip
  BY <1>11, ParseKeepsOrder DEF ParseSkip
<1>12. CASE ParseFails \/ HangUp
  BY <1>5, <1>12 DEF ParseFails, HangUp
<1>13. CASE UNCHANGED vars
  <2>1. Ahead' = Ahead /\ \A i : Unparsed(i)' = Unparsed(i)
    BY <1>13 DEF vars, Ahead, Unparsed
  <2>2. Moves(0)
    BY <2>1, SMTT(60) DEF Moves, IInv, TypeOK, Ahead
  <2> QED
    BY <1>1, <1>13, <2>2 DEF vars
<1> QED
  BY <1>2, <1>3, <1>4, <1>6, <1>7, <1>8, <1>9, <1>10, <1>11, <1>12, <1>13 DEF Next

\* Nothing is ahead at the start, and nothing was shown.
LEMMA InitOrdered == Init => Ordered
<1> SUFFICES ASSUME Init PROVE Ordered
  OBVIOUS
<1>1. Ahead = 0 /\ Len(packetBuf) = 0 /\ Len(video) = 0
  BY DEF Init, Ahead
<1> QED
  BY <1>1 DEF Ordered, Before

-----------------------------------------------------------------------------
(* Both together: whole frames, in order.                                  *)

\* The frame inserted by this step is whole, and later than the one before it.
ShownInOrder == \E f \in 1..MaxPackets : Whole(video', f) /\ Before(video, f)

\* A packet keeps packetBuf in step with the camera, and what it completes is whole.
LEMMA PacketThreads ==
    ASSUME IInv, IInv', Threaded, Ordered,
           \/ ParseStart \/ ParseMiddle \/ ParseEnd \/ ParseSingle
           \/ ParseAudio \/ ParseSkip
    PROVE  Threaded' /\ (video' # video /\ synced' => ShownInOrder)
<1>1. PICK st \in [Nat -> CameraStates] :
          Numbered /\ Stream(st) /\ (synced => InStep(packetBuf, video, st[1]))
  BY DEF Threaded
<1>2. PICK n : n = Current.n
  OBVIOUS
<1>3. st[1] \in CameraStates
  BY <1>1
<1>4. ASSUME NEW kind, Parse(kind)
      PROVE  /\ n \in Nat \ {0} /\ Current.kind = kind
             /\ Follows(Current, st[1], st[n + 2])
             /\ kind \in VideoKinds => Popped(AfterHead, n) = Expected(Current, st[1])
             /\ Popped(AfterHead, n) \in Seq(Units)
             /\ Current \in Units
  BY <1>1, <1>2, <1>4, ParsedIsExpected
<1>5. ASSUME NEW kind, Parse(kind),
             \/ dataStart' = AfterPop(AfterHead, n)
             \/ dataStart' = (AfterHead + n) % BufLen,
             synced' => InStep(packetBuf', video', st[n + 2])
      PROVE  Threaded'
  BY <1>1, <1>2, <1>5, ParseThreads
<1>6. CASE ParseStart
  <2>1. /\ Parse("start") /\ video' = video
        /\ packetBuf' = <<Current>> \o Popped(AfterHead, n)
        /\ dataStart' = AfterPop(AfterHead, n)
    BY <1>2, <1>6 DEF ParseStart
  <2>2. /\ n \in Nat \ {0} /\ Current.kind = "start" /\ Current \in Units
        /\ Current.frame \in 1..MaxPackets
        /\ st[n + 2] = [frame |-> Current.frame, sent |-> n, more |-> TRUE]
        /\ Popped(AfterHead, n) = VideoUnits(Current.frame, 0, n, FALSE)
        /\ Popped(AfterHead, n) \in Seq(Units)
    BY <1>2, <1>4, <2>1, VideoCases, ZenonT(60) DEF VideoKinds
  <2>3. PICK units \in Seq(Units), u \in Units :
            units = Popped(AfterHead, n) /\ u = Current
    BY <2>2
  <2>4. /\ packetBuf' = <<u>> \o units
        /\ packetBuf' # <<>> /\ packetBuf'[1] = u /\ Tail(packetBuf') = units
    BY <2>1, <2>3
  <2>5. Body(packetBuf') = units
    BY <2>2, <2>3, <2>4 DEF Body
  <2>6. Assembled(packetBuf', st[n + 2])
    BY <2>2, <2>3, <2>4, <2>5, AssembledTo
  <2>7. Parsing /\ Begins(Current)
    BY <2>1, <2>2 DEF Parse, Begins
  <2>8. Before(video', Current.frame) /\ st[n + 2].frame = Current.frame
    BY <2>1, <2>2, <2>7, BeginsLater
  <2>9. QED
    BY <1>5, <2>1, <2>6, <2>8 DEF InStep
<1>7. CASE ParseMiddle
  <2>1. /\ Parse("middle") /\ video' = video /\ synced' = synced
        /\ packetBuf' = packetBuf \o Popped(AfterHead, n)
        /\ dataStart' = AfterPop(AfterHead, n)
    BY <1>2, <1>7 DEF ParseMiddle
  <2>2. PICK s, t : s = st[1] /\ t = st[n + 2]
    OBVIOUS
  <2>3. PICK units : units = Popped(AfterHead, n)
    OBVIOUS
  <2>4. /\ n \in Nat \ {0} /\ units \in Seq(Units)
        /\ Current.kind = "middle" /\ Follows(Current, s, t) /\ units = Expected(Current, s)
    BY <1>4, <2>1, <2>2, <2>3 DEF VideoKinds
  <2>5. /\ s.more
        /\ t = [frame |-> s.frame, sent |-> s.sent + n, more |-> TRUE]
        /\ units = VideoUnits(s.frame, s.sent, n, FALSE)
    BY <1>2, <2>4, VideoCases, ZenonT(60)
  <2>6. ASSUME synced'
        PROVE  Assembled(packetBuf', t)
    <3>1. Assembled(packetBuf, s) /\ s \in CameraStates
      BY <1>1, <1>3, <2>1, <2>2, <2>6 DEF InStep
    <3>2. packetBuf' = packetBuf \o units
      BY <2>1, <2>3
    <3>3. /\ packetBuf' # <<>>
          /\ s.frame \in 1..MaxPackets /\ s.sent + n \in Nat \ {0}
          /\ Body(packetBuf') = VideoUnits(s.frame, 0, s.sent + n, FALSE)
      BY <2>4, <2>5, <3>1, <3>2, FragmentJoins
    <3>4. QED
      BY <2>5, <3>3, AssembledTo
  <2>7. ASSUME synced'
        PROVE  Before(video', t.frame)
    BY <1>1, <2>1, <2>2, <2>5, <2>7 DEF InStep
  <2>8. QED
    BY <1>5, <2>1, <2>2, <2>6, <2>7 DEF InStep
<1>8. CASE ParseEnd
  <2>1. /\ Parse("end") /\ video' = packetBuf' /\ synced' = synced
        /\ packetBuf' = packetBuf \o Popped(AfterHead, n)
        /\ dataStart' = AfterPop(AfterHead, n)
    BY <1>2, <1>8 DEF ParseEnd
  <2>2. PICK s, t : s = st[1] /\ t = st[n + 2]
    OBVIOUS
  <2>3. PICK units : units = Popped(AfterHead, n)
    OBVIOUS
  <2>4. /\ n \in Nat \ {0} /\ units \in Seq(Units)
        /\ Current.kind = "end" /\ Follows(Current, s, t) /\ units = Expected(Current, s)
    BY <1>4, <2>1, <2>2, <2>3 DEF VideoKinds
  <2>5. /\ s.more
        /\ t = [frame |-> s.frame, sent |-> s.sent + n, more |-> FALSE]
        /\ units = VideoUnits(s.frame, s.sent, n, TRUE)
    BY <1>2, <2>4, VideoCases
  <2>6. ASSUME synced'
        PROVE  Assembled(packetBuf', t) /\ ShownInOrder
    <3>1. Assembled(packetBuf, s) /\ s \in CameraStates
      BY <1>1, <1>3, <2>1, <2>2, <2>6 DEF InStep
    <3>2. packetBuf' = packetBuf \o units
      BY <2>1, <2>3
    <3>3. /\ packetBuf' # <<>>
          /\ s.frame \in 1..MaxPackets /\ s.sent + n \in Nat \ {0}
          /\ Body(packetBuf') = VideoUnits(s.frame, 0, s.sent + n, TRUE)
      BY <2>4, <2>5, <3>1, <3>2, FragmentJoins
    <3>4. Whole(packetBuf', s.frame)
      BY <3>3, AssembledIsWhole
    <3>5. Before(video, s.frame)
      BY <1>1, <2>1, <2>2, <2>5, <2>6 DEF InStep
    <3>6. QED
      BY <2>1, <2>5, <3>3, <3>4, <3>5, AssembledTo DEF ShownInOrder
  <2>7. t.more = FALSE
    BY <2>5
  <2>8. QED
    BY <1>5, <2>1, <2>2, <2>6, <2>7 DEF InStep
<1>9. CASE ParseSingle
  <2>1. /\ Parse("single") /\ video' = packetBuf'
        /\ packetBuf' = Popped(AfterHead, n)
        /\ dataStart' = AfterPop(AfterHead, n)
    BY <1>2, <1>9 DEF ParseSingle
  <2>2. PICK t, f : t = st[n + 2] /\ f = Current.frame
    OBVIOUS
  <2>3. /\ n \in Nat \ {0}
        /\ Current.kind = "single" /\ Follows(Current, st[1], t)
        /\ packetBuf' = Expected(Current, st[1])
    BY <1>4, <2>1, <2>2 DEF VideoKinds
  <2>4. /\ f \in 1..MaxPackets
        /\ t = [frame |-> f, sent |-> n, more |-> FALSE]
        /\ packetBuf' = VideoUnits(f, 0, n, TRUE)
    BY <1>2, <2>2, <2>3, VideoCases, ZenonT(60)
  <2>5. f \in Nat
    BY <2>4, ReceiveAssumption
  <2>6. Body(packetBuf') = VideoUnits(f, 0, n, TRUE) /\ packetBuf' # <<>>
    BY <2>3, <2>4, <2>5, UnitsAreBody, ZenonT(60)
  <2>7. Assembled(packetBuf', t)
    BY <2>3, <2>4, <2>6, AssembledTo
  <2>8. Whole(packetBuf', f)
    BY <2>3, <2>4, <2>6, AssembledIsWhole
  <2>9. Before(video, f)
    <3>1. Parsing /\ Begins(Current)
      BY <2>1, <2>3 DEF Parse, Begins
    <3>2. QED
      BY <2>2, <3>1, BeginsLater
  <2>10. ShownInOrder
    BY <2>1, <2>4, <2>8, <2>9 DEF ShownInOrder
  <2>11. t.more = FALSE
    BY <2>4
  <2>12. QED
    BY <1>5, <2>1, <2>2, <2>7, <2>10, <2>11 DEF InStep
<1>10. CASE ParseAudio \/ ParseSkip
  <2>1. PICK kind \in {"audio", "rtcp", "reply"} :
          /\ Parse(kind)
          /\ UNCHANGED <<packetBuf, video, synced>>
          /\ \/ dataStart' = AfterPop(AfterHead, n)
             \/ dataStart' = (AfterHead + n) % BufLen
    BY <1>2, <1>10 DEF ParseAudio, ParseSkip
  <2>2. st[n + 2] = st[1]
    BY <1>4, <2>1 DEF Follows, VideoKinds
  <2>3. QED
    BY <1>1, <1>5, <2>1, <2>2
<1>11. QED
  BY <1>6, <1>7, <1>8, <1>9, <1>10

\* Every step keeps the stream threaded, and frames whole.
LEMMA NextThreaded ==
    ASSUME IInv, IInv', Threaded, Ordered, [Next]_vars
    PROVE  Threaded' /\ (video' # video /\ synced' => ShownInOrder)
<1>1. PICK st \in [Nat -> CameraStates] :
          Numbered /\ Stream(st) /\ (synced => InStep(packetBuf, video, st[1]))
  BY DEF Threaded
<1>2. ASSUME NEW p \in Packets, CameraSends(p)
      PROVE  Threaded' /\ video' = video
  <2>1. PICK su \in [Nat -> CameraStates] : Numbered' /\ Stream(su)' /\ su[1] = st[1]
    BY <1>1, <1>2, CameraThreads
  <2>2. UNCHANGED <<synced, packetBuf, video, startFlag>>
    BY <1>2 DEF CameraSends
  <2>3. QED
    BY <1>1, <2>1, <2>2 DEF Threaded, InStep, Assembled, Before
<1>3. ASSUME NEW d \in Nat, Moves(d), UNCHANGED <<camera, packetBuf, video, synced>>,
             synced => d = 0, startFlag => startFlag'
      PROVE  Threaded' /\ video' = video
  <2>1. PICK su : su = [i \in Nat |-> st[d + i]]
    OBVIOUS
  <2>2. Stream(su)' /\ su \in [Nat -> CameraStates]
    BY <1>1, <1>3, <2>1, SuffixIsCarried
  <2>3. synced => su[1] = st[1]
    BY <1>3, <2>1
  <2>4. Numbered'
    BY <1>1, <1>3 DEF Numbered
  <2>5. QED
    BY <1>1, <1>3, <2>2, <2>3, <2>4 DEF Threaded, InStep, Assembled, Before
<1>4. ASSUME NEW n \in 0..MaxWire, ReadReply(n)
      PROVE  Threaded' /\ video' = video
  <2>1. Moves(n) /\ n \in Nat
    BY <1>4, ReplyStep
  <2>2. UNCHANGED <<camera, packetBuf, video, synced, startFlag>> /\ ~synced
    BY <1>4 DEF ReadReply, Threaded, IInv, Started
  <2>3. QED
    BY <1>3, <2>1, <2>2
<1>5. ASSUME NEW n \in 1..MaxRecv, Recv(n)
      PROVE  Threaded' /\ video' = video
  <2>1. PICK d \in Nat : Moves(d) /\ (startFlag => d = 0)
    BY <1>5, RecvStep
  <2>2. UNCHANGED <<camera, packetBuf, video, synced>> /\ (startFlag => startFlag')
    BY <1>5 DEF Recv
  <2>3. synced => d = 0
    BY <2>1 DEF Threaded
  <2>4. QED
    BY <1>3, <2>1, <2>2, <2>3
<1>6. ASSUME Reconnect
      PROVE  Threaded' /\ video' = video
  <2>1. Ahead' = 0 /\ ~synced' /\ video' = video
    BY <1>6 DEF Reconnect, Ahead
  <2>2. Numbered'
    BY <1>1, <1>6 DEF Reconnect, Numbered, IInv, TypeOK
  <2>3. Threaded'
    <3>1. (IInv /\ Ahead = 0 /\ Numbered /\ ~synced => Threaded)'
      BY EmptyIsThreaded, PTL
    <3>2. QED
      BY <2>1, <2>2, <3>1
  <2>4. QED
    BY <2>1, <2>3
<1>7. CASE ParseStart \/ ParseMiddle \/ ParseEnd \/ ParseSingle \/ ParseAudio \/ ParseSkip
  BY <1>7, PacketThreads
<1>8. CASE ParseFails \/ HangUp
  BY <1>6, <1>8 DEF ParseFails, HangUp
<1>9. CASE UNCHANGED vars
  <2>1. Ahead' = Ahead /\ \A i : Unparsed(i)' = Unparsed(i)
    BY <1>9 DEF vars, Ahead, Unparsed
  <2>2. Moves(0)
    BY <2>1, SMTT(60) DEF Moves, IInv, TypeOK, Ahead
  <2>3. UNCHANGED <<camera, packetBuf, video, synced, startFlag>>
    BY <1>9 DEF vars
  <2>4. QED
    BY <1>3, <2>2, <2>3
<1>10. QED
  BY <1>2, <1>4, <1>5, <1>7, <1>8, <1>9 DEF Next

-----------------------------------------------------------------------------
\* The invariant holds of every reachable state.
LEMMA AlwaysIInv == Spec => []IInv
<1>1. Init => IInv
  BY InitIInv
<1>2. IInv /\ [Next]_vars => IInv'
  BY NextIInv
<1>3. QED
  BY <1>1, <1>2, PTL DEF Spec

\* The cursors stay inside the ring and what is received stays a stream of units.
THEOREM TypeCorrect == Spec => []TypeOK
<1>1. IInv => TypeOK
  BY DEF IInv
<1>2. QED
  BY <1>1, AlwaysIInv, PTL

\* The ring is the queue of what was received and not parsed, at every position
\* of its cursors: it neither overflows nor looks full when it is empty.
THEOREM RingCorrect == Spec => []RingIsQueue
<1>1. IInv => RingIsQueue
  BY RingFromIInv
<1>2. QED
  BY <1>1, AlwaysIInv, PTL

\* Nothing has been sent yet.
LEMMA InitThreaded == Init => Threaded
<1> SUFFICES ASSUME Init PROVE Threaded
  OBVIOUS
<1>1. IInv
  BY InitIInv
<1>2. Ahead = 0 /\ ~synced
  BY DEF Init, Ahead
<1>3. Numbered
  BY ReceiveAssumption DEF Init, Numbered
<1>4. QED
  BY <1>1, <1>2, <1>3, EmptyIsThreaded

\* Once a session has seen the start of a frame, every frame that reaches the
\* frame queue is one frame of the camera, whole, with its units in order, and later
\* than the frame before it.
THEOREM FramesCorrect == Spec => FramesAreWhole
<1>1. IInv /\ Threaded /\ Ordered /\ [Next]_vars /\ IInv'
          => /\ Threaded' /\ Ordered'
             /\ [video' # video /\ synced' =>
                    \E f \in 1..MaxPackets : Whole(video', f) /\ Before(video, f)]_vars
  BY NextThreaded, NextOrdered DEF ShownInOrder
<1>2. Init => Threaded /\ Ordered
  BY InitThreaded, InitOrdered
<1>3. QED
  BY <1>1, <1>2, AlwaysIInv, PTL DEF Spec, FramesAreWhole

\* The parser begins every packet at its header and finds it whole, though it
\* checks neither.
THEOREM ParserCorrect == Spec => []ParserInStep
<1>1. IInv => ParserInStep
  BY InStepFromIInv
<1>2. QED
  BY <1>1, AlwaysIInv, PTL
=============================================================================
