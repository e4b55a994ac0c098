-------------------------- MODULE FrameStreamProofs --------------------------
(***************************************************************************)
(* Proofs about FrameStream, for every wire, every pair of frame lengths,  *)
(* every checksum function and every way of cutting the wire into chunks.  *)
(*                                                                         *)
(* The inductive invariant says of drain()'s position `scan`: what the     *)
(* decoder did with the bytes before it is final (Handled), and between    *)
(* chunks no complete frame lies behind it (NothingWaits).                 *)
(***************************************************************************)
EXTENDS FrameStream, TLAPS

Handled(d) ==
  \/ \E i \in DOMAIN frames : frames[i] = d \/ Overlap(frames[i], d)
  \/ \E e \in dropped : e.from <= d.from /\ d.from < e.to

AllHandled == \A d \in Spans : Framed(d) /\ d.from < scan => Handled(d)

NothingWaits ==
  ~draining => \A d \in Spans : Framed(d) /\ d.to <= fed => d.from < scan

FramesInOrder ==
  /\ \A i, j \in DOMAIN frames : i < j => frames[i].to <= frames[j].from
  /\ \A i \in DOMAIN frames : Framed(frames[i]) /\ frames[i].to <= scan

Short == ~draining => fed < start + MaxFrame

Fresh == fed > start => idle <= IdleTimeout + sinceTick

IInv ==
  /\ TypeOK
  /\ FramesInOrder
  /\ AllHandled
  /\ NothingWaits
  /\ Short
  /\ Fresh

-----------------------------------------------------------------------------
\* The constants' assumptions, as the steps below use them.
LEMMA Constants ==
  /\ Wires \subseteq Seq(Nat)
  /\ MinFrame \in Nat /\ MinFrame >= 2
  /\ MaxFrame \in Nat /\ MinFrame <= MaxFrame
  /\ LenBias \in Nat
  /\ MaxChunkBytes \in Nat
  /\ IdleTimeout \in Nat /\ TickPeriod \in Nat /\ MaxIdle \in Nat
BY WiresAssumption, LengthsAssumption, ChunkAssumption, TimesAssumption

\* The frames returned so far are spans.
LEMMA FramesAreSpans ==
  ASSUME TypeOK, NEW i \in DOMAIN frames
  PROVE  frames[i] \in Spans /\ frames[i].from \in Nat /\ frames[i].to \in Nat
<1>1. frames[i] \in Spans
  BY DEF TypeOK
<1> QED
  BY <1>1 DEF Spans

\* The checksum of the span that the length byte gives.
LEMMA SameSum ==
  ASSUME NEW s \in Nat, Total(s) \in Nat, NEW d, d.from = s, d.to = s + Total(s)
  PROVE  Summed(wire, d) <=> ChecksumOk(s)
<1>1. SubSeq(wire, d.from + 1, d.to - 1) = SubSeq(wire, s + 1, s + Total(s) - 1)
  OBVIOUS
<1>2. Summed(wire, d) <=>
        wire[s + Total(s)] = Checksum(SubSeq(wire, s + 1, s + Total(s) - 1))
  BY <1>1, Zenon DEF Summed
<1> QED
  BY <1>2, Zenon DEF ChecksumOk

\* Before any byte arrives there is nothing to handle.
LEMMA InitInv == Init => IInv
<1> SUFFICES ASSUME Init PROVE IInv
  OBVIOUS
<1> USE Constants DEF Init
<1>1. TypeOK
  <2>1. Len(wire) \in Nat
    OBVIOUS
  <2>2. idle \in 0..MaxIdle /\ sinceTick \in 0..TickPeriod
    OBVIOUS
  <2>3. fed \in 0..Len(wire) /\ start \in 0..fed /\ scan \in start..fed
    BY <2>1
  <2>4. frames \in Seq(Spans) /\ dropped \in SUBSET Spans
    OBVIOUS
  <2>6. draining \in BOOLEAN
    BY Zenon
  <2>5. wire \in Wires
    OBVIOUS
  <2> QED
    BY <2>2, <2>3, <2>4, <2>5, <2>6, Zenon DEF TypeOK
<1>2. FramesInOrder
  BY DEF FramesInOrder
<1>3. AllHandled
  BY DEF AllHandled, Spans
<1>4. NothingWaits
  BY DEF NothingWaits, Spans, Framed, Measured
<1>5. Short /\ Fresh
  BY DEF Short, Fresh
<1> QED
  BY <1>1, <1>2, <1>3, <1>4, <1>5 DEF IInv

\* The byte behind a frame's first one is there, and is a number.
LEMMA LengthByte ==
  ASSUME TypeOK, NEW s \in Nat, HasHeader(s)
  PROVE  wire[s + 2] \in Nat /\ Total(s) \in Nat
<1>1. wire \in Seq(Nat) /\ s + 2 \in 1..Len(wire)
  BY Constants DEF TypeOK, HasHeader
<1> QED
  BY <1>1, Constants DEF Total

\* The decoder's tests accept exactly what the framing calls a frame, if
\* its bytes are there: the frame that decode() returns is a framed span.
LEMMA AcceptedIsFramed ==
  ASSUME TypeOK, NEW s \in Nat, FrameAt(s)
  PROVE  /\ Span(s) \in Spans /\ Framed(Span(s))
         /\ Span(s).from = s /\ s < Span(s).to /\ Span(s).to <= fed
<1>1. wire[s + 2] \in Nat /\ Total(s) \in Nat
  BY LengthByte DEF FrameAt
<1>2. s + Total(s) <= fed /\ MinFrame <= Total(s) /\ Total(s) <= MaxFrame
  BY <1>1, Constants DEF FrameAt, Complete, LengthOk
<1>3. fed \in Nat /\ Len(wire) \in Nat /\ fed <= Len(wire)
  BY Constants DEF TypeOK
<1>4. Span(s).from = s /\ Span(s).to = s + Total(s)
  BY DEF Span
<1>5. Measured(wire, Span(s))
  BY <1>1, <1>2, <1>3, <1>4, Constants DEF Measured, Total
<1>6. Framed(Span(s))
  BY <1>1, <1>4, <1>5, SameSum DEF Framed, FrameAt
<1> QED
  BY <1>1, <1>2, <1>3, <1>4, <1>6, Constants DEF Span, Spans

\* And the other way round: a framed span passes the decoder's tests.
LEMMA FramedIsAccepted ==
  ASSUME TypeOK, NEW d \in Spans, Framed(d)
  PROVE  /\ d.from \in Nat /\ d.to \in Nat /\ d.from + MinFrame <= d.to
         /\ Total(d.from) \in Nat /\ d.to = d.from + Total(d.from)
         /\ d = Span(d.from)
         /\ LengthOk(d.from) /\ ChecksumOk(d.from)
         /\ d.to <= fed => FrameAt(d.from)
<1>1. d.from \in Nat /\ d.to \in Nat /\ fed \in Nat
  BY DEF Spans, TypeOK
<1>0. wire \in Seq(Nat) /\ Measured(wire, d) /\ Summed(wire, d)
  BY Constants DEF TypeOK, Framed
<1>m. /\ d.to <= Len(wire)
      /\ d.from + MinFrame <= d.to
      /\ d.to <= d.from + MaxFrame
      /\ d.from + wire[d.from + 2] + LenBias = d.to
  BY <1>0, Zenon DEF Measured
<1>2. d.from + 2 \in 1..Len(wire)
  <2>1. Len(wire) \in Nat
    BY <1>0
  <2> QED
    BY <1>1, <1>m, <2>1, Constants
<1>3. wire[d.from + 2] \in Nat /\ Total(d.from) \in Nat
  BY <1>0, <1>2, Constants DEF Total
<1>4. d.to = d.from + Total(d.from) /\ d.from + MinFrame <= d.to
  BY <1>1, <1>3, <1>m, Constants DEF Total
<1>5. d = Span(d.from)
  <2>1. d = [from |-> d.from, to |-> d.to]
    BY DEF Spans
  <2> QED
    BY <1>4, <2>1, Zenon DEF Span
<1>6. LengthOk(d.from)
  BY <1>1, <1>3, <1>4, <1>m, Constants, SMTT(30) DEF LengthOk
<1>7. ChecksumOk(d.from)
  BY <1>0, <1>1, <1>3, <1>4, SameSum
<1>8. d.to <= fed => FrameAt(d.from)
  BY <1>1, <1>3, <1>4, <1>6, <1>7, Constants DEF FrameAt, HasHeader, Complete
<1> QED
  BY <1>1, <1>3, <1>4, <1>5, <1>6, <1>7, <1>8

-----------------------------------------------------------------------------
\* A chunk only extends the window.
LEMMA FeedInv ==
  ASSUME IInv, NEW n \in 1..MaxChunkBytes, Feed(n)
  PROVE  IInv'
<1> USE DEF IInv, Feed
<1>1. TypeOK'
  BY Constants DEF TypeOK
<1>2. FramesInOrder'
  BY DEF FramesInOrder, Framed
<1>3. AllHandled'
  BY DEF AllHandled, Handled, Framed, Overlap
<1>4. NothingWaits' /\ Short'
  BY DEF NothingWaits, Short
<1>5. Fresh'
  BY Constants DEF Fresh, TypeOK
<1> QED
  BY <1>1, <1>2, <1>3, <1>4, <1>5

\* A byte that is skipped begins no frame, whatever arrives later.
LEMMA SkipByteInv == IInv /\ SkipByte => IInv'
<1> SUFFICES ASSUME IInv, SkipByte PROVE IInv'
  OBVIOUS
<1> USE DEF IInv
<1>1. TypeOK'
  BY Constants DEF TypeOK, SkipByte, HasHeader
<1>2. FramesInOrder'
  <2>1. \A i \in DOMAIN frames : frames[i].to \in Nat
    BY FramesAreSpans
  <2>2. scan \in Nat /\ scan' = scan + 1 /\ frames' = frames /\ wire' = wire
    BY DEF TypeOK, SkipByte
  <2> QED
    BY <2>1, <2>2 DEF FramesInOrder, Framed
<1>3. AllHandled'
  <2> SUFFICES ASSUME NEW d \in Spans, Framed(d), d.from < scan + 1
               PROVE  Handled(d)
    BY DEF AllHandled, Handled, Framed, Overlap, SkipByte
  <2>1. d.from # scan
    BY FramedIsAccepted DEF SkipByte
  <2>2. d.from < scan
    BY <2>1 DEF TypeOK, Spans
  <2> QED
    BY <2>2 DEF AllHandled
<1>4. NothingWaits' /\ Short' /\ Fresh'
  BY DEF NothingWaits, Short, Fresh, SkipByte
<1> QED
  BY <1>1, <1>2, <1>3, <1>4

\* Returning the frame at s settles every frame that begins before its end,
\* provided none that begins before s ends by s.
LEMMA ReturnInv ==
  ASSUME IInv, draining, NEW s \in Nat, scan <= s, FrameAt(s), Return(s),
         \A d \in Spans : Framed(d) /\ scan <= d.from /\ d.from < s => s < d.to
  PROVE  IInv'
<1> USE DEF IInv
<1>1. /\ Span(s) \in Spans /\ Framed(Span(s)) /\ Span(s).from = s
      /\ s < Span(s).to /\ Span(s).to <= fed
  BY AcceptedIsFramed
<1>2. /\ scan' = Span(s).to /\ frames' = Append(frames, Span(s))
      /\ UNCHANGED <<wire, start, fed, draining, dropped, idle, sinceTick>>
  BY DEF Return
<1>3. Span(s).to \in Nat /\ scan \in Nat /\ start <= scan /\ frames \in Seq(Spans)
      /\ start \in Nat /\ fed \in Nat
  BY <1>1 DEF Spans, TypeOK
<1>4. TypeOK'
  BY <1>1, <1>2, <1>3 DEF TypeOK
<1>5. /\ DOMAIN frames' = DOMAIN frames \cup {Len(frames) + 1}
      /\ frames'[Len(frames) + 1] = Span(s)
      /\ \A i \in DOMAIN frames : frames'[i] = frames[i] /\ i \in 1..Len(frames)
  BY <1>2, <1>3
<1>6. FramesInOrder'
  <2>1. \A i \in DOMAIN frames : frames[i].to \in Nat /\ frames[i].to <= scan /\ Framed(frames[i])
    <3>1. \A i \in DOMAIN frames : frames[i].to \in Nat
      BY FramesAreSpans
    <3> QED
      BY <3>1 DEF FramesInOrder
  <2>2. \A i \in DOMAIN frames' : Framed(frames[i])' /\ frames'[i].to <= scan'
    <3>1. \A i \in DOMAIN frames' : Framed(frames'[i]) /\ frames'[i].to <= scan'
      BY <1>1, <1>2, <1>3, <1>5, <2>1
    <3>2. \A d : Framed(d) => Framed(d)'
      BY <1>2 DEF Framed
    <3> QED
      BY <1>2, <3>1 DEF Framed
  <2>3. ASSUME NEW i \in DOMAIN frames', NEW j \in DOMAIN frames', i < j
        PROVE  frames'[i].to <= frames'[j].from
    <3>1. i \in DOMAIN frames
      BY <1>3, <1>5, <2>3
    <3>2. CASE j \in DOMAIN frames
      BY <1>5, <2>3, <3>1, <3>2 DEF FramesInOrder
    <3>3. CASE j = Len(frames) + 1
      BY <1>1, <1>3, <1>5, <2>1, <3>1, <3>3
    <3> QED
      BY <1>5, <3>2, <3>3
  <2> QED
    BY <2>2, <2>3, Zenon DEF FramesInOrder
<1>7. AllHandled'
  <2> SUFFICES ASSUME NEW d \in Spans, Framed(d), d.from < Span(s).to
               PROVE  Handled(d)'
    BY <1>2 DEF AllHandled, Framed
  <2>1. d.from \in Nat /\ d.to \in Nat /\ d.from < d.to /\ d = Span(d.from)
    BY FramedIsAccepted, Constants
  <2>2. CASE d.from < scan
    <3>1. Handled(d)
      BY <2>2 DEF AllHandled
    <3> QED
      BY <1>2, <1>5, <3>1 DEF Handled, Overlap
  <2>3. CASE d.from = s
    <3>1. d = Span(s)
      BY <2>1, <2>3
    <3> QED
      BY <1>5, <3>1 DEF Handled
  <2>4. CASE scan <= d.from /\ d.from # s
    <3>1. Overlap(Span(s), d)
      BY <1>1, <1>3, <2>1, <2>4 DEF Overlap
    <3> QED
      BY <1>5, <3>1 DEF Handled, Overlap
  <2> QED
    BY <1>3, <2>1, <2>2, <2>3, <2>4
<1>8. NothingWaits' /\ Short' /\ Fresh'
  BY <1>2 DEF NothingWaits, Short, Fresh
<1> QED
  BY <1>4, <1>6, <1>7, <1>8

\* The frame at scan is returned: nothing begins before it.
LEMMA AcceptInv == IInv /\ Accept => IInv'
<1> SUFFICES ASSUME IInv, Accept PROVE IInv'
  OBVIOUS
<1>1. scan \in Nat
  BY DEF IInv, TypeOK
<1>2. \A d \in Spans : ~(scan <= d.from /\ d.from < scan)
  BY <1>1 DEF Spans
<1> QED
  BY <1>1, <1>2, ReturnInv DEF Accept

\* The lookahead returns the first complete frame: what begins before it is
\* incomplete, hence reaches into it.
LEMMA RecoverInv == IInv /\ Recover => IInv'
<1> SUFFICES ASSUME IInv, Recover PROVE IInv'
  OBVIOUS
<1>1. TypeOK /\ scan \in Nat /\ fed \in Nat
  BY DEF IInv, TypeOK
<1>2. PICK s \in Ahead : (\A t \in Ahead : s <= t) /\ Return(s)
  BY DEF Recover
<1>3. s \in Nat /\ scan < s /\ s <= fed /\ FrameAt(s)
  BY <1>1, <1>2 DEF Ahead
<1>4. ASSUME NEW d \in Spans, Framed(d), scan <= d.from, d.from < s
      PROVE  s < d.to
  <2>1. d.from \in Nat /\ d.to \in Nat /\ (d.to <= fed => FrameAt(d.from))
    BY <1>1, <1>4, FramedIsAccepted
  <2>2. CASE d.from = scan
    BY <1>1, <1>3, <2>1, <2>2 DEF Recover, Waiting, FrameAt
  <2>3. CASE d.from # scan
    <3>1. d.from \notin Ahead
      BY <1>2, <1>3, <1>4, <2>1
    <3>2. d.from \in scan+1..fed
      BY <1>1, <1>3, <1>4, <2>1, <2>3
    <3>3. ~FrameAt(d.from)
      BY <3>1, <3>2 DEF Ahead
    <3> QED
      BY <1>1, <1>3, <2>1, <3>3
  <2> QED
    BY <2>2, <2>3
<1> QED
  BY <1>1, <1>2, <1>3, <1>4, ReturnInv DEF Recover

\* drain() ends: less than a frame is left, and no complete one is in it.
LEMMA EndDrainInv == IInv /\ EndDrain => IInv'
<1> SUFFICES ASSUME IInv, EndDrain PROVE IInv'
  OBVIOUS
<1> USE DEF IInv
<1>a. /\ ~HasHeader(scan) \/ (Waiting(scan) /\ Ahead = {})
      /\ start' = scan /\ draining' = FALSE
      /\ UNCHANGED <<wire, fed, scan, frames, dropped, idle, sinceTick>>
  BY DEF EndDrain
<1>0. /\ scan \in Nat /\ fed \in Nat /\ start \in Nat
      /\ start <= scan /\ scan <= fed /\ fed <= Len(wire)
  BY Constants DEF TypeOK
<1>1. TypeOK'
  <2>1. start' \in 0..fed' /\ scan' \in start'..fed' /\ fed' \in 0..Len(wire')
    BY <1>a, <1>0
  <2> QED
    BY <1>a, <2>1 DEF TypeOK
<1>2. FramesInOrder' /\ AllHandled'
  BY <1>a DEF FramesInOrder, AllHandled, Handled, Framed, Overlap
<1>3. NothingWaits'
  <2> SUFFICES ASSUME NEW d \in Spans, Framed(d), d.to <= fed, ~(d.from < scan)
               PROVE  FALSE
    BY <1>a DEF NothingWaits, Framed
  <2>1. d.from \in Nat /\ FrameAt(d.from) /\ d.from + MinFrame <= d.to /\ d.to \in Nat
    BY FramedIsAccepted
  <2>2. HasHeader(scan)
    BY <1>0, <2>1, Constants DEF HasHeader
  <2>3. d.from # scan
    BY <1>a, <2>1, <2>2 DEF FrameAt, Waiting
  <2>4. d.from \in scan+1..fed
    BY <1>0, <2>1, <2>3, Constants
  <2> QED
    BY <1>a, <2>1, <2>2, <2>4 DEF Ahead
<1>4. Short'
  <2>1. CASE ~HasHeader(scan)
    BY <1>a, <1>0, <2>1, Constants DEF HasHeader, Short
  <2>2. CASE Waiting(scan)
    BY <1>a, <1>0, <2>2, LengthByte, Constants DEF Waiting, LengthOk, Complete, Short
  <2> QED
    BY <1>a, <2>1, <2>2
<1>5. Fresh'
  BY <1>a, <1>0 DEF Fresh
<1> QED
  BY <1>1, <1>2, <1>3, <1>4, <1>5

\* Discarding the window settles what begins in it.
LEMMA DiscardInv ==
  ASSUME IInv, ~draining, Discard, UNCHANGED <<wire, fed, draining, frames, idle>>,
         sinceTick' \in 0..TickPeriod
  PROVE  IInv'
<1> USE DEF IInv, Discard
<1>0. /\ scan \in Nat /\ fed \in Nat /\ start \in Nat
      /\ start <= scan /\ scan <= fed
  BY DEF TypeOK
<1>1. TypeOK'
  <2>1. [from |-> start, to |-> fed] \in Spans
    BY <1>0 DEF Spans
  <2>2. dropped' \in SUBSET Spans
    BY <2>1 DEF TypeOK
  <2>3. start' \in 0..fed' /\ scan' \in start'..fed'
    BY <1>0
  <2> QED
    BY <2>2, <2>3 DEF TypeOK
<1>2. FramesInOrder'
  <2>1. \A i \in DOMAIN frames : frames[i].to \in Nat
    BY FramesAreSpans
  <2> QED
    BY <1>0, <2>1 DEF FramesInOrder, Framed
<1>3. AllHandled'
  <2> SUFFICES ASSUME NEW d \in Spans, Framed(d), d.from < fed PROVE Handled(d)'
    BY DEF AllHandled, Framed
  <2>1. CASE d.from < scan
    BY <2>1 DEF AllHandled, Handled, Overlap
  <2>2. CASE ~(d.from < scan)
    <3>1. /\ [from |-> start, to |-> fed] \in dropped'
          /\ start <= d.from /\ d.from < fed
      BY <1>0, <2>2 DEF Spans
    <3> QED
      BY <3>1 DEF Handled
  <2> QED
    BY <2>1, <2>2
<1>4. NothingWaits'
  <2> SUFFICES ASSUME NEW d \in Spans, Framed(d), d.to <= fed PROVE d.from < fed
    BY DEF NothingWaits, Framed
  <2> QED
    BY <1>0, Constants DEF Framed, Measured, Spans
<1>5. Short' /\ Fresh'
  BY <1>0, Constants DEF Short, Fresh
<1> QED
  BY <1>1, <1>2, <1>3, <1>4, <1>5

\* Steps that only move the clocks.
LEMMA ClockInv ==
  ASSUME IInv, UNCHANGED <<wire, start, fed, scan, draining, frames, dropped>>,
         idle' \in 0..MaxIdle, sinceTick' \in 0..TickPeriod, Fresh'
  PROVE  IInv'
<1> USE DEF IInv
<1>1. TypeOK'
  BY DEF TypeOK
<1>2. FramesInOrder' /\ AllHandled'
  BY DEF FramesInOrder, AllHandled, Handled, Framed, Overlap
<1>3. NothingWaits'
  BY DEF NothingWaits, Framed
<1>4. Short'
  BY DEF Short
<1> QED
  BY <1>1, <1>2, <1>3, <1>4

\* tickTimeout() discards an expired window or leaves all as it is.
LEMMA TickInv == IInv /\ Tick => IInv'
<1> SUFFICES ASSUME IInv, Tick PROVE IInv'
  OBVIOUS
<1>1. sinceTick' \in 0..TickPeriod
  BY Constants DEF Tick
<1>2. CASE Expired /\ Discard
  BY <1>1, <1>2, DiscardInv DEF Tick
<1>3. CASE ~Expired /\ UNCHANGED <<start, scan, dropped>>
  <2>1. idle' = idle /\ idle \in 0..MaxIdle
    BY DEF Tick, IInv, TypeOK
  <2>2. Fresh'
    BY <1>3, Constants DEF Tick, IInv, TypeOK, Fresh, Expired, Buffered
  <2> QED
    BY <1>1, <1>3, <2>1, <2>2, ClockInv DEF Tick
<1> QED
  BY <1>2, <1>3 DEF Tick

\* reset() discards the window.
LEMMA ResetInv == IInv /\ Reset => IInv'
<1> SUFFICES ASSUME IInv, Reset PROVE IInv'
  OBVIOUS
<1>1. sinceTick' \in 0..TickPeriod
  BY DEF Reset, IInv, TypeOK
<1> QED
  BY <1>1, DiscardInv DEF Reset

\* Time passes for the window and for the interval alike.
LEMMA ElapseInv == IInv /\ Elapse => IInv'
<1> SUFFICES ASSUME IInv, Elapse PROVE IInv'
  OBVIOUS
<1>1. idle' \in 0..MaxIdle /\ sinceTick' \in 0..TickPeriod
  BY Constants DEF Elapse, IInv, TypeOK
<1>2. Fresh'
  BY Constants DEF Elapse, IInv, TypeOK, Fresh
<1> QED
  BY <1>1, <1>2, ClockInv DEF Elapse

-----------------------------------------------------------------------------
\* Every step of the decoder keeps the inductive invariant.
LEMMA NextInv == IInv /\ [Next]_vars => IInv'
<1> SUFFICES ASSUME IInv, [Next]_vars PROVE IInv'
  OBVIOUS
<1>1. ASSUME NEW n \in 1..MaxChunkBytes, Feed(n) PROVE IInv'
  BY <1>1, FeedInv
<1>2. CASE SkipByte \/ Accept \/ Recover \/ EndDrain
  BY <1>2, SkipByteInv, AcceptInv, RecoverInv, EndDrainInv
<1>3. CASE Tick \/ Reset \/ Elapse
  BY <1>3, TickInv, ResetInv, ElapseInv
<1>4. CASE UNCHANGED vars
  <2>1. idle' \in 0..MaxIdle /\ sinceTick' \in 0..TickPeriod /\ Fresh'
    BY <1>4 DEF vars, IInv, TypeOK, Fresh
  <2> QED
    BY <1>4, <2>1, ClockInv DEF vars
<1> QED
  BY <1>1, <1>2, <1>3, <1>4 DEF Next

\* The invariant holds throughout.
THEOREM Invariance == Spec => []IInv
BY InitInv, NextInv, PTL DEF Spec

\* The window stays inside the wire and the position inside the window.
THEOREM TypeCorrect == Spec => []TypeOK
<1>1. IInv => TypeOK
  BY DEF IInv
<1> QED
  BY Invariance, <1>1, PTL

\* The decoder never holds back as much as one longest frame.
THEOREM BufferIsBounded == Spec => []BufferBounded
<1>1. IInv => BufferBounded
  BY Constants DEF IInv, TypeOK, Short, BufferBounded, Buffered
<1> QED
  BY Invariance, <1>1, PTL

\* What the decoder returns are disjoint valid frames, in wire order.
THEOREM SoundFrames == Spec => []FramesAreSound
<1>1. IInv => FramesAreSound
  <2> SUFFICES ASSUME IInv PROVE FramesAreSound
    OBVIOUS
  <2>1. \A i \in DOMAIN frames : frames[i].to \in Nat
    BY FramesAreSpans DEF IInv
  <2> QED
    BY <2>1 DEF IInv, TypeOK, FramesInOrder, FramesAreSound
<1> QED
  BY Invariance, <1>1, PTL

\* Resynchronisation loses no valid frame, whatever surrounds it.
THEOREM NothingMissed == Spec => []NoFrameIsMissed
<1>1. IInv => NoFrameIsMissed
  <2> SUFFICES ASSUME IInv, ~draining, NEW d \in [from : 0..fed, to : 0..fed], Framed(d)
               PROVE  Handled(d)
    BY DEF NoFrameIsMissed, Handled
  <2>1. d \in Spans /\ d.to <= fed
    <3>1. fed \in Nat
      BY Constants DEF IInv, TypeOK
    <3> QED
      BY <3>1 DEF Spans
  <2>2. d.from < scan
    BY <2>1 DEF IInv, NothingWaits
  <2> QED
    BY <2>1, <2>2 DEF IInv, AllHandled
<1> QED
  BY Invariance, <1>1, PTL

\* A partial frame is discarded within one tick after its timeout.
THEOREM StaleBytesGo == Spec => []StaleBytesAreShortLived
<1>1. IInv => StaleBytesAreShortLived
  BY Constants DEF IInv, TypeOK, Fresh, StaleBytesAreShortLived, Buffered
<1> QED
  BY Invariance, <1>1, PTL

=============================================================================
