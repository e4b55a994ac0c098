----------------------------- MODULE FrameStream -----------------------------
(***************************************************************************)
(* The streaming frame decoders: FrameStream of ikbus-protocol and         *)
(* DBusFrameStream of dbus-protocol.  They are one algorithm with two      *)
(* meanings of the LEN byte: on the I/K-bus the frame has LEN + 2 bytes,   *)
(* on the D-bus LEN bytes (LenBias), and two ranges of frame lengths.      *)
(*                                                                         *)
(* `wire` is everything that will arrive.  The `buffer` field is the       *)
(* window of it from offset `start` to offset `fed`: concat() moves the    *)
(* end of the window, slice() its beginning.  Offsets count from zero, as  *)
(* in the code.  Each iteration of the loop in drain() is a step, so that  *)
(* what the loop keeps can be stated; feed() is not interrupted.           *)
(***************************************************************************)
EXTENDS Naturals, Sequences, FiniteSets

CONSTANTS
  Wires,          \* the byte sequences that may arrive
  MinFrame,       \* least total length of a frame
  MaxFrame,       \* greatest total length of a frame
  LenBias,        \* total length minus LEN byte
  Checksum(_),    \* the XOR of a sequence of bytes
  MaxChunkBytes,  \* bound: bytes of one chunk
  IdleTimeout,    \* idleTimeoutMs, in units of time
  TickPeriod,     \* the bus calls tickTimeout() this often
  MaxIdle,        \* bound: longest silence observed
  MaxResets       \* bound: reset() is called while fewer windows are dropped

ASSUME WiresAssumption    == Wires \subseteq Seq(Nat)
ASSUME LengthsAssumption  == /\ MinFrame \in Nat /\ MinFrame >= 2
                             /\ MaxFrame \in Nat /\ MinFrame <= MaxFrame
                             /\ LenBias \in Nat
ASSUME ChunkAssumption    == MaxChunkBytes \in Nat
ASSUME TimesAssumption    == /\ IdleTimeout \in Nat
                             /\ TickPeriod \in Nat
                             /\ MaxIdle \in Nat
ASSUME ResetsAssumption   == MaxResets \in Nat

VARIABLES
  wire,       \* the bytes of this behaviour
  start,      \* offset of the first byte in `buffer`
  fed,        \* offset behind the last byte received
  scan,       \* drain()'s `scan`, as an offset of the wire
  draining,   \* drain() is running
  frames,     \* the frames returned so far, oldest first
  dropped,    \* the windows discarded by tickTimeout() and reset()
  idle,       \* time since `lastByteAt`
  sinceTick   \* time since the last tickTimeout()

vars == <<wire, start, fed, scan, draining, frames, dropped, idle, sinceTick>>

Spans == [from : Nat, to : Nat]

TypeOK ==
  /\ wire \in Wires
  /\ fed \in 0..Len(wire)
  /\ start \in 0..fed
  /\ scan \in start..fed
  /\ draining \in BOOLEAN
  /\ frames \in Seq(Spans)
  /\ dropped \in SUBSET Spans
  /\ idle \in 0..MaxIdle
  /\ sinceTick \in 0..TickPeriod

Init ==
  /\ wire \in Wires
  /\ start = 0
  /\ fed = 0
  /\ scan = 0
  /\ draining = FALSE
  /\ frames = <<>>
  /\ dropped = {}
  /\ idle = 0
  /\ sinceTick = 0

Buffered == fed - start

-----------------------------------------------------------------------------
(***************************************************************************)
(* The tests of drain(), findValidFrameFrom() and decode().                *)
(***************************************************************************)
Total(s) == wire[s + 2] + LenBias

NoUpperBound(s) == Total(s) >= MinFrame  \* a bug: LEN may be anything large

LengthOk(s) == Total(s) \in MinFrame..MaxFrame

Unchecked(s) == TRUE                     \* a bug: the checksum is not compared

ChecksumOk(s) == Checksum(SubSeq(wire, s + 1, s + Total(s) - 1)) = wire[s + Total(s)]

HasHeader(s) == s + MinFrame <= fed
Complete(s)  == s + Total(s) <= fed

\* A complete, valid frame starts at s.
FrameAt(s) == HasHeader(s) /\ LengthOk(s) /\ Complete(s) /\ ChecksumOk(s)

Span(s) == [from |-> s, to |-> s + Total(s)]

-----------------------------------------------------------------------------
(***************************************************************************)
(* feed() and the iterations of drain().                                   *)
(***************************************************************************)
Feed(n) ==
  /\ ~draining
  /\ fed + n <= Len(wire)
  /\ fed' = fed + n
  /\ idle' = 0
  /\ draining' = TRUE
  /\ UNCHANGED <<wire, start, scan, frames, dropped, sinceTick>>

\* The byte at scan starts no frame: the length is out of range, or the
\* frame is complete and decode() throws.
SkipByte ==
  /\ draining
  /\ HasHeader(scan)
  /\ \/ ~LengthOk(scan)
     \/ LengthOk(scan) /\ Complete(scan) /\ ~ChecksumOk(scan)
  /\ scan' = scan + 1
  /\ UNCHANGED <<wire, start, fed, draining, frames, dropped, idle, sinceTick>>

Return(s) ==
  /\ frames' = Append(frames, Span(s))
  /\ scan' = Span(s).to
  /\ UNCHANGED <<wire, start, fed, draining, dropped, idle, sinceTick>>

Accept ==
  /\ draining
  /\ FrameAt(scan)
  /\ Return(scan)

\* The frame at scan is incomplete.
Waiting(s) == HasHeader(s) /\ LengthOk(s) /\ ~Complete(s)

NoLookahead == {}                        \* a bug: break instead of scanning on

\* findValidFrameFrom(scan + 1): complete frames further on.
Ahead == {s \in scan+1..fed : FrameAt(s)}

Recover ==
  /\ draining
  /\ Waiting(scan)
  /\ \E s \in Ahead :
       /\ \A t \in Ahead : s <= t
       /\ Return(s)

EndDrain ==
  /\ draining
  /\ ~HasHeader(scan) \/ (Waiting(scan) /\ Ahead = {})
  /\ start' = scan
  /\ draining' = FALSE
  /\ UNCHANGED <<wire, fed, scan, frames, dropped, idle, sinceTick>>

-----------------------------------------------------------------------------
(***************************************************************************)
(* The idle timeout.                                                       *)
(***************************************************************************)
Discard ==
  /\ start' = fed
  /\ scan' = fed
  /\ dropped' = dropped \cup {[from |-> start, to |-> fed]}

SlowExpiry == Buffered > 1 /\ idle > IdleTimeout   \* a bug: a lone byte stays

Expired == Buffered > 0 /\ idle > IdleTimeout

\* The bus's interval calls tickTimeout().
Tick ==
  /\ ~draining
  /\ sinceTick' = 0
  /\ \/ Expired /\ Discard
     \/ ~Expired /\ UNCHANGED <<start, scan, dropped>>
  /\ UNCHANGED <<wire, fed, draining, frames, idle>>

Reset ==
  /\ ~draining
  /\ Buffered > 0
  /\ Cardinality(dropped) < MaxResets
  /\ Discard
  /\ UNCHANGED <<wire, fed, draining, frames, idle, sinceTick>>

\* Time passes, but not beyond the moment the interval is due.
Elapse ==
  /\ ~draining
  /\ idle < MaxIdle
  /\ sinceTick < TickPeriod
  /\ idle' = idle + 1
  /\ sinceTick' = sinceTick + 1
  /\ UNCHANGED <<wire, start, fed, scan, draining, frames, dropped>>

-----------------------------------------------------------------------------
Next ==
  \/ \E n \in 1..MaxChunkBytes : Feed(n)
  \/ SkipByte \/ Accept \/ Recover \/ EndDrain
  \/ Tick \/ Reset \/ Elapse

Spec == Init /\ [][Next]_vars

-----------------------------------------------------------------------------
(***************************************************************************)
(* Properties.                                                             *)
(***************************************************************************)

\* Whatever arrives, less than one longest frame is kept between chunks.
BufferBounded == ~draining => Buffered < MaxFrame

\* The protocol's framing: LEN says how many bytes, the last one is the XOR
\* of the others.
Measured(w, d) ==
  /\ d.to <= Len(w)
  /\ d.from + MinFrame <= d.to
  /\ d.to <= d.from + MaxFrame
  /\ d.from + w[d.from + 2] + LenBias = d.to

Summed(w, d) == w[d.to] = Checksum(SubSeq(w, d.from + 1, d.to - 1))

Framed(d) == Measured(wire, d) /\ Summed(wire, d)

\* Frames come out in wire order, no byte belongs to two of them, and each
\* one is complete and valid where it was found.
FramesAreSound ==
  /\ \A i, j \in DOMAIN frames : i < j => frames[i].to <= frames[j].from
  /\ \A i \in DOMAIN frames : Framed(frames[i]) /\ frames[i].to <= fed

Overlap(d, e) == d.from < e.to /\ e.from < d.to

\* "Resynchronise at the next valid frame boundary" (stream.ts:16-18): when a
\* chunk is done, every valid frame that arrived was returned, unless bytes of
\* it went into a returned frame or its beginning was discarded by the idle
\* timeout or reset() - whatever garbage surrounds it and however it was cut
\* into chunks.
NoFrameIsMissed ==
  ~draining =>
    \A d \in [from : 0..fed, to : 0..fed] : Framed(d) =>
      \/ \E i \in DOMAIN frames : frames[i] = d \/ Overlap(frames[i], d)
      \/ \E e \in dropped : e.from <= d.from /\ d.from < e.to

\* Between two ticks a partial frame outlives the idle timeout by at most one
\* period (ikbus.ts:83-85).
StaleBytesAreShortLived ==
  Buffered > 0 /\ ~draining => idle <= IdleTimeout + TickPeriod

=============================================================================
