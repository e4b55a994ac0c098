---------------------------- MODULE TwinsProofs -----------------------------
(***************************************************************************)
(* Proofs about the dispatch and the twins that mirror the bus, for every  *)
(* set of devices and frames, every choice of addresses, whatever parsers  *)
(* refuse and whatever is registered, enabled or disabled between the      *)
(* iterations of the loop; and about the shells, whose controls put frames *)
(* on the bus that come back as echoes.                                    *)
(***************************************************************************)
EXTENDS Controls, FiniteSetTheorems, TLAPS

-----------------------------------------------------------------------------
(***************************************************************************)
(* The dispatch.                                                           *)
(*                                                                         *)
(* What the two properties lack to be inductive: a frame number equal to   *)
(* `current` is only in the logs of devices the loop has passed (Logged),  *)
(* a device is in the list once (NoDuplicates), the bus is never idle in   *)
(* the middle of the list, and a device in `steady` is enabled.            *)
(***************************************************************************)
NoDuplicates == \A i, j \in DOMAIN registry : registry[i] = registry[j] => i = j

Logged ==
  \A d \in Devices : \A i \in DOMAIN log[d] :
    \/ log[d][i] < current
    \/ /\ log[d][i] = current
       /\ \E k \in DOMAIN registry : k < position /\ registry[k] = d

IdleAtHead == Idle => position = 0

SteadyIsEnabled == \A d \in steady : Enabled(d)

IInv ==
  /\ DispatchTypeOK
  /\ NoDuplicates
  /\ Logged
  /\ IdleAtHead
  /\ SteadyIsEnabled
  /\ InWireOrder
  /\ NoFrameSkipped

-----------------------------------------------------------------------------
LEMMA InitInv == DispatchInit => IInv
<1> SUFFICES ASSUME DispatchInit PROVE IInv
  OBVIOUS
<1> USE DEF DispatchInit
<1>1. registry \in Seq(Devices)
  BY PreregisteredAssumption
<1>2. DispatchTypeOK
  BY <1>1 DEF DispatchTypeOK, Modes
<1>3. NoDuplicates
  BY PreregisteredAssumption DEF NoDuplicates
<1>4. Logged /\ InWireOrder
  BY DEF Logged, InWireOrder
<1>5. IdleAtHead /\ SteadyIsEnabled
  BY DEF IdleAtHead, SteadyIsEnabled
<1>6. NoFrameSkipped
  BY <1>1 DEF NoFrameSkipped
<1> QED
  BY <1>2, <1>3, <1>4, <1>5, <1>6 DEF IInv

\* A device that registers is the last in the list, where the loop has not been.
LEMMA RegisterInv ==
  ASSUME IInv, NEW d \in Devices, Register(d)
  PROVE  IInv'
<1> USE DEF IInv, Register
<1>0. /\ registry \in Seq(Devices) /\ registry' = Append(registry, d)
      /\ position \in 0..(Len(registry) + 1)
      /\ Len(registry') = Len(registry) + 1
      /\ \A i \in DOMAIN registry : i \in DOMAIN registry' /\ registry'[i] = registry[i]
      /\ \A i \in DOMAIN registry' : i \in DOMAIN registry \/ (i = Len(registry) + 1 /\ registry'[i] = d)
  BY DEF DispatchTypeOK
<1>1. DispatchTypeOK'
  BY <1>0 DEF DispatchTypeOK
<1>2. NoDuplicates'
  BY <1>0 DEF NoDuplicates, Registered
<1>3. Logged'
  BY <1>0 DEF Logged
<1>4. IdleAtHead' /\ SteadyIsEnabled' /\ InWireOrder'
  BY DEF IdleAtHead, SteadyIsEnabled, InWireOrder, Idle, Enabled
<1>5. NoFrameSkipped'
  <2> SUFFICES ASSUME NEW i \in DOMAIN registry', i < position, registry'[i] \in steady,
                      Interested(registry'[i], wire[current])
               PROVE  /\ log[registry'[i]] # <<>>
                      /\ log[registry'[i]][Len(log[registry'[i]])] = current
    BY DEF NoFrameSkipped, Interested
  <2>1. i \in DOMAIN registry /\ registry'[i] = registry[i]
    BY <1>0
  <2> QED
    BY <2>1 DEF NoFrameSkipped
<1> QED
  BY <1>1, <1>2, <1>3, <1>4, <1>5

LEMMA SetModesInv ==
  ASSUME IInv, NEW next \in [Devices -> Modes], SetModes(next)
  PROVE  IInv'
<1> USE DEF IInv, SetModes
<1>1. DispatchTypeOK'
  BY DEF DispatchTypeOK
<1>2. SteadyIsEnabled'
  BY DEF SteadyIsEnabled, Enabled
<1>3. NoDuplicates' /\ Logged' /\ IdleAtHead' /\ InWireOrder'
  BY DEF NoDuplicates, Logged, IdleAtHead, Idle, InWireOrder
<1>4. NoFrameSkipped'
  BY DEF NoFrameSkipped, Interested
<1> QED
  BY <1>1, <1>2, <1>3, <1>4

\* Chunks come when the bus is idle, at the head of the list.
LEMMA ReceiveInv ==
  ASSUME IInv, NEW chunk \in Seq(Frames), Receive(chunk)
  PROVE  IInv'
<1> USE DEF IInv, Receive
<1>0. position = 0 /\ Len(wire') = Len(wire) + Len(chunk) /\ wire' \in Seq(Frames)
  BY DEF DispatchTypeOK, IdleAtHead
<1>1. DispatchTypeOK'
  BY <1>0 DEF DispatchTypeOK
<1>2. NoDuplicates' /\ Logged' /\ IdleAtHead' /\ SteadyIsEnabled' /\ InWireOrder'
  BY <1>0 DEF NoDuplicates, Logged, IdleAtHead, SteadyIsEnabled, Enabled, InWireOrder
<1>3. NoFrameSkipped'
  BY <1>0 DEF NoFrameSkipped, DispatchTypeOK
<1> QED
  BY <1>1, <1>2, <1>3

LEMMA EmitFrameInv ==
  ASSUME IInv, EmitFrame
  PROVE  IInv'
<1> USE DEF IInv, EmitFrame
<1>1. DispatchTypeOK'
  BY DEF DispatchTypeOK, Registered
<1>2. SteadyIsEnabled'
  BY DEF SteadyIsEnabled, Enabled
<1>3. NoDuplicates' /\ IdleAtHead' /\ InWireOrder'
  BY DEF NoDuplicates, IdleAtHead, Idle, InWireOrder
<1>4. Logged'
  BY DEF Logged, DispatchTypeOK
<1>5. NoFrameSkipped'
  BY DEF NoFrameSkipped, DispatchTypeOK
<1> QED
  BY <1>1, <1>2, <1>3, <1>4, <1>5

\* A device that is passed over is not enabled, so not in `steady`, or the
\* frame does not concern it.
LEMMA SkipInv ==
  ASSUME IInv, NEW d \in Devices, Skip(d)
  PROVE  IInv'
<1> USE DEF IInv, Skip, Continue
<1>0. position \in DOMAIN registry /\ registry[position] = d /\ position \in Nat
  BY DEF At, DispatchTypeOK
<1>1. DispatchTypeOK'
  BY <1>0, SMTT(30) DEF DispatchTypeOK
<1>2. NoDuplicates' /\ SteadyIsEnabled' /\ InWireOrder'
  BY DEF NoDuplicates, SteadyIsEnabled, Enabled, InWireOrder
<1>3. Logged'
  BY <1>0 DEF Logged, DispatchTypeOK
<1>4. IdleAtHead'
  BY <1>0 DEF IdleAtHead, Idle, DispatchTypeOK
<1>5. NoFrameSkipped'
  <2> SUFFICES ASSUME NEW i \in DOMAIN registry, i < position + 1, registry[i] \in steady,
                      Interested(registry[i], wire[current])
               PROVE  /\ log[registry[i]] # <<>>
                      /\ log[registry[i]][Len(log[registry[i]])] = current
    BY DEF NoFrameSkipped, Interested
  <2>1. i # position
    BY <1>0 DEF SteadyIsEnabled
  <2>2. i < position
    BY <1>0, <2>1 DEF DispatchTypeOK
  <2> QED
    BY <2>2 DEF NoFrameSkipped
<1> QED
  BY <1>1, <1>2, <1>3, <1>4, <1>5

\* The device at the loop's position has not logged the frame yet, so that its
\* log grows by a larger number.
LEMMA HandleInv ==
  ASSUME IInv, NEW d \in Devices, Handle(d), position' = position + 1,
         errors' \in SUBSET (Nat \X Devices)
  PROVE  IInv'
<1> USE DEF IInv, Handle
<1>0. /\ position \in DOMAIN registry /\ registry[position] = d /\ position \in Nat
      /\ log[d] \in Seq(Nat) /\ current \in Nat
      /\ log' = [log EXCEPT ![d] = Append(log[d], current)]
  BY DEF At, DispatchTypeOK
<1>a. /\ log'[d] = Append(log[d], current)
      /\ \A e \in Devices : e # d => log'[e] = log[e]
  BY <1>0 DEF DispatchTypeOK
<1>b. /\ Len(log'[d]) = Len(log[d]) + 1 /\ log'[d] # <<>>
      /\ log'[d][Len(log[d]) + 1] = current
      /\ \A i \in DOMAIN log[d] : log'[d][i] = log[d][i]
      /\ \A i \in DOMAIN log'[d] : i \in DOMAIN log[d] \/ i = Len(log[d]) + 1
  BY <1>0, <1>a, SMTT(30)
<1>1. DispatchTypeOK'
  BY <1>0, <1>a, SMTT(30) DEF DispatchTypeOK
<1>2. NoDuplicates' /\ SteadyIsEnabled'
  BY DEF NoDuplicates, SteadyIsEnabled, Enabled
<1>3. IdleAtHead'
  BY <1>0 DEF IdleAtHead, Idle, DispatchTypeOK
<1>4. Logged'
  <2> SUFFICES ASSUME NEW e \in Devices, NEW i \in DOMAIN log'[e]
               PROVE  \/ log'[e][i] < current
                      \/ /\ log'[e][i] = current
                         /\ \E k \in DOMAIN registry : k < position + 1 /\ registry[k] = e
    BY DEF Logged
  <2>1. CASE e = d /\ i = Len(log[d]) + 1
    BY <1>0, <1>b, <2>1
  <2>2. CASE i \in DOMAIN log[e] /\ log'[e][i] = log[e][i]
    BY <1>0, <2>2, SMTT(30) DEF Logged, DispatchTypeOK
  <2> QED
    BY <1>a, <1>b, <2>1, <2>2
<1>5. \A i \in DOMAIN log[d] : log[d][i] < current
  BY <1>0 DEF Logged, NoDuplicates, DispatchTypeOK
<1>6. InWireOrder'
  <2> SUFFICES ASSUME NEW e \in Devices, NEW i \in DOMAIN log'[e], NEW j \in DOMAIN log'[e],
                      i < j
               PROVE  log'[e][i] < log'[e][j]
    BY DEF InWireOrder
  <2>1. CASE e # d
    BY <1>a, <2>1 DEF InWireOrder
  <2>2. CASE e = d /\ j = Len(log[d]) + 1
    BY <1>0, <1>b, <1>5, <2>2
  <2>3. CASE e = d /\ i \in DOMAIN log[d] /\ j \in DOMAIN log[d]
    BY <1>b, <2>3 DEF InWireOrder
  <2> QED
    BY <1>0, <1>b, <2>1, <2>2, <2>3
<1>7. NoFrameSkipped'
  <2> SUFFICES ASSUME NEW i \in DOMAIN registry, i < position + 1, registry[i] \in steady,
                      Interested(registry[i], wire[current])
               PROVE  /\ log'[registry[i]] # <<>>
                      /\ log'[registry[i]][Len(log'[registry[i]])] = current
    BY DEF NoFrameSkipped, Interested
  <2>1. CASE i = position
    BY <1>0, <1>b, <2>1
  <2>2. CASE i < position
    <3>1. registry[i] # d /\ registry[i] \in Devices
      BY <1>0, <2>2 DEF NoDuplicates, DispatchTypeOK
    <3> QED
      BY <1>a, <2>2, <3>1 DEF NoFrameSkipped
  <2> QED
    BY <1>0, <2>1, <2>2, SMTT(30) DEF DispatchTypeOK
<1> QED
  BY <1>1, <1>2, <1>3, <1>4, <1>6, <1>7

LEMMA EndFrameInv ==
  ASSUME IInv, EndFrame
  PROVE  IInv'
<1> USE DEF IInv, EndFrame, NextFrame
<1>0. /\ current \in Nat /\ position \in Nat /\ current' = current + 1 /\ position' = 0
      /\ Len(wire) \in Nat /\ current <= Len(wire)
      /\ wire' = wire /\ registry' = registry /\ log' = log /\ log \in [Devices -> Seq(Nat)]
  BY DEF DispatchTypeOK, Idle
<1>1. DispatchTypeOK'
  <2>1. current' \in 1..(Len(wire') + 1) /\ position' \in 0..(Len(registry') + 1)
    BY <1>0 DEF DispatchTypeOK
  <2> QED
    BY <1>0, <2>1 DEF DispatchTypeOK
<1>2. NoDuplicates' /\ SteadyIsEnabled' /\ InWireOrder' /\ IdleAtHead'
  BY DEF NoDuplicates, SteadyIsEnabled, Enabled, InWireOrder, IdleAtHead
<1>3. Logged'
  <2>1. ASSUME NEW d \in Devices, NEW i \in DOMAIN log[d]
        PROVE  log[d][i] < current + 1
    <3>1. log[d] \in Seq(Nat)
      BY <1>0
    <3>2. log[d][i] < current \/ log[d][i] = current
      BY DEF Logged
    <3> QED
      BY <1>0, <3>1, <3>2
  <2> QED
    BY <1>0, <2>1, Zenon DEF Logged
<1>4. NoFrameSkipped'
  BY <1>0 DEF NoFrameSkipped, DispatchTypeOK
<1> QED
  BY <1>1, <1>2, <1>3, <1>4

LEMMA StepInv == IInv /\ [DispatchNext]_dispatch => IInv'
<1> SUFFICES ASSUME IInv, [DispatchNext]_dispatch PROVE IInv'
  OBVIOUS
<1>1. CASE EmitFrame
  BY <1>1, EmitFrameInv
<1>2. ASSUME NEW d \in Devices, Skip(d) PROVE IInv'
  BY <1>2, SkipInv
<1>3. ASSUME NEW d \in Devices, HandleReturns(d) PROVE IInv'
  BY <1>3, HandleInv DEF HandleReturns, IInv, DispatchTypeOK
<1>4. ASSUME NEW d \in Devices, HandleThrows(d) PROVE IInv'
  <2>1. errors' \in SUBSET (Nat \X Devices)
    BY <1>4 DEF HandleThrows, IInv, DispatchTypeOK
  <2> QED
    BY <1>4, <2>1, HandleInv DEF HandleThrows, NextDevice
<1>5. CASE EndFrame
  BY <1>5, EndFrameInv
<1>6. ASSUME NEW d \in Devices, Register(d) PROVE IInv'
  BY <1>6, RegisterInv
<1>7. ASSUME NEW next \in [Devices -> Modes], SetModes(next) PROVE IInv'
  BY <1>7, SetModesInv
<1>8. ASSUME NEW f \in Frames, Receive(<<f>>) PROVE IInv'
  <2>1. <<f>> \in Seq(Frames)
    OBVIOUS
  <2> QED
    BY <1>8, <2>1, ReceiveInv
<1>9. ASSUME NEW f \in Frames, NEW g \in Frames, Receive(<<f, g>>) PROVE IInv'
  <2>1. <<f, g>> \in Seq(Frames)
    OBVIOUS
  <2> QED
    BY <1>9, <2>1, ReceiveInv
<1>10. CASE UNCHANGED dispatch
  BY <1>10 DEF dispatch, IInv, DispatchTypeOK, NoDuplicates, Logged, IdleAtHead, Idle,
               SteadyIsEnabled, Enabled, InWireOrder, NoFrameSkipped, Interested
<1> QED
  BY <1>1, <1>2, <1>3, <1>4, <1>5, <1>6, <1>7, <1>8, <1>9, <1>10 DEF DispatchNext, Others, Loop

LEMMA Invariant == DispatchSpec => []IInv
<1> QED
  BY InitInv, StepInv, PTL DEF DispatchSpec

-----------------------------------------------------------------------------
\* The loop never misses a device: whatever devices throw and whatever is
\* registered, disabled or enabled while handlers run, every device that stays
\* registered and enabled has handled the frame when the loop is past it
\* (ikbus.ts:109-123).
THEOREM EveryDeviceIsServed == DispatchSpec => []NoFrameSkipped
<1>1. IInv => NoFrameSkipped
  BY DEF IInv
<1> QED
  BY <1>1, Invariant, PTL

\* No device handles a frame twice or after a later one (ikbus.ts:101-123).
THEOREM FramesComeInOrder == DispatchSpec => []InWireOrder
<1>1. IInv => InWireOrder
  BY DEF IInv
<1> QED
  BY <1>1, Invariant, PTL

-----------------------------------------------------------------------------
(***************************************************************************)
(* The twins.                                                              *)
(*                                                                         *)
(* ShowsNewest is about the moments between frames; what holds in every    *)
(* state is that a field is the newest of the readings, there being one.   *)
(* It rests on the invariant of the dispatch: a frame that is handled is   *)
(* newer than those the device has handled before.                         *)
(***************************************************************************)
IsNewest(i, R) == i \in R /\ \A j \in R : j <= i

LoggedIsReceived == \A d \in Devices : Range(log[d]) \subseteq DOMAIN wire

FieldsAreNewest ==
  \A d \in Devices : \A c \in Fields(d) :
    /\ Readings(d, c) = {} <=> <<d, c>> \notin DOMAIN mirror
    /\ Readings(d, c) # {} =>
         \E i : IsNewest(i, Readings(d, c)) /\ mirror[<<d, c>>] = wire[i].val

TwinInv == IInv /\ LoggedIsReceived /\ FieldsAreNewest

-----------------------------------------------------------------------------
LEMMA TwinsDispatch == [TwinNext]_twins => [DispatchNext]_dispatch
BY DEF TwinNext, TwinLoop, TwinHandles, Loop, DispatchNext, twins

LEMMA NewestIsOne ==
  ASSUME NEW R \in SUBSET Nat, NEW i, NEW k, IsNewest(i, R), IsNewest(k, R)
  PROVE  i = k
BY DEF IsNewest

\* A handled frame is a reading of the field of its command if it is mirrored.
LEMMA ReadingIsMirrored ==
  ASSUME NEW d \in Devices, NEW c \in Fields(d), NEW f
  PROVE  ( /\ f.cmd = c
           /\ IF f.src = Address[d] THEN c \in Outbound(Address[d])
              ELSE f.dst = Address[d] /\ c \in Inbound(Address[d]) )
         <=> f.cmd = c /\ Mirrors(d, f)
BY DEF Mirrors

LEMMA RangeOfAppend ==
  ASSUME NEW s \in Seq(Nat), NEW n \in Nat
  PROVE  Range(Append(s, n)) = Range(s) \cup {n} /\ Range(s) \subseteq Nat
<1>1. /\ Append(s, n) \in Seq(Nat) /\ Len(s) \in Nat
      /\ DOMAIN s = 1..Len(s) /\ DOMAIN Append(s, n) = 1..(Len(s) + 1)
      /\ \A i \in DOMAIN s : Append(s, n)[i] = s[i]
      /\ Append(s, n)[Len(s) + 1] = n
  OBVIOUS
<1>2. Len(s) + 1 \in DOMAIN Append(s, n) /\ DOMAIN s \subseteq DOMAIN Append(s, n)
  BY <1>1
<1>3. \A i \in DOMAIN Append(s, n) : i \in DOMAIN s \/ i = Len(s) + 1
  BY <1>1
<1>4. \A i \in DOMAIN s : s[i] \in Nat
  OBVIOUS
<1>5. Range(Append(s, n)) = Range(s) \cup {n}
  BY <1>1, <1>2, <1>3 DEF Range
<1> QED
  BY <1>4, <1>5 DEF Range

\* The readings are what was logged, as long as no received frame changes.
LEMMA SameReadings ==
  ASSUME LoggedIsReceived, NEW d \in Devices, NEW c, log'[d] = log[d],
         \A i \in DOMAIN wire : wire'[i] = wire[i]
  PROVE  Readings(d, c)' = Readings(d, c)
<1>1. \A i \in Range(log[d]) : wire'[i] = wire[i]
  BY DEF LoggedIsReceived
<1>2. Range(log[d])' = Range(log[d])
  BY DEF Range
<1> QED
  BY <1>1, <1>2 DEF Readings

-----------------------------------------------------------------------------
\* Nothing is handled: the mirrors and the readings stay.
LEMMA NothingHandled ==
  ASSUME TwinInv, log' = log, mirror' = mirror,
         DOMAIN wire \subseteq DOMAIN wire', \A i \in DOMAIN wire : wire'[i] = wire[i]
  PROVE  LoggedIsReceived' /\ FieldsAreNewest'
<1>1. LoggedIsReceived'
  BY DEF TwinInv, LoggedIsReceived
<1>2. ASSUME NEW d \in Devices, NEW c \in Fields(d)
      PROVE  /\ Readings(d, c)' = {} <=> <<d, c>> \notin DOMAIN mirror'
             /\ Readings(d, c)' # {} =>
                  \E i : IsNewest(i, Readings(d, c)') /\ mirror'[<<d, c>>] = wire'[i].val
  <2>1. Readings(d, c)' = Readings(d, c)
    BY SameReadings DEF TwinInv
  <2>2. \A i \in Readings(d, c) : wire'[i] = wire[i]
    BY DEF Readings, TwinInv, LoggedIsReceived
  <2> QED
    BY <2>1, <2>2 DEF TwinInv, FieldsAreNewest, IsNewest
<1>3. FieldsAreNewest'
  BY <1>2 DEF FieldsAreNewest, Fields, IsNewest
<1> QED
  BY <1>1, <1>3

\* What a device has handled before is older than the frame it handles.
LEMMA HandledIsOlder ==
  ASSUME IInv, LoggedIsReceived, NEW d \in Devices, Handle(d)
  PROVE  /\ current \in DOMAIN wire /\ current \in Nat
         /\ log[d] \in Seq(Nat)
         /\ \A i \in Range(log[d]) : i < current
         /\ log'[d] = Append(log[d], current)
         /\ \A e \in Devices : e # d => log'[e] = log[e]
         /\ wire' = wire
<1>0. /\ position \in DOMAIN registry /\ registry[position] = d
      /\ position \in 1..Len(registry)
      /\ log \in [Devices -> Seq(Nat)] /\ current \in Nat
      /\ log' = [log EXCEPT ![d] = Append(log[d], current)]
  BY DEF IInv, DispatchTypeOK, Handle, At
<1>1. current \in DOMAIN wire
  <2>1. ~Idle
    BY <1>0 DEF IInv, IdleAtHead
  <2> QED
    BY <2>1 DEF Idle, IInv, DispatchTypeOK
<1>2. \A i \in DOMAIN log[d] : log[d][i] < current
  BY <1>0 DEF Logged, NoDuplicates, IInv, DispatchTypeOK
<1>3. wire' = wire
  BY DEF Handle
<1> QED
  BY <1>0, <1>1, <1>2, <1>3 DEF Range

LEMMA HandledReadings ==
  ASSUME IInv, LoggedIsReceived, NEW d \in Devices, Handle(d)
  PROVE  \A c \in Fields(d) :
           Readings(d, c)' = IF /\ wire[current].cmd = c /\ Mirrors(d, wire[current])
                                /\ wire[current].ok
                             THEN Readings(d, c) \cup {current} ELSE Readings(d, c)
<1> DEFINE f == wire[current]
<1>a. wire' = wire
  BY HandledIsOlder
<1>b. Range(log'[d]) = Range(log[d]) \cup {current}
  BY HandledIsOlder, RangeOfAppend
<1> TAKE c \in Fields(d)
<1>1. Readings(d, c)' =
        { i \in Range(log'[d]) :
            /\ wire[i].cmd = c /\ wire[i].ok
            /\ IF wire[i].src = Address[d] THEN c \in Outbound(Address[d])
               ELSE wire[i].dst = Address[d] /\ c \in Inbound(Address[d]) }
  BY <1>a DEF Readings, Range
<1>2. ( /\ f.cmd = c /\ f.ok
        /\ IF f.src = Address[d] THEN c \in Outbound(Address[d])
           ELSE f.dst = Address[d] /\ c \in Inbound(Address[d]) )
      <=> f.cmd = c /\ Mirrors(d, f) /\ f.ok
  BY ReadingIsMirrored
<1> QED
  BY <1>b, <1>1, <1>2 DEF Readings

LEMMA HandledStep ==
  ASSUME TwinInv, NEW d \in Devices, TwinHandles(d)
  PROVE  LoggedIsReceived' /\ FieldsAreNewest'
<1> DEFINE f == wire[current]
<1>0. Handle(d) /\ IInv /\ LoggedIsReceived /\ FieldsAreNewest
  BY DEF TwinHandles, HandleReturns, HandleThrows, TwinInv
<1>1. /\ current \in DOMAIN wire /\ current \in Nat
      /\ log[d] \in Seq(Nat)
      /\ \A i \in Range(log[d]) : i < current
      /\ log'[d] = Append(log[d], current)
      /\ \A e \in Devices : e # d => log'[e] = log[e]
      /\ wire' = wire
  BY <1>0, HandledIsOlder
<1>2. Range(log'[d]) = Range(log[d]) \cup {current} /\ Range(log[d]) \subseteq Nat
  BY <1>1, RangeOfAppend
<1>3. LoggedIsReceived'
  <2>1. Range(log'[d]) \subseteq DOMAIN wire
    BY <1>0, <1>1, <1>2 DEF LoggedIsReceived
  <2> QED
    BY <1>0, <1>1, <2>1 DEF LoggedIsReceived
<1>4. IF Mirrors(d, f) /\ f.ok
      THEN Store(d, f) ELSE mirror' = mirror
  BY DEF TwinHandles
<1>5. \A c \in Fields(d) :
        Readings(d, c)' = IF f.cmd = c /\ Mirrors(d, f) /\ f.ok
                          THEN Readings(d, c) \cup {current} ELSE Readings(d, c)
  BY <1>0, HandledReadings
<1>6. ASSUME NEW e \in Devices, NEW c \in Fields(e)
      PROVE  /\ Readings(e, c)' = {} <=> <<e, c>> \notin DOMAIN mirror'
             /\ Readings(e, c)' # {} =>
                  \E i : IsNewest(i, Readings(e, c)') /\ mirror'[<<e, c>>] = wire[i].val
  <2>0. /\ Readings(e, c) = {} <=> <<e, c>> \notin DOMAIN mirror
        /\ Readings(e, c) # {} =>
             \E i : IsNewest(i, Readings(e, c)) /\ mirror[<<e, c>>] = wire[i].val
    BY <1>0 DEF FieldsAreNewest
  <2>1. CASE e = d /\ c = f.cmd /\ Mirrors(d, f) /\ f.ok
    <3>1. Readings(e, c)' = Readings(d, c) \cup {current}
      BY <1>5, <2>1
    <3>2. \A i \in Readings(d, c) : i < current /\ i \in Nat
      BY <1>1, <1>2 DEF Readings
    <3>3. IsNewest(current, Readings(e, c)')
      BY <1>1, <3>1, <3>2 DEF IsNewest
    <3>4. mirror'[<<e, c>>] = wire[current].val /\ <<e, c>> \in DOMAIN mirror'
      BY <1>4, <2>1 DEF Store
    <3> QED
      BY <3>1, <3>3, <3>4
  <2>2. CASE ~(e = d /\ c = f.cmd /\ Mirrors(d, f) /\ f.ok)
    <3>1. Readings(e, c)' = Readings(e, c)
      <4>1. CASE e = d
        BY <1>5, <2>2, <4>1
      <4>2. CASE e # d
        BY <1>0, <1>1, <4>2, SameReadings
      <4> QED
        BY <4>1, <4>2
    <3>2. /\ <<e, c>> \in DOMAIN mirror' <=> <<e, c>> \in DOMAIN mirror
          /\ <<e, c>> \in DOMAIN mirror => mirror'[<<e, c>>] = mirror[<<e, c>>]
      BY <1>4, <2>2 DEF Store
    <3> QED
      BY <2>0, <3>1, <3>2
  <2> QED
    BY <2>1, <2>2
<1>7. FieldsAreNewest'
  BY <1>1, <1>6 DEF FieldsAreNewest, Fields, IsNewest
<1> QED
  BY <1>3, <1>7

LEMMA TwinStepInv == TwinInv /\ [TwinNext]_twins => TwinInv'
<1> SUFFICES ASSUME TwinInv, [TwinNext]_twins PROVE TwinInv'
  OBVIOUS
<1>1. IInv'
  BY TwinsDispatch, StepInv DEF TwinInv
<1>2. ASSUME NEW d \in Devices, TwinHandles(d) PROVE TwinInv'
  BY <1>1, <1>2, HandledStep DEF TwinInv
<1>3. ASSUME UNCHANGED <<log, mirror, wire>> PROVE TwinInv'
  <2>1. LoggedIsReceived' /\ FieldsAreNewest'
    BY <1>3, NothingHandled
  <2> QED
    BY <1>1, <2>1 DEF TwinInv
<1>4. ASSUME NEW chunk \in Seq(Frames), Receive(chunk), UNCHANGED mirror PROVE TwinInv'
  <2>1. wire \in Seq(Frames) /\ wire' = wire \o chunk /\ log' = log
    BY <1>4 DEF Receive, TwinInv, IInv, DispatchTypeOK
  <2>2. DOMAIN wire \subseteq DOMAIN wire' /\ \A i \in DOMAIN wire : wire'[i] = wire[i]
    BY <2>1
  <2>3. LoggedIsReceived' /\ FieldsAreNewest'
    BY <1>4, <2>1, <2>2, NothingHandled
  <2> QED
    BY <1>1, <2>3 DEF TwinInv
<1>5. \A f \in Frames : <<f>> \in Seq(Frames)
  OBVIOUS
<1>6. \A f, g \in Frames : <<f, g>> \in Seq(Frames)
  OBVIOUS
<1>7. CASE Others /\ UNCHANGED mirror
  BY <1>3, <1>4, <1>5, <1>6, <1>7 DEF Others, Register, SetModes
<1>8. CASE TwinLoop
  BY <1>2, <1>3, <1>8 DEF TwinLoop, EmitFrame, EndFrame, Skip
<1>9. CASE UNCHANGED twins
  BY <1>3, <1>9 DEF twins, dispatch
<1> QED
  BY <1>7, <1>8, <1>9 DEF TwinNext

LEMMA TwinInitInv == Init => TwinInv
<1> SUFFICES ASSUME Init PROVE TwinInv
  OBVIOUS
<1>1. IInv
  BY InitInv DEF Init
<1>2. \A d \in Devices : Range(log[d]) = {}
  BY DEF Init, DispatchInit, Range
<1>3. \A d \in Devices : \A c : Readings(d, c) = {}
  BY <1>2 DEF Readings
<1>4. DOMAIN mirror = {}
  BY DEF Init
<1> QED
  BY <1>1, <1>2, <1>3, <1>4 DEF TwinInv, LoggedIsReceived, FieldsAreNewest

LEMMA TwinInvariant == TwinSpec => []TwinInv
BY TwinInitInv, TwinStepInv, PTL DEF TwinSpec

\* Every field shows the newest well-formed frame of its command that the twin
\* has handled, and nothing if there was none: malformed frames, other twins,
\* and the times a twin was disabled change nothing of that (the handle() of
\* every twin, e.g. ike.ts:232-330).
THEOREM TwinsShowNewest == TwinSpec => []ShowsNewest
<1>1. TwinInv => ShowsNewest
  <2> SUFFICES ASSUME TwinInv, NEW d \in Registered, NEW c \in Fields(d)
               PROVE  LET R == Readings(d, c) IN
                        IF R = {} THEN <<d, c>> \notin DOMAIN mirror
                        ELSE mirror[<<d, c>>] = wire[CHOOSE i \in R : \A j \in R : j <= i].val
    BY DEF ShowsNewest
  <2>1. d \in Devices
    BY DEF Registered, TwinInv, IInv, DispatchTypeOK
  <2>2. /\ Readings(d, c) = {} <=> <<d, c>> \notin DOMAIN mirror
        /\ Readings(d, c) # {} =>
             \E i : IsNewest(i, Readings(d, c)) /\ mirror[<<d, c>>] = wire[i].val
    BY <2>1 DEF TwinInv, FieldsAreNewest
  <2>3. CASE Readings(d, c) # {}
    <3>1. PICK i : IsNewest(i, Readings(d, c)) /\ mirror[<<d, c>>] = wire[i].val
      BY <2>2, <2>3
    <3> DEFINE k == CHOOSE n \in Readings(d, c) : \A j \in Readings(d, c) : j <= n
    <3>2. IsNewest(k, Readings(d, c))
      BY <3>1 DEF IsNewest
    <3>3. Readings(d, c) \in SUBSET Nat
      <4>1. log[d] \in Seq(Nat)
        BY <2>1 DEF TwinInv, IInv, DispatchTypeOK
      <4>2. \A n \in DOMAIN log[d] : log[d][n] \in Nat
        BY <4>1
      <4> QED
        BY <4>2 DEF Readings, Range
    <3>4. k = i
      BY <3>1, <3>2, <3>3, NewestIsOne
    <3> QED
      BY <2>3, <3>1, <3>4
  <2> QED
    BY <2>2, <2>3
<1> QED
  BY <1>1, TwinInvariant, PTL

-----------------------------------------------------------------------------
(***************************************************************************)
(* The Vehicle.  It has at most one cluster at a time to follow, because   *)
(* addresses are unique, and none has been heard before it is registered.  *)
(***************************************************************************)
AddressesAreUnique ==
  \A d, e \in Registered : Address[d] = Address[e] => d = e

StrangersAreSilent == \A d \in Devices \ Registered : log[d] = <<>>

IsCluster(d) == d \in Registered /\ Address[d] = "IKE"

ChangesChain ==
  \A i \in 1..Len(changes) :
    /\ changes[i].from # changes[i].to
    /\ changes[i].from = IF i = 1 THEN "OFF" ELSE changes[i - 1].to

Ends == vehicle.ignition = IF changes = <<>> THEN "OFF" ELSE changes[Len(changes)].to

IgnitionOf(d) ==
  IF <<d, "ignition">> \in DOMAIN mirror THEN mirror[<<d, "ignition">>] ELSE "OFF"

KnownAsIKI(d) == \E i \in Readings(d, "sensors") : wire[i].val = "IKI"

Follows ==
  /\ \A d \in Registered : IsCluster(d) =>
       vehicle.ignition = IgnitionOf(d) /\ (vehicle.iki <=> KnownAsIKI(d))
  /\ (\A d \in Registered : ~IsCluster(d)) => vehicle.ignition = "OFF" /\ ~vehicle.iki

VehicleInv ==
  /\ AddressesAreUnique /\ StrangersAreSilent
  /\ \E v, b : b \in BOOLEAN /\ vehicle = [ignition |-> v, iki |-> b]
  /\ \E V : changes \in Seq(V)
  /\ ChangesChain /\ Ends
  /\ Follows

LEMMA FieldsOfCluster ==
  ASSUME NEW d, Address[d] = "IKE"
  PROVE  "ignition" \in Fields(d) /\ "sensors" \in Fields(d)
BY DEF Fields, Outbound, IKEOutbound

\* The registry only grows, by a device with an address of its own.
LEMMA RegistryStep ==
  ASSUME IInv, AddressesAreUnique, StrangersAreSilent, [TwinNext]_twins
  PROVE  /\ AddressesAreUnique' /\ StrangersAreSilent' /\ Registered \subseteq Registered'
         /\ \A d \in Registered' \ Registered : d \in Devices /\ UNCHANGED <<log, mirror, wire, vehicle, changes>>
<1>0. registry \in Seq(Devices) /\ log \in [Devices -> Seq(Nat)]
  BY DEF IInv, DispatchTypeOK
<1>1. ASSUME NEW d \in Devices, Register(d), UNCHANGED <<mirror, vehicle, changes>>
      PROVE  /\ AddressesAreUnique' /\ StrangersAreSilent' /\ Registered' = Registered \cup {d}
             /\ UNCHANGED <<log, mirror, wire, vehicle, changes>>
  <2>1. registry' = Append(registry, d) /\ UNCHANGED <<log, wire>>
        /\ \A e \in Registered : Address[e] # Address[d]
    BY <1>1 DEF Register
  <2>2. Registered' = Registered \cup {d}
    <3>1. /\ Len(registry) \in Nat /\ DOMAIN registry = 1..Len(registry)
          /\ DOMAIN registry' = 1..(Len(registry) + 1)
          /\ \A i \in DOMAIN registry : registry'[i] = registry[i]
          /\ registry'[Len(registry) + 1] = d
      BY <1>0, <2>1
    <3>2. /\ Len(registry) + 1 \in DOMAIN registry' /\ DOMAIN registry \subseteq DOMAIN registry'
          /\ \A i \in DOMAIN registry' : i \in DOMAIN registry \/ i = Len(registry) + 1
      BY <3>1
    <3> QED
      BY <3>1, <3>2 DEF Registered
  <2> QED
    BY <1>1, <2>1, <2>2 DEF AddressesAreUnique, StrangersAreSilent
<1>2. ASSUME NEW d \in Devices, TwinHandles(d)
      PROVE  AddressesAreUnique' /\ StrangersAreSilent' /\ Registered' = Registered
  <2>1. Handle(d)
    BY <1>2 DEF TwinHandles, HandleReturns, HandleThrows
  <2>2. d \in Registered /\ Registered' = Registered
    BY <2>1 DEF Handle, At, Registered
  <2>3. \A e \in Devices \ {d} : log'[e] = log[e]
    BY <1>0, <2>1 DEF Handle
  <2> QED
    BY <2>2, <2>3 DEF AddressesAreUnique, StrangersAreSilent
<1>3. ASSUME UNCHANGED <<registry, log>>
      PROVE  AddressesAreUnique' /\ StrangersAreSilent' /\ Registered' = Registered
  BY <1>3 DEF AddressesAreUnique, StrangersAreSilent, Registered
<1>4. \/ \E d \in Devices : Register(d) /\ UNCHANGED <<mirror, vehicle, changes>>
      \/ \E d \in Devices : TwinHandles(d)
      \/ UNCHANGED <<registry, log>>
  BY DEF TwinNext, TwinLoop, Others, EmitFrame, EndFrame, Skip, SetModes, Receive, twins, dispatch
<1> QED
  BY <1>1, <1>2, <1>3, <1>4

\* A step in which no frame is handled.
LEMMA VehicleRests ==
  ASSUME TwinInv, VehicleInv, [TwinNext]_twins,
         UNCHANGED <<log, mirror, vehicle, changes>>,
         \A i \in DOMAIN wire : wire'[i] = wire[i]
  PROVE  VehicleInv'
<1>1. /\ AddressesAreUnique' /\ StrangersAreSilent' /\ Registered \subseteq Registered'
      /\ \A d \in Registered' \ Registered : d \in Devices
  BY RegistryStep DEF VehicleInv, TwinInv
<1>2. ASSUME NEW d \in Devices, Address[d] = "IKE"
      PROVE  IgnitionOf(d)' = IgnitionOf(d) /\ (KnownAsIKI(d)' <=> KnownAsIKI(d))
  <2>1. Readings(d, "sensors")' = Readings(d, "sensors")
    BY SameReadings DEF TwinInv
  <2>2. \A i \in Readings(d, "sensors") : wire'[i] = wire[i]
    BY DEF Readings, TwinInv, LoggedIsReceived
  <2> QED
    BY <2>1, <2>2 DEF IgnitionOf, KnownAsIKI
<1>3. ASSUME NEW d \in Registered' \ Registered, Address[d] = "IKE"
      PROVE  /\ IgnitionOf(d) = "OFF" /\ ~KnownAsIKI(d)
             /\ \A e \in Registered : ~IsCluster(e)
  <2>1. d \in Devices /\ log[d] = <<>>
    BY <1>1, <1>3 DEF VehicleInv, StrangersAreSilent
  <2>2. \A c : Readings(d, c) = {}
    BY <2>1 DEF Readings, Range
  <2>3. <<d, "ignition">> \notin DOMAIN mirror
    BY <1>3, <2>1, <2>2, FieldsOfCluster DEF TwinInv, FieldsAreNewest
  <2>4. \A e \in Registered : ~IsCluster(e)
    BY <1>1, <1>3 DEF IsCluster, AddressesAreUnique
  <2> QED
    BY <2>2, <2>3, <2>4 DEF IgnitionOf, KnownAsIKI
<1>4. Registered \subseteq Devices
  BY DEF TwinInv, IInv, DispatchTypeOK, Registered
<1>5. Follows'
  <2>1. ASSUME NEW d \in Registered', Address[d] = "IKE"
        PROVE  vehicle.ignition = IgnitionOf(d)' /\ (vehicle.iki <=> KnownAsIKI(d)')
    <3>1. CASE d \in Registered
      BY <1>2, <1>4, <2>1, <3>1 DEF VehicleInv, Follows, IsCluster
    <3>2. CASE d \notin Registered
      BY <1>1, <1>2, <1>3, <2>1, <3>2 DEF VehicleInv, Follows
    <3> QED
      BY <3>1, <3>2
  <2>2. ASSUME \A d \in Registered' : Address[d] # "IKE"
        PROVE  vehicle.ignition = "OFF" /\ ~vehicle.iki
    BY <1>1, <2>2 DEF VehicleInv, Follows, IsCluster
  <2> QED
    BY <2>1, <2>2 DEF Follows, IsCluster
<1> QED
  BY <1>1, <1>5 DEF VehicleInv, ChangesChain, Ends

\* SetIgnition() tells of real changes, one after the other.
LEMMA IgnitionStep ==
  ASSUME VehicleInv, NEW v, SetIgnition(v)
  PROVE  /\ \E V : changes' \in Seq(V)
         /\ ChangesChain' /\ Ends'
         /\ \E b \in BOOLEAN : vehicle' = [ignition |-> v, iki |-> b]
         /\ vehicle'.ignition = v /\ vehicle'.iki = vehicle.iki
<1>0. PICK w, b : b \in BOOLEAN /\ vehicle = [ignition |-> w, iki |-> b]
  BY DEF VehicleInv
<1>1. CASE v = vehicle.ignition
  BY <1>0, <1>1 DEF SetIgnition, VehicleInv, ChangesChain, Ends
<1>2. CASE v # vehicle.ignition
  <2> DEFINE e == [from |-> vehicle.ignition, to |-> v]
  <2>1. changes' = Append(changes, e) /\ vehicle' = [vehicle EXCEPT !.ignition = v]
    BY <1>2 DEF SetIgnition
  <2>2. e.from = vehicle.ignition /\ e.to = v
    OBVIOUS
  <2> HIDE DEF e
  <2>3. PICK V : changes \in Seq(V)
    BY DEF VehicleInv
  <2>4. changes \in Seq(V \cup {e}) /\ e \in V \cup {e}
    BY <2>3
  <2>5. /\ changes' \in Seq(V \cup {e}) /\ changes' # <<>>
        /\ Len(changes) \in Nat /\ Len(changes') = Len(changes) + 1
        /\ \A i \in 1..Len(changes) : changes'[i] = changes[i]
        /\ changes'[Len(changes) + 1] = e
        /\ changes = <<>> <=> Len(changes) = 0
    BY <2>1, <2>4
  <2>6. vehicle' = [ignition |-> v, iki |-> b]
    BY <1>0, <2>1
  <2>7. Ends'
    BY <2>2, <2>5, <2>6 DEF Ends
  <2>8. ASSUME NEW i \in 1..Len(changes')
        PROVE  /\ changes'[i].from # changes'[i].to
               /\ changes'[i].from = IF i = 1 THEN "OFF" ELSE changes'[i - 1].to
    <3>1. CASE i \in 1..Len(changes)
      <4>1. changes'[i] = changes[i]
        BY <2>5, <3>1
      <4>2. i # 1 => i - 1 \in 1..Len(changes) /\ changes'[i - 1] = changes[i - 1]
        BY <2>5, <3>1
      <4> QED
        BY <3>1, <4>1, <4>2 DEF VehicleInv, ChangesChain
    <3>2. CASE i = Len(changes) + 1
      <4>1. changes'[i] = e
        BY <2>5, <3>2
      <4>2. i # 1 => changes # <<>> /\ i - 1 = Len(changes) /\ changes'[i - 1] = changes[Len(changes)]
        BY <2>5, <3>2
      <4>3. i = 1 => changes = <<>>
        BY <2>5, <3>2
      <4> QED
        BY <1>2, <2>2, <4>1, <4>2, <4>3 DEF VehicleInv, Ends
    <3> QED
      BY <2>5, <3>1, <3>2
  <2>9. ChangesChain'
    BY <2>8 DEF ChangesChain
  <2> QED
    BY <1>0, <2>5, <2>6, <2>7, <2>9
<1> QED
  BY <1>1, <1>2

LEMMA VehicleHandles ==
  ASSUME TwinInv, VehicleInv, NEW d \in Devices, TwinHandles(d)
  PROVE  VehicleInv'
<1> DEFINE f == wire[current]
<1>0. /\ Handle(d) /\ IInv /\ LoggedIsReceived
      /\ d \in Registered /\ Registered' = Registered /\ wire' = wire
      /\ Registered \subseteq Devices
  BY SMTT(30) DEF TwinHandles, HandleReturns, HandleThrows, TwinInv, Handle, At, Registered, IInv,
         DispatchTypeOK
<1>1. AddressesAreUnique' /\ StrangersAreSilent'
  <2>1. [TwinNext]_twins
    BY DEF TwinNext, TwinLoop
  <2> QED
    BY <2>1, <1>0, RegistryStep DEF VehicleInv
<1>2. IF Mirrors(d, f) /\ f.ok
      THEN Store(d, f) /\ TellVehicle(d, f) ELSE UNCHANGED <<mirror, vehicle, changes>>
  BY DEF TwinHandles
<1>3. ASSUME NEW e \in Registered, IsCluster(e), e # d
      PROVE  IgnitionOf(e)' = IgnitionOf(e) /\ (KnownAsIKI(e)' <=> KnownAsIKI(e))
  <2>1. log'[e] = log[e]
    BY <1>0, <1>3, HandledIsOlder
  <2>2. Readings(e, "sensors")' = Readings(e, "sensors")
    BY <1>0, <2>1, SameReadings
  <2>3. mirror' = mirror \/ Store(d, f)
    BY <1>2
  <2>4. IgnitionOf(e)' = IgnitionOf(e)
    BY <1>3, <2>3 DEF Store, IgnitionOf
  <2> QED
    BY <1>0, <2>2, <2>4 DEF KnownAsIKI
<1>4. IsCluster(d) =>
        /\ IgnitionOf(d)' = IF f.cmd = "ignition" /\ Mirrors(d, f) /\ f.ok THEN f.val
                            ELSE IgnitionOf(d)
        /\ KnownAsIKI(d)' <=> \/ KnownAsIKI(d)
                              \/ f.cmd = "sensors" /\ Mirrors(d, f) /\ f.ok /\ f.val = "IKI"
  <2> SUFFICES ASSUME IsCluster(d)
               PROVE  /\ IgnitionOf(d)' = IF f.cmd = "ignition" /\ Mirrors(d, f) /\ f.ok
                                          THEN f.val ELSE IgnitionOf(d)
                      /\ KnownAsIKI(d)' <=>
                           \/ KnownAsIKI(d)
                           \/ f.cmd = "sensors" /\ Mirrors(d, f) /\ f.ok /\ f.val = "IKI"
    OBVIOUS
  <2>1. IgnitionOf(d)' = IF f.cmd = "ignition" /\ Mirrors(d, f) /\ f.ok THEN f.val
                         ELSE IgnitionOf(d)
    BY <1>2 DEF Store, IgnitionOf
  <2>2. Readings(d, "sensors")' = IF f.cmd = "sensors" /\ Mirrors(d, f) /\ f.ok
                                  THEN Readings(d, "sensors") \cup {current}
                                  ELSE Readings(d, "sensors")
    <3>1. "sensors" \in Fields(d)
      BY FieldsOfCluster DEF IsCluster
    <3> QED
      BY <1>0, <3>1, HandledReadings
  <2>3. KnownAsIKI(d)' <=> \E i \in Readings(d, "sensors")' : wire[i].val = "IKI"
    BY <1>0 DEF KnownAsIKI
  <2> QED
    BY <2>1, <2>2, <2>3 DEF KnownAsIKI
<1>5. IsCluster(d) => \A e \in Registered : IsCluster(e) => e = d
  BY <1>0 DEF IsCluster, VehicleInv, AddressesAreUnique
<1>6. Registered' = Registered /\ \A e : IsCluster(e)' <=> IsCluster(e)
  BY <1>0 DEF IsCluster
<1>7. CASE ~(Mirrors(d, f) /\ f.ok /\ Address[d] = "IKE" /\ f.cmd \in {"ignition", "sensors"})
  <2>1. UNCHANGED <<vehicle, changes>>
    BY <1>2, <1>7 DEF TellVehicle
  <2>2. Follows'
    BY <1>3, <1>4, <1>6, <1>7, <2>1 DEF Follows, VehicleInv, IsCluster
  <2> QED
    BY <1>1, <2>1, <2>2 DEF VehicleInv, ChangesChain, Ends
<1>8. CASE Mirrors(d, f) /\ f.ok /\ Address[d] = "IKE" /\ f.cmd = "ignition"
  <2>1. SetIgnition(f.val)
    BY <1>2, <1>8 DEF TellVehicle
  <2>2. /\ \E V : changes' \in Seq(V)
        /\ ChangesChain' /\ Ends'
        /\ \E b \in BOOLEAN : vehicle' = [ignition |-> f.val, iki |-> b]
        /\ vehicle'.ignition = f.val /\ vehicle'.iki = vehicle.iki
    BY <2>1, IgnitionStep
  <2>3. IsCluster(d)
    BY <1>0, <1>8 DEF IsCluster
  <2>4. IgnitionOf(d)' = f.val /\ (KnownAsIKI(d)' <=> KnownAsIKI(d))
    BY <1>4, <1>8, <2>3
  <2>5. Follows'
    BY <1>0, <1>5, <1>6, <2>2, <2>3, <2>4 DEF Follows, VehicleInv
  <2> QED
    BY <1>1, <2>2, <2>5 DEF VehicleInv
<1>9. CASE Mirrors(d, f) /\ f.ok /\ Address[d] = "IKE" /\ f.cmd = "sensors"
  <2>1. vehicle' = [vehicle EXCEPT !.iki = vehicle.iki \/ f.val = "IKI"] /\ changes' = changes
    BY <1>2, <1>9 DEF TellVehicle, DetectVariant
  <2>2. PICK w, b : b \in BOOLEAN /\ vehicle = [ignition |-> w, iki |-> b]
    BY DEF VehicleInv
  <2>3. /\ vehicle' = [ignition |-> w, iki |-> (b \/ f.val = "IKI")]
        /\ (b \/ f.val = "IKI") \in BOOLEAN
        /\ vehicle'.ignition = vehicle.ignition
        /\ vehicle'.iki <=> vehicle.iki \/ f.val = "IKI"
    BY <2>1, <2>2
  <2>4. IsCluster(d)
    BY <1>0, <1>9 DEF IsCluster
  <2>5. IgnitionOf(d)' = IgnitionOf(d) /\ (KnownAsIKI(d)' <=> KnownAsIKI(d) \/ f.val = "IKI")
    BY <1>4, <1>9, <2>4
  <2>6. Follows'
    BY <1>0, <1>5, <1>6, <2>3, <2>4, <2>5 DEF Follows, VehicleInv
  <2>7. ChangesChain' /\ Ends'
    BY <2>1, <2>3 DEF VehicleInv, ChangesChain, Ends
  <2> QED
    BY <1>1, <2>1, <2>3, <2>6, <2>7 DEF VehicleInv
<1> QED
  BY <1>7, <1>8, <1>9

LEMMA VehicleStepInv == TwinInv /\ VehicleInv /\ [TwinNext]_twins => VehicleInv'
<1> SUFFICES ASSUME TwinInv, VehicleInv, [TwinNext]_twins PROVE VehicleInv'
  OBVIOUS
<1>1. ASSUME NEW d \in Devices, TwinHandles(d) PROVE VehicleInv'
  BY <1>1, VehicleHandles
<1>2. ASSUME UNCHANGED <<log, mirror, vehicle, changes>>,
             \A i \in DOMAIN wire : wire'[i] = wire[i]
      PROVE  VehicleInv'
  BY <1>2, VehicleRests
<1>3. ASSUME NEW chunk \in Seq(Frames), Receive(chunk), UNCHANGED <<mirror, vehicle, changes>>
      PROVE  VehicleInv'
  <2>1. wire \in Seq(Frames) /\ wire' = wire \o chunk /\ log' = log
    BY <1>3 DEF Receive, TwinInv, IInv, DispatchTypeOK
  <2>2. \A i \in DOMAIN wire : wire'[i] = wire[i]
    BY <2>1
  <2> QED
    BY <1>2, <1>3, <2>1, <2>2
<1>4. \A f \in Frames : <<f>> \in Seq(Frames)
  OBVIOUS
<1>5. \A f, g \in Frames : <<f, g>> \in Seq(Frames)
  OBVIOUS
<1>6. CASE Others /\ UNCHANGED <<mirror, vehicle, changes>>
  BY <1>2, <1>3, <1>4, <1>5, <1>6 DEF Others, Register, SetModes
<1>7. CASE TwinLoop
  BY <1>1, <1>2, <1>7 DEF TwinLoop, EmitFrame, EndFrame, Skip
<1>8. CASE UNCHANGED twins
  BY <1>2, <1>8 DEF twins, dispatch
<1> QED
  BY <1>6, <1>7, <1>8 DEF TwinNext

LEMMA VehicleInitInv == Init => VehicleInv
<1> SUFFICES ASSUME Init PROVE VehicleInv
  OBVIOUS
<1>1. AddressesAreUnique
  BY PreregisteredAssumption DEF Init, DispatchInit, AddressesAreUnique, Registered
<1>2. \A d \in Devices : log[d] = <<>>
  BY DEF Init, DispatchInit
<1>3. StrangersAreSilent
  BY <1>2 DEF StrangersAreSilent
<1>4. Registered \subseteq Devices
  BY PreregisteredAssumption DEF Init, DispatchInit, Registered
<1>5. \A d \in Registered : IgnitionOf(d) = "OFF" /\ ~KnownAsIKI(d)
  BY <1>2, <1>4 DEF Init, IgnitionOf, KnownAsIKI, Readings, Range
<1>6. changes = <<>> /\ vehicle = [ignition |-> "OFF", iki |-> FALSE]
  BY DEF Init
<1>7. changes \in Seq({})
  BY <1>6
<1>8. ChangesChain /\ Ends
  BY <1>6 DEF ChangesChain, Ends
<1>9. Follows
  BY <1>5, <1>6 DEF Follows
<1> QED
  BY <1>1, <1>3, <1>6, <1>7, <1>8, <1>9 DEF VehicleInv

\* The Vehicle and the cluster's twin never differ, the events are the real
\* changes of the ignition in their order, and a cluster is known to be an IKI
\* exactly if it once said so (ike.ts:173-183, vehicle.ts:89-94).
THEOREM VehicleMirrorsCluster == TwinSpec => []VehicleFollowsCluster
<1>1. TwinInv /\ VehicleInv => VehicleFollowsCluster
  <2> SUFFICES ASSUME TwinInv, VehicleInv, NEW d \in Registered, Address[d] = "IKE"
               PROVE  LET shown == Shown(d, "ignition") IN
                        /\ {vehicle.ignition} = IF shown = {} THEN {"OFF"} ELSE shown
                        /\ \A i \in DOMAIN changes :
                             /\ changes[i].from # changes[i].to
                             /\ changes[i].from = IF i = 1 THEN "OFF" ELSE changes[i - 1].to
                        /\ vehicle.iki <=> \E i \in Readings(d, "sensors") : wire[i].val = "IKI"
    BY DEF VehicleFollowsCluster
  <2>1. vehicle.ignition = IgnitionOf(d) /\ (vehicle.iki <=> KnownAsIKI(d))
    BY DEF VehicleInv, Follows, IsCluster
  <2>2. Shown(d, "ignition") = IF <<d, "ignition">> \in DOMAIN mirror
                               THEN {mirror[<<d, "ignition">>]} ELSE {}
    BY DEF Shown
  <2>3. {vehicle.ignition} = IF Shown(d, "ignition") = {} THEN {"OFF"}
                             ELSE Shown(d, "ignition")
    BY <2>1, <2>2 DEF IgnitionOf
  <2>4. DOMAIN changes = 1..Len(changes)
    BY DEF VehicleInv
  <2> QED
    BY <2>1, <2>3, <2>4 DEF VehicleInv, ChangesChain, KnownAsIKI
<1> QED
  BY <1>1, VehicleInitInv, VehicleStepInv, TwinInvariant, PTL DEF TwinSpec

-----------------------------------------------------------------------------
(***************************************************************************)
(* Types: a field belongs to its twin and holds a value some frame had.    *)
(***************************************************************************)

\* A condition on the constants: Values has the first reading of the Vehicle and
\* whatever a frame may carry (frames are not enumerable, so that this is a
\* hypothesis of the two theorems below and not an ASSUME).
Carried == "OFF" \in Values /\ \A f \in Frames : f.val \in Values

LEMMA TypeStep ==
  ASSUME Carried, TwinInv, TypeOK, DispatchTypeOK', [TwinNext]_twins
  PROVE  TypeOK'
<1>1. ASSUME UNCHANGED <<mirror, vehicle, changes>> PROVE TypeOK'
  BY <1>1 DEF TypeOK
<1>2. ASSUME NEW d \in Devices, TwinHandles(d),
             ~ UNCHANGED <<mirror, vehicle, changes>>
      PROVE  TypeOK'
  <2> DEFINE f == wire[current]
  <2>1. At(d) /\ Mirrors(d, f) /\ Store(d, f) /\ TellVehicle(d, f)
    BY <1>2 DEF TwinHandles, HandleReturns, Handle
  <2>2. ~ Idle
    BY <2>1 DEF At, TwinInv, IInv, IdleAtHead, DispatchTypeOK
  <2>3. f \in Frames
    BY <2>2 DEF Idle, TypeOK, DispatchTypeOK
  <2>4. f.val \in Values /\ f.cmd \in Fields(d)
    BY <2>1, <2>3 DEF Carried, Mirrors, Fields
  <2>5. \A p \in DOMAIN mirror' : p[2] \in Fields(p[1]) /\ mirror'[p] \in Values
    <3> SUFFICES ASSUME NEW p \in DOMAIN mirror'
                 PROVE  p[2] \in Fields(p[1]) /\ mirror'[p] \in Values
      OBVIOUS
    <3>1. /\ p \in DOMAIN mirror \/ p = <<d, f.cmd>>
          /\ mirror'[p] = IF p = <<d, f.cmd>> THEN f.val ELSE mirror[p]
      BY <2>1 DEF Store
    <3>2. CASE p = <<d, f.cmd>>
      BY <2>4, <3>1, <3>2
    <3>3. CASE p # <<d, f.cmd>>
      BY <3>1, <3>3 DEF TypeOK
    <3> QED
      BY <3>2, <3>3
  <2>6. /\ vehicle \in [ignition : Values, iki : BOOLEAN]
        /\ changes \in Seq([from : Values, to : Values])
    BY DEF TypeOK
  <2>7. /\ vehicle' \in [ignition : Values, iki : BOOLEAN]
        /\ changes' \in Seq([from : Values, to : Values])
    <3> DEFINE v == f.val
    <3>0. v \in Values
      BY <2>4
    <3>1. CASE SetIgnition(v) /\ v # vehicle.ignition
      <4> HIDE DEF v
      <4>1. /\ vehicle' = [vehicle EXCEPT !.ignition = v]
            /\ changes' = Append(changes, [from |-> vehicle.ignition, to |-> v])
        BY <3>1 DEF SetIgnition
      <4>2. [from |-> vehicle.ignition, to |-> v] \in [from : Values, to : Values]
        BY <2>6, <3>0
      <4>3. vehicle' \in [ignition : Values, iki : BOOLEAN]
        BY <2>6, <3>0, <4>1
      <4>4. changes' \in Seq([from : Values, to : Values])
        BY <2>6, <4>1, <4>2
      <4> QED
        BY <4>3, <4>4
    <3>2. CASE DetectVariant(v)
      BY <2>6, <3>2 DEF DetectVariant
    <3>3. CASE UNCHANGED <<vehicle, changes>>
      BY <2>6, <3>3
    <3>4. SetIgnition(v) \/ DetectVariant(v) \/ UNCHANGED <<vehicle, changes>>
      BY <2>1 DEF TellVehicle
    <3>5. SetIgnition(v) /\ v = vehicle.ignition => UNCHANGED <<vehicle, changes>>
      BY DEF SetIgnition
    <3> QED
      BY <3>1, <3>2, <3>3, <3>4, <3>5
  <2> QED
    BY <2>5, <2>7 DEF TypeOK
<1>3. CASE TwinLoop
  BY <1>1, <1>2, <1>3 DEF TwinLoop
<1>4. CASE (Others /\ UNCHANGED <<mirror, vehicle, changes>>) \/ UNCHANGED twins
  BY <1>1, <1>4 DEF twins
<1> QED
  BY <1>3, <1>4 DEF TwinNext

\* If the cluster starts "OFF" and every frame carries a value, so does every
\* field and the shared Vehicle, and no twin has a field that is not its own.
THEOREM TwinsAreTyped ==
  ASSUME Carried
  PROVE  TwinSpec => []TypeOK
<1>1. Init => TypeOK
  <2> SUFFICES ASSUME Init PROVE TypeOK
    OBVIOUS
  <2>1. DispatchTypeOK
    BY InitInv DEF Init, IInv
  <2>2. DOMAIN mirror = {} /\ vehicle = [ignition |-> "OFF", iki |-> FALSE] /\ changes = <<>>
    BY DEF Init
  <2> QED
    BY <2>1, <2>2 DEF TypeOK, Carried
<1>2. TwinInv /\ TwinInv' /\ TypeOK /\ [TwinNext]_twins => TypeOK'
  BY TypeStep DEF TwinInv, IInv
<1> QED
  BY <1>1, <1>2, TwinInvariant, PTL DEF TwinSpec

-----------------------------------------------------------------------------
(***************************************************************************)
(* The shells: what controls put on the wire, and what becomes of it when  *)
(* it comes back.                                                          *)
(***************************************************************************)

\* A frame some control sent, one that only asks if `asked`.
SentBy(f, asked) ==
  \E d \in Devices : \E m \in DOMAIN Sends(Address[d]) : \E v \in Written :
    /\ f = FrameOf(d, m, v)
    /\ asked => m \in ManifestOf(Address[d]).asks

OwnInv ==
  /\ armed \in BOOLEAN
  /\ air \in Seq([frame : Frames, asked : BOOLEAN])
  /\ \A i \in DOMAIN air : SentBy(air[i].frame, air[i].asked)
  /\ \A i \in DOMAIN own : i \in DOMAIN wire /\ SentBy(wire[i], own[i])

\* A control that needs no arming asks for something: its command is in no
\* twin's tables but in the LCM's, which notes that it was asked for
\* redundant data.
LEMMA AsksAreNoNews ==
  ASSUME NEW d \in Devices, NEW m \in ManifestOf(Address[d]).asks, NEW v
  PROVE  LET f == FrameOf(d, m, v) IN
           /\ f.cmd \notin Outbound(f.src)
           /\ f.cmd \in Inbound(f.dst) => f.dst = "LCM" /\ f.cmd = "redundantDataRequest"
<1> DEFINE f == FrameOf(d, m, v)
<1> SUFFICES /\ f.cmd \notin Outbound(f.src)
             /\ f.cmd \in Inbound(f.dst) => f.dst = "LCM" /\ f.cmd = "redundantDataRequest"
  OBVIOUS
<1> USE DEF ManifestOf, Manifest, Sends, S, FrameOf, Outbound, Inbound
<1>1. CASE Address[d] = "IKE"
  <2>1. m \in {"requestIgnition", "requestSensors", "requestOdometer",
               "requestTemperature", "requestLanguageRegion", "requestRedundantData"}
    BY <1>1 DEF IKEControls
  <2>2. \/ /\ f.src = "DIA" /\ f.dst = "IKE"
           /\ f.cmd \in {"ignitionRequest", "sensorsRequest", "odometerRequest",
                         "temperatureRequest", "languageRegionRequest"}
        \/ f.src = "IKE" /\ f.dst = "LCM" /\ f.cmd = "redundantDataRequest"
    BY <1>1, <2>1 DEF IKESends
  <2> HIDE DEF f
  <2> QED
    BY <2>2 DEF IKEInbound, IKEOutbound
<1>2. CASE Address[d] = "LCM"
  <2>1. f.src = "DIA" /\ f.dst = "LCM" /\ f.cmd = "indicatorsRequest"
    BY <1>2 DEF LCMControls, LCMSends
  <2> QED
    BY <2>1, ZenonT(30) DEF LCMInbound
<1>3. CASE Address[d] = "GM"
  <2>1. f.src = "DIA" /\ f.dst = "GM" /\ f.cmd = "doorsRequest"
    BY <1>3 DEF GMControls, GMSends
  <2> QED
    BY <2>1, ZenonT(30)
<1>4. CASE Address[d] = "PDC"
  <2>1. f.src = "DIA" /\ f.dst = "PDC" /\ f.cmd = "pdcRequest"
    BY <1>4 DEF PDCControls, PDCSends
  <2> QED
    BY <2>1, ZenonT(30)
<1>5. CASE Address[d] = "EWS"
  <2>1. f.src = "DIA" /\ f.dst = "EWS" /\ f.cmd = "keyStatusRequest"
    BY <1>5 DEF EWSControls, EWSSends
  <2> QED
    BY <2>1, ZenonT(30)
<1> QED
  BY <1>1, <1>2, <1>3, <1>4, <1>5
     DEF BMBTControls, TELControls, GTControls, RADControls, NAVControls,
         MFLControls, MIDControls, CDCControls

\* Frames of controls are frames of the wire.
LEMMA SentIsFrame ==
  ASSUME NEW f, NEW asked, SentBy(f, asked)
  PROVE  f \in Frames /\ f.ok
BY FramesAssumption DEF SentBy, FrameOf

\* Chunks of echoes are chunks of one frame or of two.
LEMMA EchoChunk ==
  ASSUME NEW n \in 1..2, NEW e
  PROVE  [i \in 1..n |-> e[i].frame] \in {<<e[1].frame>>, <<e[1].frame, e[2].frame>>}
<1>1. CASE n = 1
  BY <1>1
<1>2. CASE n = 2
  BY <1>2
<1> QED
  BY <1>1, <1>2

\* The shells, the other modules and the echoes do to the twins what TwinSpec
\* allows.
LEMMA ShellStepsAreTwins ==
  ASSUME OwnInv, DispatchTypeOK, [ShellNext]_controls
  PROVE  [TwinNext]_twins
<1> USE DEF TwinNext
<1>1. ASSUME NEW modes \in [Devices -> Modes], SetModes(modes),
             UNCHANGED <<mirror, vehicle, changes>>
      PROVE  TwinNext
  BY <1>1 DEF Others
<1>2. CASE SetActive
  <2>1. [d \in Devices |-> IF armed' THEN "active" ELSE "passive"] \in [Devices -> Modes]
    BY DEF Modes
  <2> QED
    BY <1>1, <1>2, <2>1 DEF SetActive
<1>3. ASSUME NEW d \in Devices, Disable(d) \/ Enable(d) PROVE TwinNext
  <2>1. /\ [mode EXCEPT ![d] = "disabled"] \in [Devices -> Modes]
        /\ [mode EXCEPT ![d] = "passive"] \in [Devices -> Modes]
    BY DEF DispatchTypeOK, Modes
  <2> QED
    BY <1>1, <1>3, <2>1 DEF Disable, Enable
<1>4. ASSUME NEW d \in Devices, Join(d) PROVE TwinNext
  BY <1>4 DEF Join, Others
<1>5. ASSUME NEW f \in Frames, Hear(<<f>>) PROVE TwinNext
  BY <1>5 DEF Hear, Others
<1>6. ASSUME NEW f \in Frames, NEW g \in Frames, Hear(<<f, g>>) PROVE TwinNext
  BY <1>6 DEF Hear, Others
<1>7. CASE Echo
  <2>1. PICK n \in 1..2 : /\ n <= Len(air)
                          /\ Receive([i \in 1..n |-> air[i].frame])
                          /\ UNCHANGED <<mirror, vehicle, changes>>
    BY <1>7 DEF Echo
  <2>2. \A i \in 1..n : air[i].frame \in Frames
    <3>1. 1..n \subseteq DOMAIN air
      BY <2>1 DEF OwnInv
    <3> QED
      BY <3>1, SentIsFrame DEF OwnInv
  <2>3. CASE n = 1
    <3>1. Receive(<<air[1].frame>>) /\ air[1].frame \in Frames
      BY <2>1, <2>2, <2>3
    <3> QED
      BY <2>1, <3>1 DEF Others
  <2>4. CASE n = 2
    <3>1. /\ Receive(<<air[1].frame, air[2].frame>>)
          /\ air[1].frame \in Frames /\ air[2].frame \in Frames
      BY <2>1, <2>2, <2>4
    <3> QED
      BY <2>1, <3>1 DEF Others
  <2> QED
    BY <2>3, <2>4
<1>8. ASSUME NEW d, NEW m, NEW v, Invoke(d, m, v) PROVE UNCHANGED twins
  BY <1>8 DEF Invoke, Send
<1>9. CASE TwinStep \/ UNCHANGED controls
  BY <1>9 DEF TwinStep, controls
<1>10. CASE \E f \in Traffic[Registered] \cap Frames :
              Hear(<<f>>) \/ \E g \in Traffic[Registered] \cap Frames : Hear(<<f, g>>)
  BY <1>5, <1>6, <1>10
<1> QED
  BY <1>2, <1>3, <1>4, <1>7, <1>8, <1>9, <1>10 DEF ShellNext

\* What a control sends.
LEMMA InvokeSends ==
  ASSUME OwnInv, NEW d \in Devices, NEW m \in DOMAIN Sends(Address[d]), NEW v \in Written,
         Invoke(d, m, v)
  PROVE  OwnInv'
<1> DEFINE sent == [frame |-> FrameOf(d, m, v), asked |-> ~armed]
<1>1. /\ air' = Append(air, sent) /\ UNCHANGED <<wire, own, armed>>
  BY DEF Invoke, Send, twins, dispatch
<1>2. SentBy(sent.frame, sent.asked)
  <2>1. sent.asked => m \in ManifestOf(Address[d]).asks
    BY DEF Invoke, MayInvoke
  <2> QED
    BY <2>1 DEF SentBy
<1>3. sent \in [frame : Frames, asked : BOOLEAN]
  BY <1>2, SentIsFrame
<1> HIDE DEF sent
<1>4. air \in Seq([frame : Frames, asked : BOOLEAN])
  BY DEF OwnInv
<1>5. /\ air' \in Seq([frame : Frames, asked : BOOLEAN])
      /\ \A i \in DOMAIN air' : IF i \in DOMAIN air THEN air'[i] = air[i] ELSE air'[i] = sent
  BY <1>1, <1>3, <1>4
<1> QED
  BY <1>1, <1>2, <1>5 DEF OwnInv

\* What is left of a sequence when its first elements are taken.
LEMMA RestOfAir ==
  ASSUME NEW T, NEW q \in Seq(T), NEW n \in 1..2, n <= Len(q)
  PROVE  /\ SubSeq(q, n + 1, Len(q)) \in Seq(T)
         /\ \A i \in DOMAIN SubSeq(q, n + 1, Len(q)) :
              i + n \in DOMAIN q /\ SubSeq(q, n + 1, Len(q))[i] = q[i + n]
<1> DEFINE rest == SubSeq(q, n + 1, Len(q))
<1>1. Len(q) \in Nat /\ DOMAIN q = 1..Len(q) /\ \A i \in 1..Len(q) : q[i] \in T
  OBVIOUS
<1>2. rest = [i \in 1..(Len(q) - n) |-> q[i + n]]
  BY <1>1, SMT
<1>3. \A i \in 1..(Len(q) - n) : i + n \in 1..Len(q)
  BY <1>1
<1> HIDE DEF rest
<1>4. rest \in Seq(T)
  BY <1>1, <1>2, <1>3
<1> QED
  BY <1>1, <1>2, <1>3, <1>4 DEF rest

\* What comes back is what was sent first.
LEMMA EchoReturns ==
  ASSUME OwnInv, DispatchTypeOK, Echo
  PROVE  OwnInv'
<1>1. PICK n \in 1..2 :
        /\ n <= Len(air)
        /\ Receive([i \in 1..n |-> air[i].frame])
        /\ own' = [ i \in DOMAIN own \cup (Len(wire) + 1)..(Len(wire) + n) |->
                     IF i \in DOMAIN own THEN own[i] ELSE air[i - Len(wire)].asked ]
        /\ air' = SubSeq(air, n + 1, Len(air))
        /\ armed' = armed
  BY DEF Echo
<1> DEFINE chunk == [i \in 1..n |-> air[i].frame]
<1>2. /\ wire \in Seq(Frames) /\ air \in Seq([frame : Frames, asked : BOOLEAN])
      /\ Len(wire) \in Nat /\ Len(air) \in Nat
  BY DEF OwnInv, DispatchTypeOK
<1>3. \A i \in 1..n : i \in DOMAIN air /\ SentBy(air[i].frame, air[i].asked)
  BY <1>1, <1>2 DEF OwnInv
<1>4. chunk \in Seq(Frames) /\ Len(chunk) = n
  BY <1>3, SentIsFrame
<1>5. wire' = wire \o chunk
  BY <1>1 DEF Receive
<1> HIDE DEF chunk
<1>6. /\ DOMAIN wire' = 1..(Len(wire) + n)
      /\ \A i \in DOMAIN wire : wire'[i] = wire[i]
      /\ \A i \in 1..n : wire'[Len(wire) + i] = chunk[i]
  BY <1>2, <1>4, <1>5
<1>7. \A i \in 1..n : wire'[Len(wire) + i] = air[i].frame
  BY <1>6 DEF chunk
<1>8. ASSUME NEW i \in DOMAIN own' PROVE i \in DOMAIN wire' /\ SentBy(wire'[i], own'[i])
  <2>1. CASE i \in DOMAIN own
    <3>1. i \in DOMAIN wire /\ SentBy(wire[i], own[i]) /\ own'[i] = own[i]
      BY <1>1, <2>1 DEF OwnInv
    <3>2. i \in DOMAIN wire' /\ wire'[i] = wire[i]
      BY <1>2, <1>6, <3>1
    <3> QED
      BY <3>1, <3>2
  <2>2. CASE i \notin DOMAIN own
    <3> DEFINE k == i - Len(wire)
    <3>1. k \in 1..n /\ i = Len(wire) + k /\ own'[i] = air[k].asked
      BY <1>1, <1>2, <2>2
    <3>2. i \in DOMAIN wire' /\ wire'[i] = air[k].frame
      BY <1>2, <1>6, <1>7, <3>1
    <3> QED
      BY <1>3, <3>1, <3>2
  <2> QED
    BY <2>1, <2>2
<1>9. /\ air' \in Seq([frame : Frames, asked : BOOLEAN])
      /\ \A i \in DOMAIN air' : i + n \in DOMAIN air /\ air'[i] = air[i + n]
  BY <1>1, <1>2, RestOfAir
<1>10. \A i \in DOMAIN air' : SentBy(air'[i].frame, air'[i].asked)
  BY <1>9 DEF OwnInv
<1> QED
  BY <1>1, <1>8, <1>9, <1>10 DEF OwnInv

\* Every step keeps the frames of controls apart from those of the others.
LEMMA OwnStep ==
  ASSUME OwnInv, DispatchTypeOK, [ShellNext]_controls
  PROVE  OwnInv'
<1>1. Registered \subseteq Devices
  BY DEF Registered, DispatchTypeOK
<1>2. ASSUME NEW d \in Registered, NEW m \in DOMAIN Sends(Address[d]), NEW v \in Written,
             Invoke(d, m, v)
      PROVE  OwnInv'
  BY <1>1, <1>2, InvokeSends
<1>3. ASSUME armed' \in BOOLEAN, UNCHANGED <<air, own>>,
             \A i \in DOMAIN wire : i \in DOMAIN wire' /\ wire'[i] = wire[i]
      PROVE  OwnInv'
  BY <1>3 DEF OwnInv
<1>4. ASSUME armed' \in BOOLEAN, UNCHANGED <<air, own, wire>> PROVE OwnInv'
  BY <1>3, <1>4
<1>5. CASE SetActive
  BY <1>4, <1>5 DEF SetActive, SetModes, OwnInv
<1>6. ASSUME NEW d, Disable(d) \/ Enable(d) \/ Join(d) PROVE OwnInv'
  BY <1>4, <1>6 DEF Disable, Enable, Join, SetModes, Register, OwnInv
<1>7. ASSUME NEW chunk \in Seq(Frames), Hear(chunk) PROVE OwnInv'
  <2>1. wire \in Seq(Frames) /\ wire' = wire \o chunk
    BY <1>7 DEF Hear, Receive, DispatchTypeOK
  <2>2. \A i \in DOMAIN wire : i \in DOMAIN wire' /\ wire'[i] = wire[i]
    BY <2>1
  <2> QED
    BY <1>3, <1>7, <2>2 DEF Hear, OwnInv
<1>8. \A f \in Frames : <<f>> \in Seq(Frames)
  OBVIOUS
<1>9. \A f, g \in Frames : <<f, g>> \in Seq(Frames)
  OBVIOUS
<1>10. CASE TwinStep
  BY <1>4, <1>10 DEF TwinStep, TwinLoop, TwinHandles, HandleReturns, HandleThrows, Handle,
                     EmitFrame, EndFrame, Skip, OwnInv
<1>11. CASE UNCHANGED controls
  BY <1>4, <1>11 DEF controls, twins, dispatch, OwnInv
<1>12. CASE \E f \in Traffic[Registered] \cap Frames :
              Hear(<<f>>) \/ \E g \in Traffic[Registered] \cap Frames : Hear(<<f, g>>)
  BY <1>7, <1>8, <1>9, <1>12
<1> QED
  BY <1>2, <1>5, <1>6, <1>10, <1>11, <1>12, EchoReturns DEF ShellNext

LEMMA OwnInvariant == ShellSpec => []OwnInv /\ []TwinInv
<1>1. ControlsInit => OwnInv /\ Init
  <2> SUFFICES ASSUME ControlsInit PROVE OwnInv
    BY DEF ControlsInit
  <2>1. air = <<>> /\ own = << >> /\ armed = FALSE
    BY DEF ControlsInit
  <2>2. air \in Seq([frame : Frames, asked : BOOLEAN])
    BY <2>1
  <2>3. DOMAIN air = {} /\ DOMAIN own = {}
    BY <2>1
  <2>4. armed \in BOOLEAN
    BY <2>1
  <2> QED
    BY <2>2, <2>3, <2>4 DEF OwnInv
<1>2. TwinInv => DispatchTypeOK
  BY DEF TwinInv, IInv
<1>3. OwnInv /\ TwinInv /\ [ShellNext]_controls => OwnInv' /\ TwinInv'
  BY <1>2, OwnStep, ShellStepsAreTwins, TwinStepInv
<1>4. Init => TwinInv
  BY TwinInitInv
<1> QED
  BY <1>1, <1>3, <1>4, PTL DEF ShellSpec

\* What a shell that is not armed puts on the bus is news to no twin but the
\* LCM, which notes the request, whatever controls, devices and addresses
\* there are (core/src/controls.ts:65-66).
THEOREM UnarmedIsHarmless == ShellSpec => []UnarmedOnlyAsks
<1>1. OwnInv => UnarmedOnlyAsks
  <2> SUFFICES ASSUME OwnInv, NEW i \in DOMAIN own, own[i], NEW d \in Registered,
                      Mirrors(d, wire[i])
               PROVE  Address[d] = "LCM" /\ wire[i].cmd = "redundantDataRequest"
    BY DEF UnarmedOnlyAsks
  <2>1. SentBy(wire[i], own[i])
    BY DEF OwnInv
  <2>2. PICK e \in Devices : \E m \in ManifestOf(Address[e]).asks : \E v \in Written :
             wire[i] = FrameOf(e, m, v)
    BY <2>1 DEF SentBy
  <2> QED
    BY <2>2, AsksAreNoNews DEF Mirrors
<1> QED
  BY <1>1, OwnInvariant, PTL

\* A frame a control sent is what every twin shows that mirrors it and has
\* handled its echo, until a later frame of the command is heard, whatever the
\* other modules say, whoever joins late or is disabled meanwhile.
THEOREM EchoesAreShown == ShellSpec => []OwnWritesAreShown
<1>1. OwnInv /\ TwinInv /\ UnarmedOnlyAsks => OwnWritesAreShown
  <2> SUFFICES ASSUME OwnInv, TwinInv, NEW i \in DOMAIN own, NEW d \in Registered,
                      Mirrors(d, wire[i]), i \in Range(log[d]),
                      \A j \in (i + 1)..Len(wire) : wire[j].cmd # wire[i].cmd
               PROVE  Shown(d, wire[i].cmd) = {wire[i].val}
    BY DEF OwnWritesAreShown
  <2> DEFINE c == wire[i].cmd
  <2>1. d \in Devices /\ wire \in Seq(Frames) /\ log[d] \in Seq(Nat)
    BY DEF TwinInv, IInv, DispatchTypeOK, Registered
  <2>2. c \in Fields(d)
    BY DEF Mirrors, Fields
  <2>3. wire[i].ok
    BY SentIsFrame DEF OwnInv
  <2>4. i \in Readings(d, c)
    BY <2>1, <2>2, <2>3, ReadingIsMirrored DEF Readings
  <2>5. PICK k : IsNewest(k, Readings(d, c)) /\ mirror[<<d, c>>] = wire[k].val
    BY <2>1, <2>2, <2>4 DEF TwinInv, FieldsAreNewest
  <2>6. k \in DOMAIN wire /\ wire[k].cmd = c /\ i <= k /\ i \in DOMAIN wire
    BY <2>1, <2>4, <2>5 DEF IsNewest, Readings, TwinInv, LoggedIsReceived
  <2>7. k = i
    BY <2>1, <2>6
  <2>8. <<d, c>> \in DOMAIN mirror
    BY <2>1, <2>2, <2>4 DEF TwinInv, FieldsAreNewest
  <2> QED
    BY <2>5, <2>7, <2>8 DEF Shown
<1> QED
  BY <1>1, OwnInvariant, UnarmedIsHarmless, PTL

\* The twins under the shells behave as TwinSpec says, so that what is proved
\* of it holds of what the shells run.
THEOREM ShellsRunTwins == ShellSpec => TwinSpec
<1>1. ControlsInit => Init
  BY DEF ControlsInit
<1>2. TwinInv => DispatchTypeOK
  BY DEF TwinInv, IInv
<1>3. OwnInv /\ TwinInv /\ [ShellNext]_controls => [TwinNext]_twins
  BY <1>2, ShellStepsAreTwins
<1> QED
  BY <1>1, <1>3, OwnInvariant, PTL DEF ShellSpec, TwinSpec

\* What is written and what has come back stay within the bound, and no frame
\* on the wire is counted for an echo twice.
Budget ==
  /\ IsFiniteSet(DOMAIN own)
  /\ \A i \in DOMAIN own : i \in DOMAIN wire /\ own[i] \in BOOLEAN
  /\ Len(air) + Cardinality(DOMAIN own) <= MaxSent

LEMMA ElementOfSeq ==
  ASSUME NEW T, NEW s \in Seq(T)
  PROVE  DOMAIN s = 1..Len(s) /\ \A i \in 1..Len(s) : s[i] \in T
OBVIOUS

\* A frame on its way back holds a frame and whether it was asked for.
LEMMA FlightFields ==
  ASSUME NEW r \in [frame : Frames, asked : BOOLEAN]
  PROVE  r.frame \in Frames /\ r.asked \in BOOLEAN
<1>1. r.frame \in Frames
  OBVIOUS
<1>2. r.asked \in BOOLEAN
  BY Zenon
<1> QED
  BY <1>1, <1>2, Zenon

LEMMA EchoCounts ==
  ASSUME OwnInv, DispatchTypeOK, Budget, Echo
  PROVE  Budget'
<1>1. PICK n \in 1..2 :
        /\ n <= Len(air)
        /\ Receive([i \in 1..n |-> air[i].frame])
        /\ own' = [ i \in DOMAIN own \cup (Len(wire) + 1)..(Len(wire) + n) |->
                     IF i \in DOMAIN own THEN own[i] ELSE air[i - Len(wire)].asked ]
        /\ air' = SubSeq(air, n + 1, Len(air))
  BY DEF Echo
<1> DEFINE chunk == [i \in 1..n |-> air[i].frame]
           new == (Len(wire) + 1)..(Len(wire) + n)
<1>2. /\ wire \in Seq(Frames) /\ air \in Seq([frame : Frames, asked : BOOLEAN])
      /\ Len(wire) \in Nat /\ Len(air) \in Nat
  BY DEF OwnInv, DispatchTypeOK
<1>3. \A i \in 1..n : air[i].frame \in Frames /\ air[i].asked \in BOOLEAN
  <2> SUFFICES ASSUME NEW i \in 1..n
               PROVE  air[i].frame \in Frames /\ air[i].asked \in BOOLEAN
    OBVIOUS
  <2>1. i \in 1..Len(air)
    BY <1>1, <1>2
  <2>2. air[i] \in [frame : Frames, asked : BOOLEAN]
    BY <1>2, <2>1, ElementOfSeq, Zenon
  <2> QED
    BY <2>2, FlightFields, Zenon
<1>4. wire' = wire \o chunk /\ chunk \in Seq(Frames) /\ Len(chunk) = n
  <2>1. chunk \in Seq(Frames) /\ Len(chunk) = n
    BY <1>3
  <2>2. wire' = wire \o chunk
    BY <1>1 DEF Receive
  <2> QED
    BY <2>1, <2>2
<1> HIDE DEF chunk
<1>5. DOMAIN wire' = 1..(Len(wire) + n) /\ DOMAIN wire = 1..Len(wire)
  BY <1>2, <1>4
<1>6. IsFiniteSet(new) /\ Cardinality(new) = n
  <2>1. Len(wire) + 1 \in Int /\ Len(wire) + n \in Int /\ Len(wire) + 1 <= Len(wire) + n
    BY <1>2
  <2> QED
    <3> DEFINE a == Len(wire) + 1
               b == Len(wire) + n
    <3>1. a \in Int /\ b \in Int /\ ~ (a > b) /\ b - a + 1 = n
      BY <1>2, <2>1
    <3> HIDE DEF a, b
    <3>2. IsFiniteSet(a..b) /\ Cardinality(a..b) = b - a + 1
      BY <3>1, FS_Interval
    <3> QED
      BY <3>1, <3>2 DEF a, b
<1>7. DOMAIN own \cap new = {}
  BY <1>2, <1>5 DEF Budget
<1>8. DOMAIN own' = DOMAIN own \cup new
  BY <1>1
<1>9. \A i \in DOMAIN own' : i \in DOMAIN wire' /\ own'[i] \in BOOLEAN
  <2> SUFFICES ASSUME NEW i \in DOMAIN own' PROVE i \in DOMAIN wire' /\ own'[i] \in BOOLEAN
    OBVIOUS
  <2>1. CASE i \in DOMAIN own
    BY <1>1, <1>2, <1>5, <2>1 DEF Budget
  <2>2. CASE i \notin DOMAIN own
    <3>1. i \in new /\ i - Len(wire) \in 1..n
      BY <1>2, <1>8, <2>2
    <3>2. own'[i] = air[i - Len(wire)].asked
      BY <1>1, <2>2
    <3> QED
      BY <1>2, <1>3, <1>5, <3>1, <3>2
  <2> QED
    BY <2>1, <2>2
<1> HIDE DEF new
<1>10. /\ IsFiniteSet(DOMAIN own')
       /\ Cardinality(DOMAIN own') = Cardinality(DOMAIN own) + n
  <2>1. /\ IsFiniteSet(DOMAIN own \cup new)
        /\ Cardinality(DOMAIN own \cup new)
             = Cardinality(DOMAIN own) + Cardinality(new) - Cardinality(DOMAIN own \cap new)
    BY <1>6, FS_Union DEF Budget
  <2>2. Cardinality(DOMAIN own \cap new) = 0
    BY <1>7, FS_EmptySet
  <2>3. Cardinality(DOMAIN own) \in Nat
    BY FS_CardinalityType DEF Budget
  <2> QED
    BY <1>6, <1>8, <2>1, <2>2, <2>3
<1>11. Len(air') = Len(air) - n
  BY <1>1, <1>2
<1>12. Cardinality(DOMAIN own) \in Nat
  BY FS_CardinalityType DEF Budget
<1> QED
  BY <1>2, <1>9, <1>10, <1>11, <1>12, MaxSentAssumption DEF Budget

LEMMA BudgetStep ==
  ASSUME OwnInv, DispatchTypeOK, Budget, [ShellNext]_controls
  PROVE  Budget'
<1>1. ASSUME UNCHANGED <<air, own>>,
             \A i \in DOMAIN wire : i \in DOMAIN wire'
      PROVE  Budget'
  BY <1>1 DEF Budget
<1>2. ASSUME UNCHANGED <<air, own, wire>> PROVE Budget'
  BY <1>1, <1>2
<1>3. ASSUME NEW d, NEW m, NEW v, Invoke(d, m, v) PROVE Budget'
  <2>1. /\ Len(air) + Cardinality(DOMAIN own) < MaxSent
        /\ air' = Append(air, [frame |-> FrameOf(d, m, v), asked |-> ~armed])
        /\ UNCHANGED <<own, wire>>
    BY <1>3 DEF Invoke, Send, twins, dispatch
  <2>2. Len(air') = Len(air) + 1 /\ Len(air) \in Nat
    BY <2>1 DEF OwnInv
  <2>3. Cardinality(DOMAIN own) \in Nat
    BY FS_CardinalityType DEF Budget
  <2>4. Len(air') + Cardinality(DOMAIN own') <= MaxSent
    BY <2>1, <2>2, <2>3, MaxSentAssumption
  <2> QED
    BY <2>1, <2>4 DEF Budget
<1>4. CASE SetActive
  BY <1>2, <1>4 DEF SetActive, SetModes
<1>5. ASSUME NEW d, Disable(d) \/ Enable(d) \/ Join(d) PROVE Budget'
  BY <1>2, <1>5 DEF Disable, Enable, Join, SetModes, Register
<1>6. ASSUME NEW chunk \in Seq(Frames), Hear(chunk) PROVE Budget'
  <2>1. wire \in Seq(Frames) /\ wire' = wire \o chunk
    BY <1>6 DEF Hear, Receive, DispatchTypeOK
  <2>2. \A i \in DOMAIN wire : i \in DOMAIN wire'
    BY <2>1
  <2> QED
    BY <1>1, <1>6, <2>2 DEF Hear
<1>7. \A f \in Frames : <<f>> \in Seq(Frames)
  OBVIOUS
<1>8. \A f, g \in Frames : <<f, g>> \in Seq(Frames)
  OBVIOUS
<1>9. CASE TwinStep
  BY <1>2, <1>9 DEF TwinStep, TwinLoop, TwinHandles, HandleReturns, HandleThrows, Handle,
                    EmitFrame, EndFrame, Skip
<1>10. CASE UNCHANGED controls
  BY <1>2, <1>10 DEF controls, twins, dispatch
<1>11. CASE \E f \in Traffic[Registered] \cap Frames :
              Hear(<<f>>) \/ \E g \in Traffic[Registered] \cap Frames : Hear(<<f, g>>)
  BY <1>6, <1>7, <1>8, <1>11
<1> QED
  BY <1>3, <1>4, <1>5, <1>9, <1>10, <1>11, EchoCounts DEF ShellNext

\* Under the shells, too: every frame sent is well-formed, and at most MaxSent
\* are written, on their way or back.
THEOREM ControlsAreTyped ==
  ASSUME Carried
  PROVE  ShellSpec => []ControlsTypeOK
<1>1. ControlsInit => Budget
  <2> SUFFICES ASSUME ControlsInit PROVE Budget
    OBVIOUS
  <2>1. DOMAIN own = {} /\ Len(air) = 0
    BY DEF ControlsInit
  <2> QED
    BY <2>1, FS_EmptySet, MaxSentAssumption DEF Budget
<1>2. TwinInv => DispatchTypeOK
  BY DEF TwinInv, IInv
<1>3. OwnInv /\ TwinInv /\ Budget /\ [ShellNext]_controls => Budget'
  BY <1>2, BudgetStep
<1>4. OwnInv /\ TypeOK /\ Budget => ControlsTypeOK
  <2> SUFFICES ASSUME OwnInv, TypeOK, Budget PROVE ControlsTypeOK
    OBVIOUS
  <2>1. \A i \in DOMAIN air : air[i].asked \in BOOLEAN /\ air[i].frame.ok
    <3> SUFFICES ASSUME NEW i \in DOMAIN air
                 PROVE  air[i].asked \in BOOLEAN /\ air[i].frame.ok
      OBVIOUS
    <3>0. air \in Seq([frame : Frames, asked : BOOLEAN])
      BY DEF OwnInv
    <3>1. air[i] \in [frame : Frames, asked : BOOLEAN]
      BY <3>0, ElementOfSeq, Zenon
    <3>2. SentBy(air[i].frame, air[i].asked)
      BY DEF OwnInv
    <3>3. air[i].frame.ok
      BY <3>2, SentIsFrame, Zenon
    <3> QED
      BY <3>1, <3>3, FlightFields, Zenon
  <2> QED
    BY <2>1 DEF ControlsTypeOK, OwnInv, Budget
<1> QED
  BY <1>1, <1>3, <1>4, OwnInvariant, ShellsRunTwins, TwinsAreTyped, PTL DEF ShellSpec

=============================================================================
