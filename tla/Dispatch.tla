------------------------------ MODULE Dispatch ------------------------------
(***************************************************************************)
(* How the I/K-bus hands frames to the device twins: registerDevice(),     *)
(* onData() and dispatchFrame() of packages/core/src/ikbus.ts, with the    *)
(* mode and the interest of a device (device.ts).                          *)
(*                                                                         *)
(* The loop over the devices is synchronous, but it calls out: a listener  *)
(* of `frame` or `error`, and any listener of the event a handler emits,   *)
(* may register a device or change a mode before the loop goes on.  So a   *)
(* step is one iteration of the loop, and SetModes and Register may happen *)
(* between any two.  No listener feeds bytes: transports emit `data` from  *)
(* callbacks of their own.                                                 *)
(***************************************************************************)
EXTENDS Naturals, Sequences, FiniteSets

CONSTANTS
  Devices,        \* the device objects
  Address,        \* Address[d]: the `address` of d
  Group,          \* broadcast and multicast addresses (GLO, LOC, ANZV)
  Frames,         \* the frames the wire may carry, records with src and dst
  Preregistered,  \* the lists of devices registered before the bus is started
  MaxFrames       \* bound: frames received

ASSUME PreregisteredAssumption ==
  /\ Preregistered \subseteq Seq(Devices)
  /\ \A r \in Preregistered : \A i, j \in DOMAIN r :
       Address[r[i]] = Address[r[j]] => i = j
ASSUME MaxFramesAssumption == MaxFrames \in Nat

Modes == {"passive", "active", "disabled"}

VARIABLES
  registry,   \* devicesList
  mode,       \* mode[d]: the `mode` of d
  wire,       \* every frame the stream has returned, oldest first
  current,    \* index in wire of the frame being dispatched
  position,   \* index in registry of the next device; 0: `frame` not emitted
  errors,     \* <<i, d>>: d threw on frame i and `error` was emitted
  log,        \* history: log[d] are the indices of the frames d handled
  steady      \* history: devices registered and enabled ever since the
              \* dispatch of the current frame began

dispatch == <<registry, mode, wire, current, position, errors, log, steady>>

DispatchTypeOK ==
  /\ registry \in Seq(Devices)
  /\ mode \in [Devices -> Modes]
  /\ wire \in Seq(Frames)
  /\ current \in 1..(Len(wire) + 1)
  /\ position \in 0..(Len(registry) + 1)
  /\ errors \in SUBSET (Nat \X Devices)
  /\ log \in [Devices -> Seq(Nat)]
  /\ steady \in SUBSET Devices

DispatchInit ==
  /\ registry \in Preregistered
  /\ mode = [d \in Devices |-> "passive"]
  /\ wire = <<>>
  /\ current = 1
  /\ position = 0
  /\ errors = {}
  /\ log = [d \in Devices |-> <<>>]
  /\ steady = {}

-----------------------------------------------------------------------------
Registered == {registry[i] : i \in DOMAIN registry}

Idle == current > Len(wire)

Enabled(d) == mode[d] # "disabled"

\* interestedIn(): own frames, frames to it, and frames to a group.
Interested(d, f) ==
  \/ f.src = Address[d]
  \/ f.dst = Address[d]
  \/ f.dst \in Group

\* registerDevice(): an address that is taken is refused (an exception, and
\* nothing has changed).
Register(d) ==
  /\ d \notin Registered
  /\ \A e \in Registered : Address[e] # Address[d]
  /\ registry' = Append(registry, d)
  /\ UNCHANGED <<mode, wire, current, position, errors, log, steady>>

\* Assignments to `mode`, of one device or of several.
SetModes(next) ==
  /\ mode' = next
  /\ steady' = {d \in steady : next[d] # "disabled"}
  /\ UNCHANGED <<registry, wire, current, position, errors, log>>

\* onData(): the frames that feed() found in a chunk.
Receive(chunk) ==
  /\ Idle
  /\ Len(wire) + Len(chunk) <= MaxFrames
  /\ wire' = wire \o chunk
  /\ UNCHANGED <<registry, mode, current, position, errors, log, steady>>

\* dispatchFrame() emits `frame` first.
EmitFrame ==
  /\ ~Idle
  /\ position = 0
  /\ position' = 1
  /\ steady' = {d \in Registered : Enabled(d)}
  /\ UNCHANGED <<registry, mode, wire, current, errors, log>>

\* The loop is at device d.
At(d) == position \in DOMAIN registry /\ registry[position] = d

\* `continue`.  (The first form is a bug: it goes back to the same device.)
SameDevice == UNCHANGED position
Continue   == position' = position + 1

Skip(d) ==
  /\ At(d)
  /\ ~Enabled(d) \/ ~Interested(d, wire[current])
  /\ Continue
  /\ UNCHANGED <<registry, mode, wire, current, errors, log, steady>>

\* What follows when a handler throws.  (The first form is a bug: the
\* exception leaves the loop and the frame is over.)
AbortFrame == position' = Len(registry) + 1
NextDevice == position' = position + 1

Handle(d) ==
  /\ At(d)
  /\ Enabled(d)
  /\ Interested(d, wire[current])
  /\ log' = [log EXCEPT ![d] = Append(@, current)]
  /\ UNCHANGED <<registry, mode, wire, current, steady>>

\* handle() returned, or threw and `error` was emitted.
HandleReturns(d) ==
  /\ Handle(d)
  /\ position' = position + 1
  /\ UNCHANGED errors

HandleThrows(d) ==
  /\ Handle(d)
  /\ NextDevice
  /\ errors' = errors \cup {<<current, d>>}

\* The next frame of the chunk.  (The first form is a bug: the same one.)
Redo      == UNCHANGED current
NextFrame == current' = current + 1

EndFrame ==
  /\ ~Idle
  /\ position > Len(registry)
  /\ NextFrame
  /\ position' = 0
  /\ UNCHANGED <<registry, mode, wire, errors, log, steady>>

Loop ==
  \/ EmitFrame
  \/ \E d \in Devices : Skip(d) \/ HandleReturns(d) \/ HandleThrows(d)
  \/ EndFrame

\* What others do to the bus, before or in the middle of a frame.
Others ==
  \/ \E d \in Devices : Register(d)
  \/ \E next \in [Devices -> Modes] : SetModes(next)
  \/ \E f \in Frames : Receive(<<f>>)
  \/ \E f, g \in Frames : Receive(<<f, g>>)

DispatchNext == Loop \/ Others

DispatchSpec == DispatchInit /\ [][DispatchNext]_dispatch

-----------------------------------------------------------------------------
(***************************************************************************)
(* Properties.                                                             *)
(***************************************************************************)

\* "a single bad device can't crash the dispatch loop" (ikbus.ts:15-16): a
\* device that is registered and enabled all along has handled the frame once
\* the loop is past it, whatever other devices throw and whatever listeners
\* do to the registry and to other devices' modes in the meantime.
NoFrameSkipped ==
  \A i \in DOMAIN registry :
    LET d == registry[i] IN
      (i < position /\ d \in steady /\ Interested(d, wire[current]))
        => log[d] # <<>> /\ log[d][Len(log[d])] = current

\* A device sees frames in wire order and no frame twice, also if it is
\* disabled and enabled again, or others are registered, half-way.
InWireOrder ==
  \A d \in Devices : \A i, j \in DOMAIN log[d] :
    i < j => log[d][i] < log[d][j]

\* Every frame that arrived is dispatched in the end, the whole chunk too.
ChunksAreFinished == []<>Idle

=============================================================================
