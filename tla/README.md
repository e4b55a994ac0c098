# xbusx: a verification project

This directory holds TLA+ models of xbusx (the `@emdzej` packages that talk to
the BMW I/K-bus and to the DS2 diagnostic D-bus from Node or from a browser),
the TLC configurations that check them on small instances, and TLAPS proofs of
what matters most for every value of the constants. Every definition is
translated from the code under `src/packages` and `src/apps`;
`PROJECT.json` maps each one to its lines.

## The system

| component | state it keeps | operations | what is hard | what makes it correct |
|---|---|---|---|---|
| `DBus` (`dbus-devices/src/dbus.ts`) | `queue`, `queueRunning`, the `pending` slot with its timer, `started`, the interval handle | `request`, `drainQueue`, `onData`, the timeout closure, the catch handler of a write, `start`, `stop` | four events race for one slot; awaits inside the queue loop; late replies; failed writes; a stop with requests queued | one request at a time in FIFO order, each settled once, no timer for a request that is not pending, no reply lost or used twice |
| `IKBus` (`core/src/ikbus.ts`) | `started`, interval handle, registered devices | `registerDevice`, `send`, `start`, `stop`, `onData`, `dispatchFrame` | `started` is tested before an await and assigned after it; the loop over the devices calls out; a throwing device | an idle check as long as the bus is started; every enabled device gets every frame, once, in wire order |
| `FrameStream`, `DBusFrameStream` (`*-protocol/src/stream.ts`), framing, checksum | `buffer`, `lastByteAt` | `feed`, `drain` with `findValidFrameFrom`, `tickTimeout`, `reset` | resynchronisation in noise, chunk boundaries, the polled idle timeout, boundary lengths | only valid, disjoint frames in wire order, none missed, bounded buffer, stale bytes gone in time |
| transports (`MemoryTransport`, `SerialTransport`, `WebSerialTransport`) | `opened`, the port, reader, writer | `open`, `close`, `write`, the read loop, the port's own close | operations that fail or never settle, unplugging | a port that is gone is noticed |
| device twins (`ikbus-devices/src`) | a mirror of what modules said on the bus | `handle`, methods that send, the manifest of controls | frames that overtake local writes, parsers that throw, several sends per method, state read before and written after an await, broadcasts nobody awaits | a field is the newest reading; what is sent is one consistent order |
| `Vehicle`, `TypedEmitter`, `Device` (`core/src`) | ignition and variants, listener lists, mode | setters, `on`, `off`, `once`, `emit` | listeners that change the list while it is walked, nested emissions | the listeners of the moment of the emission are called, once |
| ECU twins (`dbus-devices/src/ecu.ts`, `dme.ts`, `egs.ts`) | identification, fault lists, coding, session | one request/response exchange per operation | state assigned after an await from a reply that may belong to another request | a field is what the ECU said to that question |
| command codecs (`ikbus-commands`, `dbus-commands`) | none | `build...`, `parse...` | bit fields, BCD, saturation, lengths, separators in texts | what a frame can express arrives; a length that is accepted is enough |
| web application (`apps/web`) | connection, switch, settings, command bar, log | connect, disconnect, toggle, dialog, send | ports that open and close late, two writers of one stored record, a send that ends after the next was typed | no open port without a toolbar; a page that says passive is; choices are kept |
| CLI and terminal UI (`apps/cli`) | the session and its port, exit code, selection, log | monitor, invoke, TUI | signals and quitting while the port opens or closes | a process ends, with its port closed and the right code |

The transport emits `data`; the orchestrator feeds the frame stream and either
dispatches the frames to the device twins (I/K-bus) or resolves the pending
request (D-bus). Twins call `send` or `request`; on the single wire of the
I/K-bus what is sent comes back as an echo and is dispatched like any frame.
Applications start and stop the orchestrator, switch the twins between passive
and active and show what twins and orchestrators emit. Everything runs on one
JavaScript event loop: the concurrency is the interleaving of callbacks, of
what follows each `await`, and of what listeners do inside an `emit`.

## Modules

| module | what it is |
|---|---|
| `BusLifecycle` | `start()` and `stop()`, code shared by `DBus` and `IKBus`: the calls suspended in `open()` and `close()` are counted, `tickers` counts the intervals that really run, `timeoutTimer` says whether the field holds a handle, `overlaps` how many calls began while another awaited |
| `RequestQueue` | the abstract specification: a FIFO queue with one server that settles each request once |
| `DBus` | extends `BusLifecycle` with the request queue; an action per callback; implements `RequestQueue` |
| `EcuTwin` | extends `DBus` with the ECU twins and the ECUs behind them |
| `FrameStream` | the decoder, parameterised by the frame lengths and by what LEN counts, so that it is both the I/K-bus and the D-bus stream |
| `Dispatch` | registration, modes and the dispatch loop of `IKBus` |
| `Twins` | extends `Dispatch` with the mirrors of twelve device twins and the shared `Vehicle` |
| `Controls` | extends `Twins` with every method that sends a frame, the manifests, arming and echoes |
| `Commands` | the twins whose methods span an await: steering wheel, general module, CD changer |
| `Emitter` | `TypedEmitter` for one event |
| `Layouts` | what a codec is: fields, lengths, tables, `Build` and `Read` |
| `ClusterFrames`, `UnitFrames` | the 64 pairs of builder and parser of `ikbus-commands`, as layouts |
| `Codecs` | the codecs at work, and the two lists of texts |
| `WebApp`, `Settings` | the page with its connections; the stored settings with their two writers |
| `Cli` | a process of the CLI from port to exit code |
| `Panels` | command bar, log, selection of the terminal UI |
| `MC...` | constants of the runs; `MCCommands` and `MCShells` put parts that share nothing side by side, a behaviour being about one of them |
| `...Proofs` | the theorems, see below |

### DBus

An action is one JavaScript callback up to its next `await`. `Request` is
`request()` with the executor of `enqueue()` and the synchronous part of
`drainQueue()`: either the closure stays in `queue`, or the queue is empty and
`Transmit` runs at once. `DrainContinue` is what follows `await task()`.
`TimerFire`, `WriteFail`/`WriteRefused` and `Data` are the timeout closure, the
catch handler and `onData`; they test the shared slot and not the request they
were created for, and so do the actions. `Stop` is `stop()` up to its await.

Microtasks run before timers and I/O: `MicrotaskDue` blocks those callbacks
while a `drainQueue()` activation can go on. Callers are unconstrained and may
act at any time, also between microtasks. `write[r]` is the promise of
`transport.write()`: with `PromptIO` (memory transport) it is settled at once;
otherwise it is settled any time later, or never, as with a serial port that is
closed while it writes. A frame is its destination and the request it answers
or echoes. The model assumes:

- an ECU answers a request at most once, after its bytes were handed to an open
  port, at any time or never; frames for the tester that answer no request are
  not modelled;
- the listeners of `frame`, `txFrame` and `error` only observe;
- calls of `start()` and `stop()` overlap in any way; the runs count how often a
  call begins while another one awaits the port, and stop at `MaxOverlaps`.

### EcuTwin

`plan[r]` is the method (and the twin) behind request `r`. `Execute` is the ECU
carrying out a request and answering positively or not; `Finish` is what
follows `await this.request(...)` in the method: `classify...`, and the field
assigned or emptied. The twin never compares the reply with its request, nor
does the model: with `DBus` underneath, a late reply can reach the wrong method.
What a reply carries is abstracted to the request it answers.

### FrameStream

The buffer is a window (`start`, `fed`) of the whole wire, so that "every valid
frame" has a meaning across chunks. Each iteration of the loop in `drain()` is
a step (`SkipByte`, `Accept`, `Recover`, `EndDrain`), and `feed()` is not
interrupted, which is what the event loop gives. Dropped windows and returned
frames are kept as history. `decode()` cannot fail in `drain()` but for the
checksum, because the lengths have been tested before. Time is counted in units
that the configuration chooses; the interval is assumed punctual (a delayed
interval only lengthens the bound of `StaleBytesAreShortLived` by its delay).

### Dispatch, Twins, Controls

A step of `Dispatch` is one iteration of the loop of `dispatchFrame()`: `Skip`,
or `Handle` with the two ways it can end, `EmitFrame` before the first device,
`NextFrame` after the last. The loop itself is synchronous, but handlers and
`frame` listeners may call back: `SetModes` and `Register` are therefore
enabled between any two iterations, and the loop reads the growing array. No
listener feeds bytes, because transports emit `data` from their own callbacks.

`Twins` gives each twin one field per command it knows: `Outbound` are the
commands it takes from its module, `Inbound` those it takes when they are
addressed to it. A frame carries a value and whether its parser accepts it; a
parser that throws leaves `handle()` before any assignment, and the dispatcher
reports it. `TellVehicle` is the part of `IKE.handle()` that writes `Vehicle`,
with the comparisons that suppress events.

`Controls` lists, per twin, the methods with source, destination and command
of the frame they send, and which of them the manifest offers, gated or not.
`Send` is a method of the library (it sends in any mode, see below), `Invoke` a
control of a shell, `Echo` the frame coming back from the wire.

### Commands and Emitter

`calls[c]` is one method call: the frames it has yet to write and its stage.
`Begin` is the part before the first await, `WriteAgain` a further write,
`Return` what follows the last await (the toggle of `routing`, for instance,
is here, while the routing was read in `Begin`), `Reject` a failing write.
`tx` is what was handed to the transport, `written` says which of it was really
written: a rejected frame never is.
Several calls are under way at once, as `IKBus.send()` does not queue. The CD
changer is applied synchronously to each request (`Applied` is `applyRequest`)
and starts a broadcast nobody awaits. `Emitter` keeps the stack of emissions
under way, each with the snapshot it walks.

### Codecs

A layout names the command, the lengths that the parser asserts, the ways the
builder can be called, the fields with position, size and kind (coded by
tables, a number as it is, or rounded and clamped) and the text at the end;
`Build` and `Read` interpret it. `Compose` calls a builder, `Receive` hands a
parser what another unit may send, `BuildAgain` gives what was read to the
builder. Tables of names that a parser hands on as numbers are left out.

### WebApp, Settings, Cli, Panels

`WebApp` has one transport per call of `connect()`, since a disconnected port
may still be closing, or opening, when the next is connected: `Opened`,
`OpenFailed`, `Closed` and `Unplugged` are callbacks of the browser,
`Disconnect` and `DisconnectAgain` the button, `shown` the `connection` of
`App.svelte`. `Settings` has the stored record, the copy that `App.svelte` keeps
of it, and the dialog, which reads and writes the stored one. `Cli` follows the
three commands that open a port: signals, quitting, failing opens, unplugging,
closes that fail, and the error that a process ends with, which decides its
exit code; `stopper` says whose `stop()` awaits the port, the command's own or
the one of `TuiRoot` for a session that was opened too late. `Panels` follows the inputs of the command bar across a send that
ends later, the capped log, and the selection indices.

## What the runs check

| run | what it shows |
|---|---|
| `DBusSerial` | three concurrent requests on a serial port whose callbacks come late, fail or never come, with start() and stop() between them: `TypeOK`, `HalfDuplex`, `TimerGuardsPending`, `NoLostWakeup`, `AnswersAreReplies`, `MatchUnlessAbandoned`, and that `DBus` implements the abstract queue (`ImplementsRequestQueue`) |
| `DBusMemoryLive` | with a transport that settles at once: every accepted request settles (`EverySettles`), the abstract queue is served for ever (`ImplementsLiveRequestQueue`), and every interval that leaks is owed to an overlap of `start()` and `stop()` calls of its own (`LeaksNeedOverlaps`) |
| `FramesDBus` | every wire of seven bytes over {4, 6, 9}, cut in every way, with a `reset()`: `BufferBounded`, `FramesAreSound`, `NoFrameIsMissed` |
| `FramesIKBus` | two valid I/K-bus frames, the first perhaps behind the remnant of a third, cut in every way, and silences: `NoFrameIsMissed`, `StaleBytesAreShortLived` |
| `TwinsOnBus` | pairs of twins on one bus, with other modules' frames, malformed ones, controls, echoes, twins registered, disabled and enabled meanwhile: `NoFrameSkipped`, `InWireOrder`, `ChunksAreFinished` (liveness), `ShowsNewest`, `VehicleFollowsCluster`, `OwnWritesAreShown` (what a control wrote and the bus echoed is what the addressed twin shows; unarmed controls only ask) |
| `Commands` | overlapping calls with failing writes: `RoutingCountsPresses`, `DoorsTogether` (a call never mixes the jobs of two body variants; undisturbed lock calls leave all doors alike), `RadioToldState`; nested emissions: `EmissionsHold`; codecs: `FieldsArrive`, `LengthsAgree`, `SaysTheSameAgain`, `TextsSurvive` |
| `EcuTwins` | two methods at once on two ECU twins, ECUs that answer late, negatively or never: `FieldsHoldTheirReplies`, `ListSurvivesNoClearing`, `ForgetsWhatIsCleared` |
| `Shells` | `NoOrphanPort`, `PassiveMeansPassive`, `DisconnectEnds` (page), `ChoicesHold` (settings), `EndsClosed`, `LeavingEnds` (CLI), `PanelsHold`, `OnlySentIsErased` (panels) |
| `DBusSettles`, `LifecycleIdleCheck`, `UnplugIsNoticed`, `SettingsChosen` | expect a violation: findings 1 to 4 |

### Bounds, and why they are enough

- `DBusSerial`: three requests are one in the slot, one whose late events can
  hit it, and one in the queue; two frames per chunk are an echo or a stray
  reply before the frame that counts. `MaxOverlaps = 1` lets one call of
  `start()` or `stop()` begin while another awaits the port (two `start()`s, two
  `stop()`s, or, after a failed close, a mixture), after which calls follow each
  other. `DBusMemoryLive` allows two such overlaps, so that two intervals leak.
- Frames: seven bytes hold an incomplete frame with a complete one inside it,
  and a frame behind noise; {4, 6, 9} are the least and the greatest length and
  one out of range. `MaxFrame >= MinFrame + 2` is needed for the lookahead to
  fire. `MaxIdle` caps silence beyond the timeout plus a period.
- `TwinsOnBus`: every twin occurs in some pair, and those that talk to each
  other are together, since a field depends on one twin, its module and one
  other speaker only. Two frames received and one sent are the least in which
  an echo overtakes or follows a frame of the same field; two values are what
  "newest" needs. Twins that can be disabled or come late are those in
  `Fragile` and `Late`; the theorems have no such restriction.
- `Commands`: three calls are two that overlap and one that comes between; the
  tracks and discs wrap at 3 and 2. Three emissions nest two deep twice over.
  Arguments are the ends of each field's range and one beyond, characters a
  NUL, a separator, a space, ASCII, Latin-1 and one that no byte can hold;
  `Foreign` bytes are tried at each place of a payload of every accepted length.
- `EcuTwins`: two requests are what a mix-up takes; the plans pair reading,
  clearing and every other method.
- `Shells`: three connections are one closing, one open, one to come. A log of
  two with three entries overflows once; the code's capacities are 300 and 200.

Deadlock is not checked where the counters run out (`Commands`, `Shells`,
`UnplugIsNoticed`): those parts stop when their bounds are used up or a process
has exited.

### Fairness

`DBus!FairSpec` is weakly fair for `DrainContinue`, `WriteRefused` (microtasks
run) and `TimerFire` (an expired timer is served) of every request and for
nothing else: ECUs may be silent, writes may hang, callers may stay away. The
timeout alone must do. `ShellFairSpec` is weakly fair for `TwinStep`: a
synchronous loop goes on. `WebFairness` says that the browser settles the opens
and closes it was asked for, `CliFairness` the same of the operating system,
that a control's method returns or throws, that the error of the terminal UI
disappears after its three seconds and that the process ends once nothing keeps
it. Users and signals are never obliged to do anything.

### Findings

1. `DBusSettles`: a write that fails after its request has timed out empties the
   slot of the next request and clears its timer (`dbus.ts:143-149`). That
   request never settles and the queue waits for it for ever.
2. `LifecycleIdleCheck`: a rejected `close()` leaves `started` set with the
   interval cleared (`ikbus.ts:91-96`); `start()` then returns early.
3. `UnplugIsNoticed`: when the adapter is pulled out, the read loop of
   `WebSerialTransport` ends with an `error`; `opened` stays set and no `close`
   is emitted, so the page shows its toolbar for ever.
4. `SettingsChosen`: `App.svelte` stores its own, older copy of the whole
   record whenever the switch, the baud rate or the protocol changes, and so
   undoes the theme and the log levels chosen in the dialog.

Other places where the code differs from what a reader may expect, met while
modelling and visible in the models without a run of their own:

- A late reply resolves the next request (`dbus.ts:157`, against the class
  comment at 35-37); `MatchUnlessAbandoned` says precisely when, and in
  `EcuTwin` `Mixed` marks the behaviours in which a twin may be misled.
- Overlapping `start()` calls create two intervals and lose the handle of one
  (`ikbus.ts:81-86`). `LeaksNeedOverlaps` counts: one such interval per overlap
  and none otherwise, and `IntervalsLeakByOverlaps` proves it for any number.
- A `statusBroadcast` of the CD changer reads the state after its await
  (`cdc.ts:119-130`), so it may tell a state that a later call has set and whose
  write is still under way or fails afterwards: the exception that
  `RadioToldState` names. Once the newest frame is written, all agree.
- A control that succeeded ends with exit code 1 when `stop()` fails
  (`invoke.ts:106-107`), and that error hides the one of a control that failed;
  a monitor exits with 0 whatever its `stop()` did (`monitor.ts:103-107`).
  `EndsClosed` says precisely when. If the terminal UI is left while its port
  opens and the late session cannot be stopped, the error is dropped
  (`TuiRoot.tsx:37-44`) and the open port keeps the process alive: the exception
  in `LeavingEnds`. A port whose close failed is still open for its transport
  (`serial-transport.ts:93-101`): the other exception in `EndsClosed`.
- `drain()` returns a frame found inside an incomplete one, so a valid frame cut
  in two may be lost (`dbus-protocol/src/stream.ts:80-87`), and `feed()` joins
  new bytes to stale ones until the next poll.
- The methods of the library send in any mode (`ike.ts:315`); only the shells
  gate them. `OwnWritesAreShown` is about the shells.
- A language frame that GT sends to the cluster is not shown (`ike.ts:252`
  against 93), and a CCM status from address 0x30 is dropped (`lcm.ts:74`
  against 30-33).
- Three builders accept an empty text that their own parsers refuse (the
  navigation control, body text and direct dial); PDC distances and the
  counts in text headers wrap modulo 256; texts lose trailing blanks, what
  follows a NUL and what exceeds 20 characters; control characters in a menu
  entry or a station name split it. `TextsSurvive` and `LengthsAgree` state
  what holds in spite of that.
- `onClose` of a connection that was disconnected twice may take the page from
  the next one: the exception in `NoOrphanPort`. A monitor signalled again while
  it closes its port exits before that: the exception in `EndsClosed`.

## What is proved

All theorems hold for every value of the constants that satisfies the named
`ASSUME`s, which TLC evaluates in the runs.

`DBusProofs`, for any set of requests and any bounds. The inductive invariant
`IInv` has eight parts. `OneAwaited` (one activation, one request),
`NewIsUnwritten` and `QueuedIsFresh` (queued requests are distinct, unsettled
and unwritten), `PendingIsServed` (the slot holds the unsettled request that is
awaited), `HandleIsLive` and the type invariant are needed because
`TimerGuardsPending` and `NoLostWakeup` are not inductive alone: a catch
handler may hit another request's slot, and only `PendingIsServed` says that
settling is then a no-op for whoever was settled before. From it follow
`TypeCorrect`, `TimersAreNeverStale`, `QueueIsServed` and `OneInFlight`.
`RepliesResolveOnce` and `MismatchNeedsAbandonment` are proved on top of it
with one history invariant each (`AnswerInv`, `MatchInv`).
`IntervalsLeakByOverlaps` holds for any number of overlapping calls. Its
invariant `LeakInv` also counts the `start()` calls that are still awaiting
`open()`: each of them may add an interval later, but only the first began
without an overlap.

`Refinement`, in the same module, says that `DBus` implements
`RequestQueue!SafeSpec`. Beyond `IInv` it needs `WrittenIsServed` (an unsettled
request that was written is the awaited one), because the catch handler of a
write settles its own request and not the one in the slot.

`FrameStreamProofs`, for any wires, frame lengths, checksum function and
chunking. The invariant says that what lies before `scan` is settled for good
(`AllHandled`: every framed span that begins there was returned, overlaps a
returned frame or was discarded, even if its last byte has not arrived yet) and
that between chunks no complete frame lies behind it (`NothingWaits`).
`AcceptedIsFramed` and `FramedIsAccepted` tie the decoder's tests to the
framing. Theorems: `TypeCorrect`, `BufferIsBounded`, `SoundFrames`,
`NothingMissed`, `StaleBytesGo`.

`TwinsProofs` goes from the dispatch loop to the shells, in four layers.

1. *Dispatch*, for any devices, registrations, modes and frames. `IInv`:
   addresses are registered once (`NoDuplicates`), the log holds the frame under
   way only for devices the loop has passed (`Logged`), an idle loop stands at
   the head (`IdleAtHead`), and a device counted as enabled since the dispatch
   of the frame began is registered and enabled (`SteadyIsEnabled`). Theorems:
   `EveryDeviceIsServed` (`NoFrameSkipped`), `FramesComeInOrder` (`InWireOrder`).
2. *Twins*, over `TwinSpec`: any twins, frames, registrations and modes.
   `TwinInv`: what is logged was received, and each field is the newest reading
   of its command at every step (`FieldsAreNewest`), not only when the loop is
   idle, which is what makes it inductive. `VehicleInv`: no two objects with the
   cluster's address, only the cluster writes, the events form a chain that ends
   in the present state, which follows the cluster's field. Theorems:
   `TwinsShowNewest`, `VehicleMirrorsCluster`.
3. *Controls and echoes*, over `ShellSpec`. `ShellsRunTwins` (`ShellSpec =>
   TwinSpec`) shows that the shells with their frames on the wire are one way to
   run the twins, so that what layer 2 says holds of them; it needs
   `FramesAssumption` (what the methods send is among the frames the bus may
   carry). `OwnInv` follows a written frame to its echo: what is in the air was
   sent by a method that exists (`SentBy`), and what is counted as an echo stands
   in the wire and was sent likewise. Theorems: `EchoesAreShown`
   (`OwnWritesAreShown`), `UnarmedIsHarmless`.
4. *Types*: `TwinsAreTyped`, `ControlsAreTyped`. Both have the hypothesis
   `Carried`: the values that frames carry are among `Values`, which holds in
   `MCControls`, where frames are records over `SomeValues`. The bound on frames
   in `ControlsTypeOK` needs `Budget`, that an echo is counted once.

`EmitterProofs`: `EmissionsAreSound`, for any listeners and depth of nesting:
each emission calls a prefix of its snapshot, and a one-shot listener fires
more than once only if the emission was nested before its turn.

`EcuTwinProofs`, for any twins and requests, over any ECUs that answer late,
negatively or never. `TwinsUseTheQueue` (`EcuSpec => Spec /\
ImplementsRequestQueue`) composes the refinement: with twins and ECUs hidden the
orchestrator behaves as `DBus`, so that all of `DBusProofs` applies, and the
requests of the twins go through the abstract queue. `FieldsHold`
(`FieldsHoldTheirReplies`), `ListsAreYounger` (`ListSurvivesNoClearing`) and
`OnlyClearingForgets` (`ForgetsWhatIsCleared`) say what a twin may show unless a
reply was mixed up. Their invariant `TwinInv` states the order a twin relies on
without saying so: requests resolve in the order in which the ECUs executed
them, and at most one request at a time is resolved and not yet taken up by its
method. Without it the newest reply could be overwritten by an older one
whose continuation runs later.

`CommandsProofs`: `CallsInv` keeps calls and writes together (a write belongs to
one call; twins other than the general module write one frame per call; an
awaited call has not ended). `RadioKnowsTheState` (`RadioToldState`) rests on
`RadioInv`: only frames whose write was reported on are written
(`WrittenInv`), the changer's frames are handed over in the order of its calls
(`InCallOrder`), and the newest of them carries the changer's state.
Overlapping broadcasts tell the radio and the listeners states in that order, so
that all agree once the newest frame is written.
`RoutingInv` (`Flips` is a parity, only the steering wheel flips) gives
`RoutingIsParity`. `DoorsGoTogether` (`DoorsTogether`) rests on `GMInv`: a call of
the general module writes the jobs of the variant it began with
(`CommandsOfGM`), in order (`FramesInOrder`), one at a time while it runs
(`PendingRun`), and a call that returned has handed over all of them; front and
rear lock then come in pairs, and a pair that no other frame separates leaves
the doors alike.

`CodecsProofs` goes from the parts of a frame to whole frames.

1. *Fields and texts*, for every value of an argument and every layout: a number
   that has room arrives (`NumbersArrive`), a rounded one is read as the nearest
   that can be expressed (`RoundedAreNearest`: `RoundedToNearest` compares with
   the neighbours only, the theorem with every value), names and decimals are
   read as written (`NamesArrive`, `DecimalsArrive`), and of a text at most the
   end is lost, for any text, padding, limit and trim (`TextsLoseOnlyTheirEnd`).
2. *Frames*: the builder adds the bits of all fields in each byte, and
   `EveryArgumentArrives` says that the parser finds those of each field again. It
   rests on an argument about sums: in a byte, the fields above a field are
   multiples of the first bit beyond it, those below stay under its lowest bit, so
   that dividing and taking the remainder leaves the field (`ChunkComesBack`,
   `BitsArrive`). That fields are so placed (`Apart`), that codes have room
   (`Codes`, `Roomy`), that endings trim what they pad (`Endings`) and that
   lengths agree (`WayAccepted`, `ReadsSound`, `LengthsFit`) are the facts about
   the 64 tables: `LayoutsAssumption`, which TLC evaluates for every layout, with
   `LongestPayload = 40`.
3. *Behaviours*: `CodecsInv` keeps with a payload how it came about: `Made` (what
   was built is built of numbers and of a text that fits the frame), `Received`
   (it is made of octets, and `before` is what was read of it), `Reread` (the
   arguments are the values that had been read). The actions do not say so:
   `BuildAgain` chooses values out of sets, and only the uniqueness of the names
   of fields makes that one value each. From it follow `FieldsAlwaysArrive`
   (`FieldsArrive`), `LengthsAlwaysAgree` (`LengthsAgree`),
   `WhatWasReadIsSaidAgain` (`SaysTheSameAgain`), and, with `TypesInv` (what was
   not received has not been read; every payload fits), `CodecsAreTyped`. The
   actions of `Codecs` try a few arguments, texts and payloads; `CodecsInv` admits
   all numbers, texts and bytes, so that the properties follow for those as well.
4. *Lists*: `TextsAlwaysSurvive` (`TextsSurvive`). The loop of the parser is
   followed along the joined bytes: at the end of each part it holds exactly the
   parts before (`MenuArrives`, `StationsArrive`, for any number of texts and
   stations of any length).

Sums, joined sequences and the parsers' loop are recursive functions on
`0..Len(s)`. That such a function exists and is the only one is proved by
induction over a set of naturals (`Induction`, `RunExists`, `RunIsOne`); `SumsStep`,
`JoinsStep` and `SplitsStep` say what it does at each index.

`ShellProofs`: `PortsHaveToolbars` and `TwinsFollowTheSwitch` from `WebInv` (one
port opens at a time, and what is shown is open or closing); `SettingsAreKept`;
`ProcessesEndClosed` from `CliInv` (one stop at most is awaited, `invoke` awaits
it with the outcome of its control, and while a process lives its error is that
of its control and only `TuiRoot` can have dropped one of a `stop()`); `PanelsAreSound` and `NothingElseIsErased` from
`PanelsInv`, for any texts, controls and log capacity.

Every component's type invariant is a theorem of its specification, too
(`TypeCorrect` of `DBusProofs` and `FrameStreamProofs`, `EcuTypeCorrect`,
`CommandsAreTyped`, `EmitterIsTyped`, `WebIsTyped`, `SettingsAreTyped`,
`ProcessesAreTyped`, `PanelsAreTyped`, `CodecsAreTyped` and the two of
`TwinsProofs`).

Only model-checked:

- liveness (`EverySettles`, `ImplementsLiveRequestQueue`, `ChunksAreFinished`,
  `DisconnectEnds`, `LeavingEnds`), which the prover cannot do;
- the facts about the tables of the 64 layouts (`LayoutsAssumption`): there is
  nothing in them to generalise; TLC goes through all of them;
- the runs that expect a violation;
- the XOR checksum itself (the stream proofs hold for any function).

## Not modelled, and why

- Rendering (Svelte, Ink, chalk), wording, help texts, i18n, logging back ends
  and the list command: no state that a property could be about.
- The lists of constants, addresses and names, but for those that decide
  something.
- What positive D-bus replies carry (fault lists, identification fields): the
  codecs of `dbus-commands` are abstracted to the classification of replies.
- `MemoryTransport.pair`, which serves the tests; the drain after a serial write
  and port options; the writer's lock of Web Serial. The transports are modelled
  as their users see them, within `BusLifecycle`, `DBus`, `WebApp` and `Cli`.
- `Vehicle`'s VIN and chassis, which are stored and shown, and nothing more.
- Bytes that survive a stop in the stream's buffer (`dbus.ts:74`): they last to
  the first poll, and no document promises otherwise; a composition of
  `BusLifecycle` with `FrameStream` would say so.

Next in line: the layouts of `dbus-commands`, so that `EcuTwin` can tell fault
lists apart; the composition of `BusLifecycle` with `FrameStream`.
