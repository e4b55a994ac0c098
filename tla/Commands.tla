------------------------------ MODULE Commands ------------------------------
(***************************************************************************)
(* The twins whose methods do more than send one frame, and so span an     *)
(* await: the steering wheel (mfl.ts), the lock jobs of the general module *)
(* (gm.ts) and the emulated CD changer (cdc.ts).  The methods run on       *)
(* IKBus.send(), which writes without a queue: several calls may be under  *)
(* way at once, their bytes go out in the order of the writes, and a write *)
(* may fail.  Bytes are reported written in that order as well.            *)
(*                                                                         *)
(* One twin is looked at in a behaviour.  A listener that calls a method   *)
(* of the twin does so just before the step in which the event is emitted. *)
(***************************************************************************)
EXTENDS Naturals, Sequences, FiniteSets

CONSTANTS
  LastTrack,   \* 99
  LastDisc,    \* 6
  MaxCalls     \* bound: method calls and requests

ASSUME TracksAssumption == LastTrack \in Nat \ {0} /\ LastDisc \in Nat \ {0}
ASSUME MaxCallsAssumption == MaxCalls \in Nat

VARIABLES
  twin,      \* the twin of this behaviour
  calls,     \* the calls so far: what they sent and have left to send, and
             \* how far they are
  tx,        \* <<call, frame>> handed to the transport, oldest first
  unacked,   \* how many of these have not been reported on
  written,   \* the places in tx of the frames that were written: those whose
             \* write failed never are
  events,    \* <<call, content>> of the events buttonSent, volumeSent,
             \* lockCommandSent and statusBroadcast
  routing,   \* MFL: where the buttons go
  variant,   \* GM: the declared variant, or what the chassis suggests
  player     \* CDC: the state of the emulated changer

commands == <<twin, calls, tx, unacked, written, events, routing, variant, player>>

ZKE5    == {"ZKE5", "ZKE5_S12"}
GM5     == {"ZKE3_GM5", "ZKE3_GM6"}
GM1     == {"ZKE3_GM1", "ZKE3_GM4"}
Variants == ZKE5 \cup GM5 \cup GM1

Stopped == [status |-> "STOP", function |-> "NOT_PLAYING", disc |-> 1, track |-> 1]

CommandsTypeOK ==
  /\ twin \in {"MFL", "GM", "CDC"}
  /\ \A i \in DOMAIN calls : calls[i].stage \in {"writing", "returned", "failed"}
  /\ \A i \in DOMAIN tx : tx[i][1] \in DOMAIN calls
  /\ unacked \in 0..Len(tx)
  /\ written \subseteq 1..(Len(tx) - unacked)
  /\ routing \in {"RAD", "TEL"}
  /\ variant \in Variants
  /\ player \in [status : {"STOP", "PLAYING", "PAUSE"},
                 function : {"NOT_PLAYING", "PLAYING", "PAUSE", "SCAN_MODE",
                             "RANDOM_MODE"},
                 disc : 1..LastDisc, track : 1..LastTrack]

CommandsInit ==
  /\ twin \in {"MFL", "GM", "CDC"}
  /\ calls = <<>>
  /\ tx = <<>>
  /\ unacked = 0
  /\ written = {}
  /\ events = <<>>
  /\ routing = "RAD"
  /\ variant = "ZKE3_GM1"
  /\ player = Stopped

-----------------------------------------------------------------------------
(***************************************************************************)
(* A call: frames are sent one after the other, each after the one before  *)
(* has been written.                                                       *)
(***************************************************************************)

\* The call up to its first await.  One that has nothing to send returns.
Begin(op, frames) ==
  /\ Len(calls) < MaxCalls
  /\ calls' = Append(calls, [op |-> op, frames |-> frames,
                             stage |-> IF frames = <<>> THEN "returned" ELSE "writing"])
  /\ \/ /\ frames # <<>>
        /\ tx' = Append(tx, <<Len(calls) + 1, frames[1]>>)
        /\ unacked' = unacked + 1
     \/ frames = <<>> /\ UNCHANGED <<tx, unacked>>
  /\ UNCHANGED written

\* The oldest write not reported on, its call, and how many frames a call has
\* sent.
Reported  == Len(tx) - unacked + 1
Oldest    == tx[Reported][1]
Writes(c) == Cardinality({i \in DOMAIN tx : tx[i][1] = c})

\* A bug: the second frame is chosen by the variant of the moment.
ByVariantNow(c, jobs) == IF variant \in ZKE5 THEN "UNLOCK_ALL" ELSE jobs[2]

SecondJob(c, jobs) == jobs[2]

WriteAgain ==
  LET c == Oldest IN
    /\ unacked > 0
    /\ Writes(c) < Len(calls[c].frames)
    /\ tx' = Append(tx, <<c, SecondJob(c, calls[c].frames)>>)
    /\ written' = written \cup {Reported}
    /\ UNCHANGED <<twin, calls, unacked, events, routing, variant, player>>

\* A bug: the routing is set to the other end of where the button went.
FlipCaptured(c) == IF calls[c].frames[1] = "RAD" THEN "TEL" ELSE "RAD"

Flip(c) == IF routing = "RAD" THEN "TEL" ELSE "RAD"

Report(c) == calls[c].frames[Len(calls[c].frames)]

\* The rest of the call, after its last await.
Return ==
  LET c == Oldest IN
    /\ unacked > 0
    /\ Writes(c) = Len(calls[c].frames)
    /\ unacked' = unacked - 1
    /\ written' = written \cup {Reported}
    /\ calls' = [calls EXCEPT ![c].stage = "returned"]
    /\ events' = CASE twin = "CDC" -> Append(events, <<c, player>>)
                   [] twin = "GM" /\ calls[c].op = "requestDoors" -> events
                   [] OTHER -> Append(events, <<c, Report(c)>>)
    /\ routing' = IF calls[c].op = "RT press" THEN Flip(c) ELSE routing
    /\ UNCHANGED <<twin, tx, variant, player>>

\* The write fails: its frame is not written, and the rejection leaves the
\* method.  What a radio's request started nobody awaits: the rejection is
\* unhandled.
Reject ==
  /\ unacked > 0
  /\ unacked' = unacked - 1
  /\ calls' = [calls EXCEPT ![Oldest].stage = "failed"]
  /\ UNCHANGED <<twin, tx, written, events, routing, variant, player>>

-----------------------------------------------------------------------------
(***************************************************************************)
(* The steering wheel.                                                     *)
(***************************************************************************)

\* pressButton() and changeVolume(): only an RT press flips the routing.
MFLCall(op) ==
  /\ twin = "MFL"
  /\ Begin(op, <<routing>>)
  /\ UNCHANGED <<twin, events, routing, variant, player>>

\* toggleRouting(), called by a program.
Toggle ==
  /\ twin = "MFL"
  /\ Len(calls) < MaxCalls
  /\ calls' = Append(calls, [op |-> "toggle", frames |-> <<>>, stage |-> "returned"])
  /\ routing' = IF routing = "RAD" THEN "TEL" ELSE "RAD"
  /\ UNCHANGED <<twin, tx, unacked, written, events, variant, player>>

-----------------------------------------------------------------------------
(***************************************************************************)
(* The general module: the jobs of a command, by variant.                  *)
(***************************************************************************)
Jobs(op, v) ==
  CASE op = "requestDoors"     -> <<"requestDoors">>
    [] op = "lockAll"          -> <<IF v \in ZKE5 THEN "LOCK_ALL"
                                    ELSE IF v \in GM5 THEN "LOCK_ALL_GM5"
                                    ELSE "LOCK_ALL_GM1">>
    [] op = "unlockAll"        -> IF v \in ZKE5 THEN <<"UNLOCK_ALL">>
                                  ELSE IF v \in GM5
                                  THEN <<"UNLOCK_HIGH_GM5", "UNLOCK_LOW_GM5">>
                                  ELSE <<"CENTRAL_LOCK_GM1">>
    [] op = "unlockTrunk"      -> IF v \in ZKE5 THEN <<"UNLOCK_TRUNK">> ELSE <<>>
    [] op = "pressCentralLock" -> <<IF v \in ZKE5 THEN "CENTRAL_LOCK"
                                    ELSE IF v \in GM5 THEN "CENTRAL_LOCK_GM5"
                                    ELSE "CENTRAL_LOCK_GM1">>

GMCommands == {"requestDoors", "lockAll", "unlockAll", "unlockTrunk",
               "pressCentralLock"}

\* The variant is looked up once, before the first await.
GMCall(op) ==
  /\ twin = "GM"
  /\ Begin(op, Jobs(op, variant))
  /\ UNCHANGED <<twin, events, routing, variant, player>>

\* setVariants() or setChassis() of the Vehicle, and detectVariant().
Declare(v) ==
  /\ twin = "GM"
  /\ variant # v
  /\ variant' = v
  /\ UNCHANGED <<twin, calls, tx, unacked, written, events, routing, player>>

-----------------------------------------------------------------------------
(***************************************************************************)
(* The CD changer.                                                         *)
(***************************************************************************)

Clamp(n, last) == IF n < 1 THEN 1 ELSE IF n > last THEN last ELSE n

\* applyRequest(); param zero means the previous track, or the same disc.
Applied(p, request, param) ==
  CASE request = "START_PLAYING" -> [p EXCEPT !.status = "PLAYING", !.function = "PLAYING"]
    [] request = "STOP_PLAYING"  -> [p EXCEPT !.status = "STOP", !.function = "NOT_PLAYING"]
    [] request = "PAUSE_PLAYING" -> [p EXCEPT !.status = "PAUSE", !.function = "PAUSE"]
    [] request = "CHANGE_TRACK"  ->
         [p EXCEPT !.track = Clamp(IF param = 0 THEN @ - 1 ELSE @ + 1, LastTrack)]
    [] request = "CD_CHANGE"     ->
         [p EXCEPT !.disc = Clamp(IF param = 0 THEN @ ELSE param, LastDisc), !.track = 1]
    [] request = "SCAN"          -> [p EXCEPT !.function = "SCAN_MODE"]
    [] request = "RANDOM_MODE"   -> [p EXCEPT !.function = "RANDOM_MODE"]
    [] OTHER -> p     \* GET_STATUS, SEEK and unknown requests

Requests == {"GET_STATUS", "START_PLAYING", "STOP_PLAYING", "PAUSE_PLAYING",
             "CHANGE_TRACK", "CD_CHANGE", "SCAN", "RANDOM_MODE"}

\* A bug: the frame is built before the request is applied.
StatusBefore(old, new) == old

Status(old, new) == new

\* handle() in active mode: the frame is built at once and written later; a
\* passive changer only emits requestReceived.
Request(request, param) ==
  LET next == Applied(player, request, param) IN
    /\ twin = "CDC"
    /\ player' = next
    /\ Begin("request", <<Status(player, next)>>)
    /\ UNCHANGED <<twin, events, routing, variant>>

\* The controls set a part of the state and broadcast it; selectDisc sets what
\* it is given, which coerceArg() has found to be a disc.
Controlled ==
  {[player EXCEPT !.status = "PLAYING", !.function = "PLAYING"],
   [player EXCEPT !.status = "STOP", !.function = "NOT_PLAYING"],
   [player EXCEPT !.status = "PAUSE", !.function = "PAUSE"],
   [player EXCEPT !.track = Clamp(@ + 1, LastTrack)],
   [player EXCEPT !.track = Clamp(@ - 1, LastTrack)],
   player}
  \cup {[player EXCEPT !.disc = d, !.track = 1] : d \in 1..LastDisc}

Control(next) ==
  /\ twin = "CDC"
  /\ player' = next
  /\ Begin("control", <<next>>)
  /\ UNCHANGED <<twin, events, routing, variant>>

-----------------------------------------------------------------------------
CommandsNext ==
  \/ WriteAgain \/ Return \/ Reject
  \/ \E op \in {"RT press", "press", "volume"} : MFLCall(op)
  \/ Toggle
  \/ \E op \in GMCommands : GMCall(op)
  \/ \E v \in Variants : Declare(v)
  \/ \E r \in Requests : \E n \in 0..(LastDisc + 1) : Request(r, n)
  \/ \E next \in Controlled : Control(next)

CommandsSpec == CommandsInit /\ [][CommandsNext]_commands

-----------------------------------------------------------------------------
(***************************************************************************)
(* Properties.                                                             *)
(***************************************************************************)
Quiet == \A i \in DOMAIN calls : calls[i].stage = "returned"

\* "An RT press flips the routing" (mfl.ts:51-52), also if presses overlap and
\* some fail: after an odd number of presses and toggles it is the phone.
RoutingCountsPresses ==
  LET flips == {i \in DOMAIN calls : calls[i].stage = "returned" /\
                                     calls[i].op \in {"RT press", "toggle"}} IN
    routing = "TEL" <=> Cardinality(flips) % 2 = 1

\* Where the frames of a call are in tx.
SentBy(c) == {i \in DOMAIN tx : tx[i][1] = c}

\* What a call has sent: these jobs, in this order, and nothing else.
HasSent(c, jobs) ==
  \E at \in [DOMAIN jobs -> DOMAIN tx] :
    /\ SentBy(c) = {at[k] : k \in DOMAIN jobs}
    /\ \A k \in DOMAIN jobs : tx[at[k]][2] = jobs[k]
    /\ \A k, l \in DOMAIN jobs : k < l => at[k] < at[l]

\* The two frames of an unlocking are for one generation of the module, though
\* the declared variant may change in between (gm.ts:121-140), and no command
\* returns without having sent all of them.
OneVariantPerCommand ==
  twin = "GM" => \A c \in DOMAIN calls : calls[c].stage = "returned" =>
    \E v \in Variants : HasSent(c, Jobs(calls[c].op, v))

\* No other frame between the frames of a call.
Contiguous ==
  \A i, j, k \in DOMAIN tx :
    (i < j /\ j < k /\ tx[i][1] = tx[k][1]) => tx[j][1] = tx[i][1]

\* The doors that the given job of a GM5 unlocks have been locked since.
Locked(job) ==
  \A i \in DOMAIN tx : tx[i][2] = job =>
    \E j \in DOMAIN tx : j > i /\ tx[j][2] = "LOCK_ALL_GM5"

\* "Unlock-high then unlock-low for full unlock" (gm.ts:130): when nothing has
\* failed and no command came between the two, front and rear doors end up in
\* the same state.
DoorsTogether ==
  /\ OneVariantPerCommand
  /\ (twin = "GM" /\ Quiet /\ Contiguous) =>
       (Locked("UNLOCK_HIGH_GM5") <=> Locked("UNLOCK_LOW_GM5"))

\* What became of the frame at a place in tx (a call of the changer writes one).
InFlight(j) == j >= Reported
Lost(j)     == calls[tx[j][1]].stage = "failed"

\* statusBroadcast reads the state after its await (cdc.ts:119-129), when later
\* requests may have changed it.  It never tells an older state than the frame
\* of its own call carried; and a state it tells was written or still is being
\* written, unless the write of a later call, which carried it, failed after
\* all.
TellsNoOlderState ==
  \A i \in DOMAIN events : \E j \in DOMAIN tx :
    /\ tx[j][2] = events[i][2]
    /\ \/ j \in written /\ tx[j][1] >= events[i][1]
       \/ (InFlight(j) \/ Lost(j)) /\ tx[j][1] > events[i][1]

\* Whenever the newest frame was written, the changer is in the state that the
\* radio was sent last and that the listeners were told last, whatever came
\* before: overlapping broadcasts, late writes, writes that failed.
AgreesOnceWritten ==
  Len(tx) \in written =>
    /\ tx[Len(tx)][2] = player
    /\ events # <<>> /\ events[Len(events)][2] = player

\* "Reply with the requested state" (cdc.ts:35-38), however requests, controls,
\* late and failing writes interleave.
RadioToldState == twin = "CDC" => TellsNoOlderState /\ AgreesOnceWritten

=============================================================================
