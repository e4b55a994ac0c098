---------------------------- MODULE BusLifecycle ----------------------------
(***************************************************************************)
(* start() and stop() of a bus orchestrator.  DBus (dbus.ts) and IKBus     *)
(* (ikbus.ts) share this code shape: a `started` flag that is tested before*)
(* an await and assigned after it, an interval handle that drives the idle *)
(* timeout of the frame stream, and a transport that opens and closes      *)
(* asynchronously and may also close by itself.                            *)
(*                                                                         *)
(* A call that meets its early return (start() while started, stop() while *)
(* not started) changes nothing and is a stuttering step.                  *)
(***************************************************************************)
EXTENDS Naturals

CONSTANT
  MaxOverlaps   \* bound: calls that begin while another one is awaiting

ASSUME MaxOverlapsAssumption == MaxOverlaps \in Nat

VARIABLES
  started,      \* the `started` field
  opening,      \* start() calls suspended in `await transport.open()`
  closing,      \* stop() calls suspended in `await transport.close()`
  port,         \* does the transport accept bytes: its `opened` flag
  tickers,      \* intervals created and not cleared
  timeoutTimer, \* is the field `timeoutTimer` defined
  overlaps      \* history: how many calls of start() and stop() began while
                \* another one was awaiting the transport

lifecycle == <<started, opening, closing, port, tickers, timeoutTimer, overlaps>>

LifecycleTypeOK ==
  /\ started \in BOOLEAN
  /\ opening \in Nat
  /\ closing \in Nat
  /\ port \in {"closed", "open"}
  /\ tickers \in Nat
  /\ timeoutTimer \in BOOLEAN
  /\ overlaps \in 0..MaxOverlaps

LifecycleInit ==
  /\ started = FALSE
  /\ opening = 0
  /\ closing = 0
  /\ port = "closed"
  /\ tickers = 0
  /\ timeoutTimer = FALSE
  /\ overlaps = 0

-----------------------------------------------------------------------------
\* A call begins, alone or while others are awaiting.
Enter ==
  \/ opening + closing = 0 /\ UNCHANGED overlaps
  \/ /\ opening + closing > 0
     /\ overlaps < MaxOverlaps
     /\ overlaps' = overlaps + 1

\* `started` is only set when open() is done: until then any number of calls
\* pass the test.
StartCall ==
  /\ ~started
  /\ Enter
  /\ opening' = opening + 1
  /\ UNCHANGED <<started, closing, port, tickers, timeoutTimer>>

\* The handle of an interval that is already running is overwritten.
OpenDone ==
  /\ opening > 0
  /\ opening' = opening - 1
  /\ port' = "open"
  /\ tickers' = tickers + 1
  /\ timeoutTimer' = TRUE
  /\ started' = TRUE
  /\ UNCHANGED <<closing, overlaps>>

OpenFail ==
  /\ opening > 0
  /\ opening' = opening - 1
  /\ UNCHANGED <<started, closing, port, tickers, timeoutTimer, overlaps>>

\* Bugs the properties must notice: the interval survives stop(), and the
\* test of the handle is dropped.
KeepInterval   == tickers
ClearUntested  == tickers - 1

ClearInterval == IF timeoutTimer THEN tickers - 1 ELSE tickers

\* WebSerial and memory transports refuse writes from the call of close() on,
\* the serial transport from the 'close' event of its port on.
StopCall ==
  /\ started
  /\ Enter
  /\ tickers' = ClearInterval
  /\ timeoutTimer' = FALSE
  /\ closing' = closing + 1
  /\ port' \in {port, "closed"}
  /\ UNCHANGED <<started, opening>>

CloseDone ==
  /\ closing > 0
  /\ closing' = closing - 1
  /\ port' = "closed"
  /\ started' = FALSE
  /\ UNCHANGED <<opening, tickers, timeoutTimer, overlaps>>

\* The rejection leaves stop() before it can reset `started`.
CloseFail ==
  /\ closing > 0
  /\ closing' = closing - 1
  /\ UNCHANGED <<started, opening, port, tickers, timeoutTimer, overlaps>>

\* The adapter is pulled out; nobody tells the orchestrator.
Unplug ==
  /\ port = "open"
  /\ port' = "closed"
  /\ UNCHANGED <<started, opening, closing, tickers, timeoutTimer, overlaps>>

LifecycleNext ==
  \/ StartCall \/ OpenDone \/ OpenFail
  \/ StopCall \/ CloseDone \/ CloseFail
  \/ Unplug

LifecycleSpec == LifecycleInit /\ [][LifecycleNext]_lifecycle

-----------------------------------------------------------------------------
(***************************************************************************)
(* Properties.                                                             *)
(***************************************************************************)

\* An interval that stop() cannot clear is owed to overlapping calls, and each
\* takes an overlap of its own: however start(), stop() and the failures and
\* closings of the port interleave, a bus has at most the interval of its last
\* start() beyond the overlaps there have been.  A bus whose calls never
\* overlap leaks nothing and leaves no timer behind when it is stopped; two
\* start() calls that overlap leave one that nobody can clear
\* (ikbus.ts:80-97, dbus.ts:67-85).
LeaksNeedOverlaps ==
  tickers <= overlaps + (IF started /\ timeoutTimer THEN 1 ELSE 0)

\* "Periodic idle-timeout check so partial buffers are flushed when the wire
\* goes quiet mid-frame" (ikbus.ts:83-84): while the bus is started and
\* nobody is stopping it, the check runs.
IdleCheckRuns == (started /\ closing = 0) => tickers > 0

=============================================================================
