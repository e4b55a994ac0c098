-------------------------------- MODULE DBus --------------------------------
(***************************************************************************)
(* The D-bus (DS2) request/response orchestrator,                          *)
(* packages/dbus-devices/src/dbus.ts: the request queue, the single        *)
(* `pending` slot, its timer, the write to the transport, the incoming     *)
(* frames, and start() and stop() (module BusLifecycle).                   *)
(*                                                                         *)
(* JavaScript runs one callback at a time, so an action is one callback:   *)
(* everything the code does from there to the next await.  Promise         *)
(* reactions (microtasks) run before the next timer, I/O callback or chunk *)
(* of bytes; MicrotaskDue tells when one is waiting.  Callers are          *)
(* unconstrained: request(), start() and stop() may be called from any     *)
(* callback.                                                               *)
(*                                                                         *)
(* The bytes of a frame are abstracted to the frame's destination and the  *)
(* request it answers (or echoes).  An ECU answers a request at most once, *)
(* at any time after its bytes were handed to the port, or never.          *)
(***************************************************************************)
EXTENDS Naturals, Sequences, FiniteSets, BusLifecycle

CONSTANTS
  Requests,      \* the calls of request()
  NoRequest,     \* `pending === undefined`
  NoFrame,       \* the promise was not resolved by a frame
  PromptIO,      \* TRUE: open(), write() and close() settle at once and bytes
                 \* arrive in microtasks (MemoryTransport).  FALSE: a serial
                 \* port, whose callbacks come any time later, or never
  MaxChunk       \* bound: frames completed by one chunk of bytes

ASSUME RequestsAssumption     == NoRequest \notin Requests
ASSUME PromptIOAssumption     == PromptIO \in BOOLEAN
ASSUME MaxChunkAssumption     == MaxChunk \in Nat \ {0}

Frames == [to : {"tester", "ecu"}, for : Requests]
Chunks == UNION {[1..n -> Frames] : n \in 1..MaxChunk}

ASSUME NoFrameAssumption == NoFrame \notin Frames

Outcomes == {"resolved", "timeout", "stopped", "writeFailed", "notStarted"}

VARIABLES
  queue,         \* requests whose closures are in `queue`
  queueRunning,  \* the `queueRunning` flag
  awaited,       \* requests whose task some drainQueue() activation awaits
  pending,       \* the `pending` slot
  timer,         \* timer[r]: r's timeout is armed
  write,         \* write[r]: the promise of transport.write() for r
  promise,       \* promise[r]: what the caller of request() holds
  answer,        \* answer[r]: the frame r was resolved with
  replied        \* requests whose ECU reply has been received

requestVars == <<queue, queueRunning, awaited, pending, timer, write, promise,
                 answer, replied>>
vars == <<requestVars, lifecycle>>

TypeOK ==
  /\ LifecycleTypeOK
  /\ queue \in Seq(Requests)
  /\ queueRunning \in BOOLEAN
  /\ awaited \in SUBSET Requests
  /\ pending \in Requests \cup {NoRequest}
  /\ timer \in [Requests -> BOOLEAN]
  /\ write \in [Requests -> {"unsent", "refused", "inflight", "done", "failed"}]
  /\ promise \in [Requests -> {"none", "unsettled"} \cup Outcomes]
  /\ answer \in [Requests -> Frames \cup {NoFrame}]
  /\ replied \in SUBSET Requests

Init ==
  /\ LifecycleInit
  /\ queue = <<>>
  /\ queueRunning = FALSE
  /\ awaited = {}
  /\ pending = NoRequest
  /\ timer = [r \in Requests |-> FALSE]
  /\ write = [r \in Requests |-> "unsent"]
  /\ promise = [r \in Requests |-> "none"]
  /\ answer = [r \in Requests |-> NoFrame]
  /\ replied = {}

-----------------------------------------------------------------------------
Settled(r) == promise[r] \in Outcomes

\* Requests whose bytes were handed to an open port.
Sent == {r \in Requests : write[r] \in {"inflight", "done", "failed"}}

\* A drainQueue() activation has its await answered, or the rejection of a
\* refused write waits for its catch handler.
MicrotaskDue ==
  \/ \E r \in awaited : Settled(r)
  \/ \E r \in Requests : write[r] = "refused"

\* May a callback of the transport run now?
IOCallback == PromptIO \/ ~MicrotaskDue

\* A promise keeps its first outcome: resolve and reject are no-ops later.
Settle(r, how) ==
  promise' = [promise EXCEPT ![r] = IF @ = "unsettled" THEN how ELSE @]

ForgetTimer(r) == UNCHANGED timer                 \* a bug: no clearTimeout()

ClearTimer(r) == timer' = [timer EXCEPT ![r] = FALSE]

\* Take the request out of the slot, or find the slot empty.
FreeSlot ==
  /\ pending # NoRequest
  /\ ClearTimer(pending)
  /\ pending' = NoRequest

SlotEmpty ==
  /\ pending = NoRequest
  /\ UNCHANGED <<pending, timer, promise>>

-----------------------------------------------------------------------------
(***************************************************************************)
(* request(), the queue and the transmission.                              *)
(***************************************************************************)

\* The executor of runRequest(): the timer, the slot and the write, in one go.
Transmit(r) ==
  /\ pending' = r
  /\ timer' = [timer EXCEPT ![r] = TRUE]
  /\ write' = [write EXCEPT ![r] = IF port = "closed" THEN "refused"
                                   ELSE IF PromptIO THEN "done"
                                   ELSE "inflight"]

AlwaysIdle == TRUE                      \* a bug: no re-entrance test

QueueIdle == ~queueRunning

\* A bug: pop() for shift().
Pop(q) == [task |-> q[Len(q)], rest |-> SubSeq(q, 1, Len(q) - 1)]

Shift(q) == [task |-> Head(q), rest |-> Tail(q)]

\* request() pushes its closure; drainQueue() returns at once if another
\* activation is running, else it takes the head of the queue.
Request(r) ==
  /\ started
  /\ promise[r] = "none"
  /\ promise' = [promise EXCEPT ![r] = "unsettled"]
  /\ \/ /\ ~QueueIdle
        /\ queue' = Append(queue, r)
        /\ UNCHANGED <<queueRunning, awaited, pending, timer, write>>
     \/ /\ QueueIdle
        /\ LET next == Shift(Append(queue, r)) IN
             /\ queue' = next.rest
             /\ awaited' = awaited \cup {next.task}
             /\ Transmit(next.task)
        /\ queueRunning' = TRUE
  /\ UNCHANGED <<answer, replied, lifecycle>>

RequestNotStarted(r) ==
  /\ ~started
  /\ promise[r] = "none"
  /\ promise' = [promise EXCEPT ![r] = "notStarted"]
  /\ UNCHANGED <<queue, queueRunning, awaited, pending, timer, write, answer,
                 replied, lifecycle>>

StaysRunning == UNCHANGED queueRunning  \* a bug: the flag is not reset

LeaveLoop == queueRunning' = FALSE

\* `await task()` returned: take the next request or leave the loop.  The
\* handler of a refused write was queued earlier and runs first.
DrainContinue(r) ==
  /\ r \in awaited
  /\ Settled(r)
  /\ \A s \in Requests : write[s] # "refused"
  /\ \/ /\ queue # <<>>
        /\ queue' = Shift(queue).rest
        /\ awaited' = (awaited \ {r}) \cup {Shift(queue).task}
        /\ Transmit(Shift(queue).task)
        /\ UNCHANGED queueRunning
     \/ /\ queue = <<>>
        /\ LeaveLoop
        /\ awaited' = awaited \ {r}
        /\ UNCHANGED <<queue, pending, timer, write>>
  /\ UNCHANGED <<promise, answer, replied, lifecycle>>

\* The timeout closure: it tests the slot, whoever is in it, and rejects its
\* own request.
TimerFire(r) ==
  /\ timer[r]
  /\ ~MicrotaskDue
  /\ timer' = [timer EXCEPT ![r] = FALSE]
  /\ \/ /\ pending # NoRequest
        /\ pending' = NoRequest
        /\ Settle(r, "timeout")
     \/ /\ pending = NoRequest
        /\ UNCHANGED <<pending, promise>>
  /\ UNCHANGED <<queue, queueRunning, awaited, write, answer, replied, lifecycle>>

WriteDone(r) ==
  /\ write[r] = "inflight"
  /\ IOCallback
  /\ write' = [write EXCEPT ![r] = "done"]
  /\ UNCHANGED <<queue, queueRunning, awaited, pending, timer, promise, answer,
                 replied, lifecycle>>

\* The catch handler of the write: it clears the slot and the timer of
\* whoever is in it, and rejects its own request.
\* (The first form is a bug: it frees the slot and rejects nobody.)
FailSilently(r) == (FreeSlot /\ UNCHANGED promise) \/ SlotEmpty

FailWrite(r) == (FreeSlot /\ Settle(r, "writeFailed")) \/ SlotEmpty

WriteRefused(r) ==
  /\ write[r] = "refused"
  /\ write' = [write EXCEPT ![r] = "unsent"]
  /\ FailWrite(r)
  /\ UNCHANGED <<queue, queueRunning, awaited, answer, replied, lifecycle>>

WriteFail(r) ==
  /\ write[r] = "inflight"
  /\ IOCallback
  /\ write' = [write EXCEPT ![r] = "failed"]
  /\ FailWrite(r)
  /\ UNCHANGED <<queue, queueRunning, awaited, answer, replied, lifecycle>>

-----------------------------------------------------------------------------
(***************************************************************************)
(* Incoming frames.                                                        *)
(***************************************************************************)

\* What the wire may deliver: the tester's own bytes coming back (the line is
\* half-duplex) and replies not received before.
OnWire(f) == f.for \in Sent /\ (f.to = "tester" => f.for \notin replied)

AnyFrame(f) == TRUE                           \* a bug: no test of the destination

ForTester(f) == f.to = "tester"

\* onData(): every frame is emitted, the first one for the tester resolves
\* the request in the slot, later ones find the slot empty.
Data(chunk) ==
  /\ port = "open"
  /\ IOCallback
  /\ \A i \in DOMAIN chunk : OnWire(chunk[i])
  /\ \A i, j \in DOMAIN chunk : chunk[i] = chunk[j] => i = j
  /\ replied' = replied \cup {chunk[i].for : i \in {j \in DOMAIN chunk :
                                                       chunk[j].to = "tester"}}
  /\ \/ /\ FreeSlot
        /\ \E i \in DOMAIN chunk :
             /\ ForTester(chunk[i])
             /\ \A j \in DOMAIN chunk : j < i => ~ForTester(chunk[j])
             /\ answer' = [answer EXCEPT ![pending] = chunk[i]]
        /\ Settle(pending, "resolved")
     \/ /\ \/ pending = NoRequest
           \/ \A i \in DOMAIN chunk : ~ForTester(chunk[i])
        /\ UNCHANGED <<pending, timer, promise, answer>>
  /\ UNCHANGED <<queue, queueRunning, awaited, write, lifecycle>>

-----------------------------------------------------------------------------
(***************************************************************************)
(* start() and stop().                                                     *)
(***************************************************************************)

\* stop() up to its await: the pending request is rejected, the queued ones
\* stay in the queue.  (The first form is a bug: the slot is just emptied.)
DropPending   == FreeSlot /\ UNCHANGED promise
RejectPending == FreeSlot /\ Settle(pending, "stopped")

Stop ==
  /\ StopCall
  /\ RejectPending \/ SlotEmpty
  /\ UNCHANGED <<queue, queueRunning, awaited, write, answer, replied>>

LifecycleStep ==
  /\ \/ StartCall
     \/ /\ IOCallback
        /\ OpenDone \/ OpenFail \/ CloseDone \/ CloseFail \/ Unplug
  /\ UNCHANGED requestVars

-----------------------------------------------------------------------------
Next ==
  \/ \E r \in Requests :
       \/ Request(r) \/ RequestNotStarted(r)
       \/ DrainContinue(r)
       \/ TimerFire(r)
       \/ WriteDone(r) \/ WriteRefused(r) \/ WriteFail(r)
  \/ \E chunk \in Chunks : Data(chunk)
  \/ Stop
  \/ LifecycleStep

Spec == Init /\ [][Next]_vars

\* The event loop runs the microtasks that are due and fires expired timers.
\* Nothing else is promised: an ECU may stay silent, a serial write may never
\* complete, a caller may never call.
Fairness ==
  \A r \in Requests :
    /\ WF_vars(DrainContinue(r))
    /\ WF_vars(TimerFire(r))
    /\ WF_vars(WriteRefused(r))

FairSpec == Spec /\ Fairness

-----------------------------------------------------------------------------
(***************************************************************************)
(* Properties.                                                             *)
(***************************************************************************)

\* "Only one request is in flight at a time" (dbus.ts:39): one activation of
\* drainQueue() awaits one request, and the slot never holds a request that
\* nobody serves or that is settled already.
HalfDuplex ==
  /\ Cardinality(awaited) <= 1
  /\ pending # NoRequest => pending \in awaited /\ promise[pending] = "unsettled"

\* A timer is armed for the request in the slot and for no other, whichever
\* of reply, timeout, stop() and write failure came first: no stale timeout
\* can hit a later request and no pending request is without one.
TimerGuardsPending == \A r \in Requests : timer[r] <=> pending = r

\* Whoever finds queueRunning set can rely on an activation that will come
\* back to the queue (dbus.ts:119): no closure is pushed and forgotten.
NoLostWakeup ==
  /\ queueRunning <=> awaited # {}
  /\ queue # <<>> => queueRunning

\* A request is resolved by an ECU's frame, not by the echo of a request, and
\* one frame never resolves two requests.
AnswersAreReplies ==
  \A r \in Requests : promise[r] = "resolved" =>
    /\ answer[r] # NoFrame
    /\ answer[r].to = "tester"
    /\ \A s \in Requests \ {r} : answer[s] # answer[r]

\* The bytes of r are out but r was given up: a reply to it may still come.
Abandoned(r) == r \in Sent /\ promise[r] \in {"timeout", "stopped", "writeFailed"}

\* A request gets the reply to another one only if some request was given up
\* after its bytes were out: the orchestrator itself never swaps answers.
MatchUnlessAbandoned ==
  \/ \E r \in Requests : Abandoned(r)
  \/ \A r \in Requests : promise[r] = "resolved" => answer[r].for = r

\* "Times out after options.timeoutMs" (dbus.ts:93): a request that was
\* accepted is resolved or rejected in the end.
EverySettles == \A r \in Requests : promise[r] = "unsettled" ~> Settled(r)

\* The orchestrator implements the abstract request queue: FIFO order, one
\* request served at a time, each settled once.
Unsettled == {r \in awaited : promise[r] = "unsettled"}

Serving == IF Unsettled = {} THEN NoRequest ELSE CHOOSE r \in Unsettled : TRUE

SettledCalls == {r \in Requests : promise[r] \in Outcomes \ {"notStarted"}}

Abstract == INSTANCE RequestQueue WITH
  waiting <- queue, serving <- Serving, settled <- SettledCalls

ImplementsRequestQueue == Abstract!SafeSpec

\* With writes that settle at once it also serves and settles in the end.
ImplementsLiveRequestQueue == Abstract!LiveSpec

=============================================================================
