------------------------------ MODULE DBusProofs ------------------------------
(***************************************************************************)
(* Theorems about DBus for every set of requests, either kind of           *)
(* transport, chunks of any length and any number of overlapping start()   *)
(* and stop() calls.                                                       *)
(***************************************************************************)
EXTENDS DBus, FiniteSetTheorems, TLAPS

\* stop() clears an interval only while one is running.
HandleIsLive == timeoutTimer => tickers > 0

\* A request in the queue has an unsettled promise, was never written, is
\* served by nobody and is there once.
QueuedIsFresh ==
  /\ \A i \in 1..Len(queue) :
       /\ promise[queue[i]] = "unsettled"
       /\ write[queue[i]] = "unsent"
       /\ queue[i] \notin awaited
  /\ \A i, j \in 1..Len(queue) : queue[i] = queue[j] => i = j

\* One activation of drainQueue() awaits one accepted request.
OneAwaited ==
  /\ \A r, s \in awaited : r = s
  /\ \A r \in awaited : promise[r] \notin {"none", "notStarted"}

\* The slot holds the awaited request while it is unsettled, or nothing.
PendingIsServed ==
  pending # NoRequest => pending \in awaited /\ promise[pending] = "unsettled"

\* Nothing is written for a call that was not made.
NewIsUnwritten == \A r \in Requests : promise[r] = "none" => write[r] = "unsent"

IInv ==
  /\ TypeOK
  /\ HandleIsLive
  /\ QueuedIsFresh
  /\ OneAwaited
  /\ PendingIsServed
  /\ TimerGuardsPending
  /\ NoLostWakeup
  /\ NewIsUnwritten

-----------------------------------------------------------------------------
\* The constants' assumptions, in the form the steps below use them.
LEMMA Constants ==
  /\ NoRequest \notin Requests
  /\ MaxOverlaps \in Nat
  /\ MaxChunk \in Nat \ {0}
  /\ NoFrame \notin Frames
BY RequestsAssumption, MaxOverlapsAssumption, MaxChunkAssumption, NoFrameAssumption

\* The initial state satisfies the inductive invariant.
LEMMA InitInv == Init => IInv
<1> SUFFICES ASSUME Init PROVE IInv
  OBVIOUS
<1> USE Constants DEF Init, LifecycleInit
<1>1. TypeOK
  <2>1. LifecycleTypeOK
    <3>1. started \in BOOLEAN /\ timeoutTimer \in BOOLEAN
      BY Zenon
    <3> QED
      BY <3>1 DEF LifecycleTypeOK
  <2>2. timer \in [Requests -> BOOLEAN]
    BY Zenon
  <2>3. answer \in [Requests -> Frames \cup {NoFrame}]
    BY Zenon
  <2>4. write \in [Requests -> {"unsent", "refused", "inflight", "done", "failed"}]
    BY Zenon
  <2>5. promise \in [Requests -> {"none", "unsettled"} \cup Outcomes]
    BY Zenon
  <2>6. queueRunning \in BOOLEAN
    BY Zenon
  <2>7. queue \in Seq(Requests)
    OBVIOUS
  <2> QED
    BY <2>1, <2>2, <2>3, <2>4, <2>5, <2>6, <2>7 DEF TypeOK
<1>2. HandleIsLive /\ OneAwaited /\ PendingIsServed /\ NoLostWakeup
  BY DEF HandleIsLive, OneAwaited, PendingIsServed, NoLostWakeup
<1>3. QueuedIsFresh
  BY DEF QueuedIsFresh
<1>4. TimerGuardsPending /\ NewIsUnwritten
  BY DEF TimerGuardsPending, NewIsUnwritten
<1> QED
  BY <1>1, <1>2, <1>3, <1>4 DEF IInv

\* A step of start() or stop() keeps the lifecycle's types and its handle.
LEMMA LifecycleStepTypes ==
  ASSUME LifecycleTypeOK, HandleIsLive, LifecycleNext
  PROVE  LifecycleTypeOK' /\ HandleIsLive'
<1> USE Constants DEF LifecycleTypeOK, HandleIsLive
<1>0. Enter => overlaps' \in 0..MaxOverlaps
  BY DEF Enter
<1>1. CASE StartCall
  BY <1>0, <1>1 DEF StartCall
<1>2. CASE OpenDone
  BY <1>2 DEF OpenDone
<1>3. CASE OpenFail
  BY <1>3 DEF OpenFail
<1>4. CASE StopCall
  <2>1. timeoutTimer' \in BOOLEAN /\ HandleIsLive'
    BY <1>4, Zenon DEF StopCall
  <2>2. tickers' \in Nat
    BY <1>4 DEF StopCall, ClearInterval
  <2>3. closing' \in Nat /\ port' \in {"closed", "open"}
    BY <1>4 DEF StopCall
  <2> QED
    BY <1>0, <1>4, <2>1, <2>2, <2>3 DEF StopCall
<1>5. CASE CloseDone
  <2>1. started' \in BOOLEAN
    BY <1>5, Zenon DEF CloseDone
  <2>2. closing' \in Nat /\ port' \in {"closed", "open"}
    BY <1>5 DEF CloseDone
  <2> QED
    BY <1>5, <2>1, <2>2 DEF CloseDone
<1>6. CASE CloseFail
  BY <1>6 DEF CloseFail
<1>7. CASE Unplug
  BY <1>7 DEF Unplug
<1> QED
  BY <1>1, <1>2, <1>3, <1>4, <1>5, <1>6, <1>7 DEF LifecycleNext

\* Adding a request at the tail keeps the queue's elements and their order.
LEMMA PushedQueue ==
  ASSUME NEW q \in Seq(Requests), NEW r \in Requests
  PROVE  /\ Append(q, r) \in Seq(Requests)
         /\ Len(Append(q, r)) = Len(q) + 1
         /\ \A i \in 1..Len(q) : Append(q, r)[i] = q[i]
         /\ Append(q, r)[Len(q) + 1] = r
OBVIOUS

\* shift() returns the oldest element and leaves the younger ones in order.
LEMMA ShiftedQueue ==
  ASSUME NEW q \in Seq(Requests), q # <<>>
  PROVE  /\ Shift(q).task \in Requests
         /\ Shift(q).task = q[1]
         /\ Shift(q).rest \in Seq(Requests)
         /\ Len(Shift(q).rest) = Len(q) - 1
         /\ \A i \in 1..(Len(q) - 1) : Shift(q).rest[i] = q[i + 1]
         /\ Len(q) \in Nat /\ Len(q) > 0
BY DEF Shift

-----------------------------------------------------------------------------
\* Steps that leave start() and stop() alone keep what is said about them.
LEMMA LifecycleKept ==
  ASSUME LifecycleTypeOK, HandleIsLive, UNCHANGED lifecycle
  PROVE  LifecycleTypeOK' /\ HandleIsLive'
BY DEF LifecycleTypeOK, HandleIsLive, lifecycle

\* Emptying the slot and settling a request that is served or was written
\* (not always the one in the slot: see FailWrite), with the queue and its
\* activation left alone.
LEMMA FreedSlotInv ==
  ASSUME IInv, LifecycleTypeOK', HandleIsLive', NEW how \in Outcomes,
         NEW x \in Requests, x \in awaited \/ write[x] # "unsent",
         pending # NoRequest, pending' = NoRequest,
         timer' = [timer EXCEPT ![pending] = FALSE],
         Settle(x, how),
         how # "notStarted",
         UNCHANGED <<queue, queueRunning, awaited>>,
         write' \in [Requests -> {"unsent", "refused", "inflight", "done", "failed"}],
         \A r \in Requests : write[r] = "unsent" => write'[r] = "unsent",
         answer' \in [Requests -> Frames \cup {NoFrame}],
         replied' \in SUBSET Requests
  PROVE  IInv'
<1> USE Constants DEF IInv, Settle
<1>1. pending \in Requests /\ pending \in awaited /\ promise[pending] = "unsettled"
  BY DEF TypeOK, PendingIsServed
<1>2. TypeOK'
  <2>1. promise' \in [Requests -> {"none", "unsettled"} \cup Outcomes]
    BY <1>1 DEF TypeOK
  <2>2. timer' \in [Requests -> BOOLEAN]
    BY <1>1 DEF TypeOK
  <2> QED
    BY <2>1, <2>2 DEF TypeOK
<1>3. NoLostWakeup' /\ OneAwaited'
  BY <1>1 DEF NoLostWakeup, OneAwaited, TypeOK, Outcomes
<1>4. QueuedIsFresh'
  BY <1>1 DEF QueuedIsFresh, TypeOK
<1>5. PendingIsServed' /\ TimerGuardsPending'
  BY <1>1 DEF PendingIsServed, TimerGuardsPending, TypeOK
<1>6. NewIsUnwritten'
  BY DEF NewIsUnwritten, TypeOK, Outcomes
<1> QED
  BY <1>2, <1>3, <1>4, <1>5, <1>6

\* A step that leaves the slot, the promises and the queue alone.
LEMMA SlotKeptInv ==
  ASSUME IInv, LifecycleTypeOK', HandleIsLive',
         UNCHANGED <<queue, queueRunning, awaited, pending, timer, promise>>,
         write' \in [Requests -> {"unsent", "refused", "inflight", "done", "failed"}],
         \A r \in Requests : write[r] = "unsent" => write'[r] = "unsent",
         answer' \in [Requests -> Frames \cup {NoFrame}],
         replied' \in SUBSET Requests
  PROVE  IInv'
<1> USE DEF IInv
<1>1. TypeOK'
  BY DEF TypeOK
<1>2. NoLostWakeup' /\ OneAwaited' /\ PendingIsServed' /\ TimerGuardsPending'
  BY DEF NoLostWakeup, OneAwaited, PendingIsServed, TimerGuardsPending
<1>3. QueuedIsFresh' /\ NewIsUnwritten'
  BY DEF QueuedIsFresh, NewIsUnwritten, TypeOK
<1> QED
  BY <1>1, <1>2, <1>3

\* The timeout of a request settles that request and no other.
LEMMA TimerFireInv ==
  ASSUME IInv, NEW r \in Requests, TimerFire(r)
  PROVE  IInv'
<1>1. pending = r /\ r \in awaited
  BY Constants DEF IInv, TimerFire, TimerGuardsPending, PendingIsServed
<1>2. LifecycleTypeOK' /\ HandleIsLive'
  BY LifecycleKept DEF IInv, TypeOK, TimerFire
<1>3. /\ UNCHANGED <<queue, queueRunning, awaited, write, answer, replied>>
      /\ timer' = [timer EXCEPT ![pending] = FALSE]
  BY <1>1 DEF TimerFire
<1>4. pending # NoRequest /\ pending' = NoRequest /\ Settle(r, "timeout")
  BY <1>1, Constants DEF TimerFire
<1> QED
  BY <1>1, <1>2, <1>3, <1>4, FreedSlotInv DEF IInv, TypeOK, Outcomes

\* A completed write changes nothing else.
LEMMA WriteDoneInv ==
  ASSUME IInv, NEW r \in Requests, WriteDone(r)
  PROVE  IInv'
<1>1. LifecycleTypeOK' /\ HandleIsLive'
  BY LifecycleKept DEF IInv, TypeOK, WriteDone
<1> QED
  BY <1>1, SlotKeptInv DEF IInv, TypeOK, WriteDone

\* A write that failed or was refused empties the slot.
LEMMA FailWriteInv ==
  ASSUME IInv, LifecycleTypeOK', HandleIsLive',
         NEW r \in Requests, write[r] # "unsent", FailWrite(r),
         NEW status \in {"unsent", "failed"}, write' = [write EXCEPT ![r] = status],
         UNCHANGED <<queue, queueRunning, awaited, answer, replied>>
  PROVE  IInv'
<1>1. /\ write' \in [Requests -> {"unsent", "refused", "inflight", "done", "failed"}]
      /\ \A s \in Requests : write[s] = "unsent" => write'[s] = "unsent"
      /\ answer' \in [Requests -> Frames \cup {NoFrame}]
      /\ replied' \in SUBSET Requests
  BY DEF IInv, TypeOK
<1>2. CASE FreeSlot /\ Settle(r, "writeFailed")
  BY <1>1, <1>2, FreedSlotInv, Constants DEF FreeSlot, ClearTimer, Outcomes
<1>3. CASE SlotEmpty
  BY <1>1, <1>3, SlotKeptInv DEF SlotEmpty
<1> QED
  BY <1>2, <1>3 DEF FailWrite

\* The catch handler of a write to a closed port.
LEMMA WriteRefusedInv ==
  ASSUME IInv, NEW r \in Requests, WriteRefused(r)
  PROVE  IInv'
<1>1. LifecycleTypeOK' /\ HandleIsLive'
  BY LifecycleKept DEF IInv, TypeOK, WriteRefused
<1> QED
  BY <1>1, FailWriteInv DEF WriteRefused

\* The catch handler of a write that the port rejected later.
LEMMA WriteFailInv ==
  ASSUME IInv, NEW r \in Requests, WriteFail(r)
  PROVE  IInv'
<1>1. LifecycleTypeOK' /\ HandleIsLive'
  BY LifecycleKept DEF IInv, TypeOK, WriteFail
<1> QED
  BY <1>1, FailWriteInv DEF WriteFail

\* A chunk of bytes settles the request in the slot or nobody.
LEMMA DataInv ==
  ASSUME IInv, NEW chunk \in Chunks, Data(chunk)
  PROVE  IInv'
<1>1. LifecycleTypeOK' /\ HandleIsLive'
  BY LifecycleKept DEF IInv, TypeOK, Data
<1>2. \A i \in DOMAIN chunk : chunk[i] \in Frames
  BY DEF Chunks
<1>3. \A i \in DOMAIN chunk : chunk[i].for \in Requests
  BY <1>2 DEF Frames
<1>4. replied' \in SUBSET Requests
  BY <1>3 DEF Data, IInv, TypeOK
<1>5. /\ write' \in [Requests -> {"unsent", "refused", "inflight", "done", "failed"}]
      /\ \A r \in Requests : write[r] = "unsent" => write'[r] = "unsent"
      /\ UNCHANGED <<queue, queueRunning, awaited>>
  BY DEF Data, IInv, TypeOK
<1>6. CASE FreeSlot /\ Settle(pending, "resolved")
           /\ \E i \in DOMAIN chunk : answer' = [answer EXCEPT ![pending] = chunk[i]]
  <2>1. pending \in Requests /\ pending \in awaited
    BY <1>6 DEF FreeSlot, IInv, TypeOK, PendingIsServed
  <2>2. answer' \in [Requests -> Frames \cup {NoFrame}]
    BY <1>2, <1>6, <2>1 DEF IInv, TypeOK
  <2> QED
    BY <1>1, <1>4, <1>5, <1>6, <2>1, <2>2, FreedSlotInv
       DEF FreeSlot, ClearTimer, Outcomes
<1>7. CASE UNCHANGED <<pending, timer, promise, answer>>
  <2>1. answer' \in [Requests -> Frames \cup {NoFrame}]
    BY <1>7 DEF IInv, TypeOK
  <2> QED
    BY <1>1, <1>4, <1>5, <1>7, <2>1, SlotKeptInv
<1> QED
  BY <1>6, <1>7 DEF Data

\* stop() settles the request in the slot or nobody.
LEMMA StopInv ==
  ASSUME IInv, Stop
  PROVE  IInv'
<1>1. LifecycleTypeOK' /\ HandleIsLive'
  BY LifecycleStepTypes DEF IInv, TypeOK, Stop, LifecycleNext
<1>2. /\ write' \in [Requests -> {"unsent", "refused", "inflight", "done", "failed"}]
      /\ \A r \in Requests : write[r] = "unsent" => write'[r] = "unsent"
      /\ answer' \in [Requests -> Frames \cup {NoFrame}]
      /\ replied' \in SUBSET Requests
      /\ UNCHANGED <<queue, queueRunning, awaited>>
  BY DEF Stop, IInv, TypeOK
<1>3. CASE RejectPending
  <2>1. pending \in Requests /\ pending \in awaited
    BY <1>3 DEF RejectPending, FreeSlot, IInv, TypeOK, PendingIsServed
  <2> QED
    BY <1>1, <1>2, <1>3, <2>1, FreedSlotInv
       DEF RejectPending, FreeSlot, ClearTimer, Outcomes
<1>4. CASE SlotEmpty
  BY <1>1, <1>2, <1>4, SlotKeptInv DEF SlotEmpty
<1> QED
  BY <1>3, <1>4 DEF Stop

\* The rest of start() and stop() does not touch the requests.
LEMMA LifecycleInv ==
  ASSUME IInv, LifecycleStep
  PROVE  IInv'
<1>1. LifecycleTypeOK' /\ HandleIsLive'
  BY LifecycleStepTypes DEF IInv, TypeOK, LifecycleStep, LifecycleNext
<1>2. UNCHANGED requestVars
  BY DEF LifecycleStep
<1> QED
  BY <1>1, <1>2, SlotKeptInv DEF requestVars, IInv, TypeOK

-----------------------------------------------------------------------------
\* A refused call settles a promise that nobody serves.
LEMMA RequestNotStartedInv ==
  ASSUME IInv, NEW r \in Requests, RequestNotStarted(r)
  PROVE  IInv'
<1> USE DEF IInv, RequestNotStarted
<1>1. LifecycleTypeOK' /\ HandleIsLive'
  BY LifecycleKept DEF TypeOK
<1>2. TypeOK'
  BY <1>1 DEF TypeOK, Outcomes
<1>3. QueuedIsFresh' /\ NoLostWakeup'
  BY DEF QueuedIsFresh, NoLostWakeup, TypeOK
<1>4. OneAwaited' /\ PendingIsServed' /\ TimerGuardsPending' /\ NewIsUnwritten'
  BY DEF OneAwaited, PendingIsServed, TimerGuardsPending, NewIsUnwritten, TypeOK
<1> QED
  BY <1>1, <1>2, <1>3, <1>4

\* Handing the oldest request to the transport when the slot is empty.
LEMMA TransmitInv ==
  ASSUME IInv, LifecycleTypeOK', HandleIsLive', NEW h \in Requests,
         pending = NoRequest, Transmit(h), awaited' = {h}, queueRunning' = TRUE,
         promise' \in [Requests -> {"none", "unsettled"} \cup Outcomes],
         promise'[h] = "unsettled",
         queue' \in Seq(Requests),
         \A i \in 1..Len(queue') : /\ promise'[queue'[i]] = "unsettled"
                                   /\ write[queue'[i]] = "unsent"
                                   /\ queue'[i] # h,
         \A i, j \in 1..Len(queue') : queue'[i] = queue'[j] => i = j,
         \A r \in Requests : promise'[r] = "none" => promise[r] = "none",
         UNCHANGED <<answer, replied>>
  PROVE  IInv'
<1> USE Constants DEF IInv, Transmit
<1>1. write' \in [Requests -> {"unsent", "refused", "inflight", "done", "failed"}]
  BY DEF TypeOK
<1>2. timer' \in [Requests -> BOOLEAN]
  BY DEF TypeOK
<1>3. TypeOK'
  BY <1>1, <1>2 DEF TypeOK
<1>4. QueuedIsFresh'
  BY DEF QueuedIsFresh, TypeOK
<1>5. OneAwaited' /\ PendingIsServed' /\ NoLostWakeup'
  BY DEF OneAwaited, PendingIsServed, NoLostWakeup
<1>6. TimerGuardsPending' /\ NewIsUnwritten'
  BY DEF TimerGuardsPending, NewIsUnwritten, TypeOK
<1> QED
  BY <1>3, <1>4, <1>5, <1>6

\* request(): the closure is queued, or taken at once from the empty queue.
LEMMA RequestInv ==
  ASSUME IInv, NEW r \in Requests, Request(r)
  PROVE  IInv'
<1>1. LifecycleTypeOK' /\ HandleIsLive'
  BY LifecycleKept DEF IInv, TypeOK, Request
<1>2. /\ promise' \in [Requests -> {"none", "unsettled"} \cup Outcomes]
      /\ promise[r] = "none" /\ promise'[r] = "unsettled"
      /\ \A s \in Requests : s # r => promise'[s] = promise[s]
      /\ UNCHANGED <<answer, replied>>
  BY DEF Request, IInv, TypeOK
<1>3. CASE /\ ~QueueIdle
           /\ queue' = Append(queue, r)
           /\ UNCHANGED <<queueRunning, awaited, pending, timer, write>>
  <2> USE <1>2, <1>3 DEF IInv
  <2>1. queue \in Seq(Requests) /\ queue' \in Seq(Requests)
    BY PushedQueue DEF TypeOK
  <2>2. TypeOK'
    BY <1>1, <2>1 DEF TypeOK
  <2>3. OneAwaited' /\ PendingIsServed' /\ TimerGuardsPending'
    BY DEF OneAwaited, PendingIsServed, TimerGuardsPending, TypeOK
  <2>4. NoLostWakeup'
    BY DEF NoLostWakeup, QueueIdle
  <2>5. QueuedIsFresh'
    <3>1. r \notin awaited /\ write[r] = "unsent"
      BY DEF OneAwaited, NewIsUnwritten
    <3>2. \A i \in 1..Len(queue) : queue[i] \in Requests /\ queue[i] # r
      BY <2>1 DEF QueuedIsFresh
    <3>3. /\ Len(queue') = Len(queue) + 1
          /\ \A i \in 1..Len(queue) : queue'[i] = queue[i]
          /\ queue'[Len(queue) + 1] = r
          /\ Len(queue) \in Nat
      BY <2>1, PushedQueue
    <3>4. ASSUME NEW i \in 1..Len(queue')
          PROVE  i \in 1..Len(queue) \/ i = Len(queue) + 1
      BY <3>3
    <3> QED
      BY <3>1, <3>2, <3>3, <3>4 DEF QueuedIsFresh
  <2>6. NewIsUnwritten'
    BY DEF NewIsUnwritten
  <2> QED
    BY <1>1, <2>2, <2>3, <2>4, <2>5, <2>6
<1>4. CASE /\ QueueIdle
           /\ queue' = Shift(Append(queue, r)).rest
           /\ awaited' = awaited \cup {Shift(Append(queue, r)).task}
           /\ Transmit(Shift(Append(queue, r)).task)
           /\ queueRunning' = TRUE
  <2>1. queue = <<>> /\ awaited = {} /\ pending = NoRequest
    BY <1>4 DEF QueueIdle, IInv, NoLostWakeup, PendingIsServed
  <2>2. Shift(Append(<<>>, r)).task = r /\ Shift(Append(<<>>, r)).rest = <<>>
    BY DEF Shift
  <2>3. queue' = <<>> /\ awaited' = {r} /\ Transmit(r) /\ queueRunning' = TRUE
    BY <1>4, <2>1, <2>2
  <2> QED
    BY <1>1, <1>2, <2>1, <2>3, TransmitInv
<1> QED
  BY <1>3, <1>4 DEF Request

\* drainQueue() goes on: the next request is taken, or the loop is left.
LEMMA DrainContinueInv ==
  ASSUME IInv, NEW r \in Requests, DrainContinue(r)
  PROVE  IInv'
<1>1. LifecycleTypeOK' /\ HandleIsLive'
  BY LifecycleKept DEF IInv, TypeOK, DrainContinue
<1>2. /\ awaited = {r} /\ pending = NoRequest
      /\ UNCHANGED <<promise, answer, replied>>
  BY DEF DrainContinue, Settled, Outcomes, IInv, OneAwaited, PendingIsServed
<1>3. CASE /\ queue # <<>>
           /\ queue' = Shift(queue).rest
           /\ awaited' = (awaited \ {r}) \cup {Shift(queue).task}
           /\ Transmit(Shift(queue).task)
           /\ UNCHANGED queueRunning
  <2> DEFINE h == Shift(queue).task
  <2>1. queue \in Seq(Requests) /\ queueRunning = TRUE
    BY <1>3 DEF IInv, TypeOK, NoLostWakeup
  <2>2. /\ h \in Requests /\ h = queue[1]
        /\ queue' \in Seq(Requests) /\ Len(queue') = Len(queue) - 1
        /\ \A i \in 1..(Len(queue) - 1) : queue'[i] = queue[i + 1]
        /\ Len(queue) \in Nat /\ Len(queue) > 0
    BY <1>3, <2>1, ShiftedQueue
  <2>3. awaited' = {h}
    BY <1>2, <1>3
  <2> HIDE DEF h
  <2>4. \A i \in 1..Len(queue') : /\ promise'[queue'[i]] = "unsettled"
                                  /\ write[queue'[i]] = "unsent"
                                  /\ queue'[i] # h
    BY <1>2, <2>2 DEF IInv, QueuedIsFresh
  <2>5. \A i, j \in 1..Len(queue') : queue'[i] = queue'[j] => i = j
    BY <2>2 DEF IInv, QueuedIsFresh
  <2>6. promise'[h] = "unsettled"
    BY <1>2, <2>2 DEF IInv, QueuedIsFresh
  <2>7. Transmit(h)
    BY <1>3 DEF h
  <2>8. promise' \in [Requests -> {"none", "unsettled"} \cup Outcomes]
    BY <1>2 DEF IInv, TypeOK
  <2> QED
    BY <1>1, <1>2, <1>3, <2>1, <2>2, <2>3, <2>4, <2>5, <2>6, <2>7, <2>8, TransmitInv
<1>4. CASE /\ queue = <<>>
           /\ LeaveLoop
           /\ awaited' = awaited \ {r}
           /\ UNCHANGED <<queue, pending, timer, write>>
  <2> USE <1>2, <1>4 DEF IInv, LeaveLoop
  <2>1. awaited' = {} /\ queueRunning' = FALSE
    OBVIOUS
  <2>2. TypeOK'
    BY <1>1, <2>1 DEF TypeOK
  <2>3. QueuedIsFresh' /\ OneAwaited' /\ NoLostWakeup'
    BY <2>1 DEF QueuedIsFresh, OneAwaited, NoLostWakeup
  <2>4. PendingIsServed' /\ TimerGuardsPending' /\ NewIsUnwritten'
    BY DEF PendingIsServed, TimerGuardsPending, NewIsUnwritten
  <2> QED
    BY <1>1, <2>2, <2>3, <2>4
<1> QED
  BY <1>3, <1>4 DEF DrainContinue

-----------------------------------------------------------------------------
\* Every step of the orchestrator keeps the inductive invariant.
LEMMA NextInv == IInv /\ [Next]_vars => IInv'
<1> SUFFICES ASSUME IInv, [Next]_vars PROVE IInv'
  OBVIOUS
<1>1. ASSUME NEW r \in Requests,
             Request(r) \/ RequestNotStarted(r) \/ DrainContinue(r)
      PROVE  IInv'
  BY <1>1, RequestInv, RequestNotStartedInv, DrainContinueInv
<1>2. ASSUME NEW r \in Requests,
             TimerFire(r) \/ WriteDone(r) \/ WriteRefused(r) \/ WriteFail(r)
      PROVE  IInv'
  BY <1>2, TimerFireInv, WriteDoneInv, WriteRefusedInv, WriteFailInv
<1>3. ASSUME NEW chunk \in Chunks, Data(chunk) PROVE IInv'
  BY <1>3, DataInv
<1>4. CASE Stop
  BY <1>4, StopInv
<1>5. CASE LifecycleStep
  BY <1>5, LifecycleInv
<1>6. CASE UNCHANGED vars
  <2>1. LifecycleTypeOK' /\ HandleIsLive' /\ UNCHANGED requestVars
    BY <1>6, LifecycleKept DEF vars, IInv, TypeOK
  <2> QED
    BY <2>1, SlotKeptInv DEF requestVars, IInv, TypeOK
<1> QED
  BY <1>1, <1>2, <1>3, <1>4, <1>5, <1>6 DEF Next

\* The inductive invariant holds throughout.
THEOREM Invariance == Spec => []IInv
BY InitInv, NextInv, PTL DEF Spec

\* Every variable keeps its type: a queue of requests, one slot, promises
\* and writes in the states the code can leave them in.
THEOREM TypeCorrect == Spec => []TypeOK
<1>1. IInv => TypeOK
  BY DEF IInv
<1> QED
  BY <1>1, Invariance, PTL

\* Timers: armed for the request in the slot and for no other.
THEOREM TimersAreNeverStale == Spec => []TimerGuardsPending
<1>1. IInv => TimerGuardsPending
  BY DEF IInv
<1> QED
  BY <1>1, Invariance, PTL

\* The queue is never left with nobody to drain it.
THEOREM QueueIsServed == Spec => []NoLostWakeup
<1>1. IInv => NoLostWakeup
  BY DEF IInv
<1> QED
  BY <1>1, Invariance, PTL

\* One request at a time on the half-duplex line.
THEOREM OneInFlight == Spec => []HalfDuplex
<1>1. IInv => HalfDuplex
  <2> SUFFICES ASSUME IInv PROVE HalfDuplex
    OBVIOUS
  <2>1. Cardinality(awaited) <= 1
    <3>1. CASE awaited = {}
      BY <3>1, FS_EmptySet
    <3>2. CASE awaited # {}
      <4>1. PICK r \in awaited : TRUE
        BY <3>2
      <4>2. awaited = {r}
        BY <4>1 DEF IInv, OneAwaited
      <4>3. Cardinality({r}) = 1
        BY FS_Singleton, Zenon
      <4> QED
        BY <4>2, <4>3
    <3> QED
      BY <3>1, <3>2
  <2> QED
    BY <2>1 DEF HalfDuplex, IInv, PendingIsServed
<1> QED
  BY <1>1, Invariance, PTL

-----------------------------------------------------------------------------
(***************************************************************************)
(* Which frame resolves which request.                                     *)
(***************************************************************************)

\* The frames used as answers are replies received so far, each used once.
AnswerInv ==
  /\ \A r \in Requests : answer[r] # NoFrame => /\ answer[r].to = "tester"
                                                /\ answer[r].for \in replied
  /\ \A r \in Requests : promise[r] = "resolved" => answer[r] # NoFrame
  /\ \A r, s \in Requests : r # s /\ answer[r] # NoFrame => answer[r] # answer[s]

\* The steps other than Data give no answer and resolve no promise.
NoNewAnswer ==
  /\ UNCHANGED <<answer, replied>>
  /\ \A r \in Requests : promise'[r] = "resolved" => promise[r] = "resolved"

\* Steps other than a chunk of bytes resolve no request and receive no reply.
LEMMA OnlyDataAnswers ==
  ASSUME IInv, [Next]_vars, ~(\E chunk \in Chunks : Data(chunk))
  PROVE  NoNewAnswer
<1> USE DEF NoNewAnswer, IInv, TypeOK
<1>1. ASSUME NEW r \in Requests,
             \/ Request(r) \/ RequestNotStarted(r) \/ DrainContinue(r)
             \/ TimerFire(r) \/ WriteDone(r)
      PROVE  NoNewAnswer
  BY <1>1 DEF Request, RequestNotStarted, DrainContinue, TimerFire, WriteDone, Settle
<1>2. ASSUME NEW r \in Requests, WriteRefused(r) \/ WriteFail(r)
      PROVE  NoNewAnswer
  BY <1>2 DEF WriteRefused, WriteFail, FailWrite, SlotEmpty, Settle
<1>3. CASE Stop
  BY <1>3 DEF Stop, RejectPending, SlotEmpty, Settle
<1>4. CASE LifecycleStep \/ UNCHANGED vars
  BY <1>4 DEF LifecycleStep, requestVars, vars
<1> QED
  BY <1>1, <1>2, <1>3, <1>4 DEF Next

\* What a chunk that resolves the pending request does.
LEMMA DataAnswers ==
  ASSUME IInv, NEW chunk \in Chunks, Data(chunk)
  PROVE  \/ UNCHANGED <<answer, promise>> /\ replied \subseteq replied'
         \/ \E f \in Frames :
              /\ f.to = "tester" /\ f.for \in Sent \ replied /\ f.for \in replied'
              /\ pending \in Requests
              /\ answer' = [answer EXCEPT ![pending] = f]
              /\ promise' = [promise EXCEPT ![pending] = "resolved"]
              /\ replied \subseteq replied'
<1>1. \A i \in DOMAIN chunk : chunk[i] \in Frames /\ OnWire(chunk[i])
  BY DEF Chunks, Data
<1>2. replied \subseteq replied'
  BY DEF Data
<1>3. ASSUME NEW i \in DOMAIN chunk, chunk[i].to = "tester"
      PROVE  chunk[i].for \in replied' /\ chunk[i].for \in Sent \ replied
  BY <1>1, <1>3 DEF Data, OnWire
<1>4. CASE UNCHANGED <<pending, timer, promise, answer>>
  BY <1>2, <1>4
<1>5. CASE /\ FreeSlot
           /\ \E i \in DOMAIN chunk : /\ ForTester(chunk[i])
                                      /\ answer' = [answer EXCEPT ![pending] = chunk[i]]
           /\ Settle(pending, "resolved")
  <2>1. pending \in Requests /\ promise[pending] = "unsettled"
    BY <1>5 DEF FreeSlot, IInv, TypeOK, PendingIsServed
  <2>2. promise' = [promise EXCEPT ![pending] = "resolved"]
    BY <1>5, <2>1 DEF Settle, IInv, TypeOK
  <2>3. PICK i \in DOMAIN chunk : /\ chunk[i].to = "tester"
                                  /\ answer' = [answer EXCEPT ![pending] = chunk[i]]
    BY <1>5 DEF ForTester
  <2> QED
    BY <1>1, <1>2, <1>3, <2>1, <2>2, <2>3
<1> QED
  BY <1>4, <1>5 DEF Data

\* Every step keeps replies and the requests they resolved apart.
LEMMA AnswerStep ==
  ASSUME IInv, AnswerInv, [Next]_vars
  PROVE  AnswerInv'
<1> USE DEF IInv, TypeOK, AnswerInv
<1>1. CASE ~(\E chunk \in Chunks : Data(chunk))
  BY <1>1, OnlyDataAnswers DEF NoNewAnswer
<1>2. ASSUME NEW chunk \in Chunks, Data(chunk) PROVE AnswerInv'
  <2>1. CASE UNCHANGED <<answer, promise>> /\ replied \subseteq replied'
    BY <2>1
  <2>2. CASE \E f \in Frames :
               /\ f.to = "tester" /\ f.for \in Sent \ replied /\ f.for \in replied'
               /\ pending \in Requests
               /\ answer' = [answer EXCEPT ![pending] = f]
               /\ promise' = [promise EXCEPT ![pending] = "resolved"]
               /\ replied \subseteq replied'
    <3>1. PICK f \in Frames :
               /\ f.to = "tester" /\ f.for \in Sent \ replied /\ f.for \in replied'
               /\ pending \in Requests
               /\ answer' = [answer EXCEPT ![pending] = f]
               /\ promise' = [promise EXCEPT ![pending] = "resolved"]
               /\ replied \subseteq replied'
      BY <2>2
    <3>2. f # NoFrame /\ \A r \in Requests : answer[r] # f
      BY <3>1, Constants
    <3> QED
      BY <3>1, <3>2
  <2> QED
    BY <1>2, <2>1, <2>2, DataAnswers
<1> QED
  BY <1>1, <1>2

\* Requests are resolved by replies, and no reply resolves two of them.
THEOREM RepliesResolveOnce == Spec => []AnswersAreReplies
<1>1. Init => AnswerInv
  BY DEF Init, AnswerInv
<1>2. IInv /\ AnswerInv /\ [Next]_vars => AnswerInv'
  BY AnswerStep
<1>3. AnswerInv => AnswersAreReplies
  BY DEF AnswerInv, AnswersAreReplies
<1> QED
  BY <1>1, <1>2, <1>3, Invariance, PTL DEF Spec

-----------------------------------------------------------------------------
(***************************************************************************)
(* Who gets whose answer.                                                  *)
(***************************************************************************)

\* What every step does to the promises, and what it can do to the writes and
\* to the awaited request.
PromisesKept ==
  \A r \in Requests : promise[r] \in Outcomes => promise'[r] = promise[r]

SendsOnly(h) ==
  /\ awaited' = {h}
  /\ promise[h] \notin Outcomes
  /\ \A x \in Requests \ {h} : x \in Sent' <=> x \in Sent

SentServed ==
  \/ UNCHANGED awaited /\ Sent' = Sent
  \/ /\ \/ awaited = {}
        \/ \E r \in awaited : awaited = {r} /\ promise[r] \in Outcomes
     /\ \/ awaited' = {} /\ Sent' = Sent
        \/ \E h \in Requests : SendsOnly(h)

\* A promise that is settled keeps its outcome.
LEMMA StepKeepsPromises ==
  ASSUME IInv, [Next]_vars
  PROVE  PromisesKept
<1> USE DEF PromisesKept, IInv, TypeOK, Outcomes
<1>1. ASSUME NEW r \in Requests,
             \/ Request(r) \/ RequestNotStarted(r) \/ DrainContinue(r)
             \/ TimerFire(r) \/ WriteDone(r)
      PROVE  PromisesKept
  BY <1>1 DEF Request, RequestNotStarted, DrainContinue, TimerFire, WriteDone, Settle
<1>2. ASSUME NEW r \in Requests, WriteRefused(r) \/ WriteFail(r)
      PROVE  PromisesKept
  BY <1>2 DEF WriteRefused, WriteFail, FailWrite, SlotEmpty, Settle
<1>3. ASSUME NEW chunk \in Chunks, Data(chunk) PROVE PromisesKept
  BY <1>3 DEF Data, Settle
<1>4. CASE Stop
  BY <1>4 DEF Stop, RejectPending, SlotEmpty, Settle
<1>5. CASE LifecycleStep \/ UNCHANGED vars
  BY <1>5 DEF LifecycleStep, requestVars, vars
<1> QED
  BY <1>1, <1>2, <1>3, <1>4, <1>5 DEF Next

\* Transmit() hands over the bytes of its own request, if the port is open.
LEMMA TransmitSends ==
  ASSUME IInv, NEW h \in Requests, Transmit(h), awaited' = {h},
         promise[h] \notin Outcomes
  PROVE  SendsOnly(h)
BY DEF IInv, TypeOK, Transmit, Sent, SendsOnly

\* Bytes of a request go out only while a drainQueue() activation serves it.
LEMMA StepServes ==
  ASSUME IInv, [Next]_vars
  PROVE  SentServed
<1> USE DEF SentServed
<1>1. ASSUME NEW r \in Requests, Request(r) PROVE SentServed
  <2>1. CASE UNCHANGED <<awaited, write>>
    BY <2>1 DEF Sent
  <2>2. CASE /\ QueueIdle
             /\ awaited' = awaited \cup {Shift(Append(queue, r)).task}
             /\ Transmit(Shift(Append(queue, r)).task)
    <3>1. queue = <<>> /\ awaited = {} /\ promise[r] \notin Outcomes
      BY <1>1, <2>2 DEF Request, QueueIdle, IInv, NoLostWakeup, Outcomes
    <3>2. Shift(Append(<<>>, r)).task = r
      BY DEF Shift
    <3> QED
      BY <2>2, <3>1, <3>2, TransmitSends
  <2> QED
    BY <1>1, <2>1, <2>2 DEF Request
<1>2. ASSUME NEW r \in Requests, DrainContinue(r) PROVE SentServed
  <2>1. awaited = {r} /\ promise[r] \in Outcomes
    BY <1>2 DEF DrainContinue, Settled, IInv, OneAwaited
  <2>2. CASE /\ queue # <<>>
             /\ awaited' = (awaited \ {r}) \cup {Shift(queue).task}
             /\ Transmit(Shift(queue).task)
    <3>1. /\ Shift(queue).task \in Requests
          /\ Shift(queue).task = queue[1] /\ 1 \in 1..Len(queue)
      BY <2>2, ShiftedQueue DEF IInv, TypeOK
    <3>2. promise[Shift(queue).task] \notin Outcomes
      BY <3>1 DEF IInv, QueuedIsFresh, Outcomes
    <3>3. awaited' = {Shift(queue).task}
      BY <2>1, <2>2
    <3> QED
      BY <2>1, <2>2, <3>1, <3>2, <3>3, TransmitSends
  <2>3. CASE awaited' = awaited \ {r} /\ UNCHANGED write
    BY <2>1, <2>3 DEF Sent
  <2> QED
    BY <1>2, <2>2, <2>3 DEF DrainContinue
<1>3. ASSUME NEW r \in Requests,
             \/ RequestNotStarted(r) \/ TimerFire(r) \/ WriteDone(r)
             \/ WriteRefused(r) \/ WriteFail(r)
      PROVE  SentServed
  BY <1>3 DEF RequestNotStarted, TimerFire, WriteDone, WriteRefused, WriteFail,
              Sent, IInv, TypeOK
<1>4. ASSUME NEW chunk \in Chunks, Data(chunk) PROVE SentServed
  BY <1>4 DEF Data, Sent
<1>5. CASE Stop \/ LifecycleStep \/ UNCHANGED vars
  BY <1>5 DEF Stop, LifecycleStep, requestVars, vars, Sent
<1> QED
  BY <1>1, <1>2, <1>3, <1>4, <1>5 DEF Next

\* A request given up stays given up.
LEMMA AbandonedForGood ==
  ASSUME IInv, [Next]_vars, NEW x \in Requests, Abandoned(x)
  PROVE  Abandoned(x)'
<1>1. promise'[x] = promise[x] /\ promise[x] \in Outcomes
  BY StepKeepsPromises DEF PromisesKept, Abandoned, Outcomes
<1>2. x \in Sent'
  BY <1>1, StepServes DEF SentServed, SendsOnly, Abandoned
<1> QED
  BY <1>1, <1>2 DEF Abandoned

\* As long as nobody was given up: a resolved request has its own reply, and
\* a request whose bytes are out is resolved or the one being served.
MatchInv ==
  \/ \E r \in Requests : Abandoned(r)
  \/ \A r \in Requests :
       /\ promise[r] = "resolved" => answer[r].for = r
       /\ r \in Sent => promise[r] = "resolved" \/ r \in awaited

\* Every step keeps answers matched as long as no request is given up.
LEMMA MatchStep ==
  ASSUME IInv, AnswerInv, MatchInv, [Next]_vars
  PROVE  MatchInv'
<1>1. CASE \E r \in Requests : Abandoned(r)
  BY <1>1, AbandonedForGood DEF MatchInv
<1>2. CASE /\ \A r \in Requests : ~Abandoned(r) /\ ~Abandoned(r)'
           /\ \A r \in Requests :
                /\ promise[r] = "resolved" => answer[r].for = r
                /\ r \in Sent => promise[r] = "resolved" \/ r \in awaited
  <2>1. ASSUME NEW r \in Requests, r \in Sent'
        PROVE  promise'[r] = "resolved" \/ r \in awaited'
    <3>1. CASE r \in Sent /\ promise[r] = "resolved"
      BY <3>1, StepKeepsPromises DEF PromisesKept, Outcomes
    <3>2. CASE r \in Sent /\ r \in awaited /\ promise[r] # "resolved"
      <4>1. promise[r] \notin Outcomes
        BY <1>2, <3>2 DEF Abandoned, Outcomes, IInv, OneAwaited
      <4> QED
        BY <3>2, <4>1, StepServes DEF SentServed
    <3>3. CASE r \notin Sent
      BY <2>1, <3>3, StepServes DEF SentServed, SendsOnly
    <3> QED
      BY <1>2, <3>1, <3>2, <3>3
  <2>2. ASSUME NEW r \in Requests, promise'[r] = "resolved"
        PROVE  answer'[r].for = r
    <3>1. CASE ~(\E chunk \in Chunks : Data(chunk))
      BY <1>2, <2>2, <3>1, OnlyDataAnswers DEF NoNewAnswer
    <3>2. ASSUME NEW chunk \in Chunks, Data(chunk) PROVE answer'[r].for = r
      <4>1. CASE UNCHANGED <<answer, promise>>
        BY <1>2, <2>2, <4>1
      <4>2. CASE \E f \in Frames :
                   /\ f.for \in Sent \ replied
                   /\ pending \in Requests
                   /\ answer' = [answer EXCEPT ![pending] = f]
                   /\ promise' = [promise EXCEPT ![pending] = "resolved"]
        <5>1. PICK f \in Frames :
                   /\ f.for \in Sent \ replied
                   /\ pending \in Requests
                   /\ answer' = [answer EXCEPT ![pending] = f]
                   /\ promise' = [promise EXCEPT ![pending] = "resolved"]
          BY <4>2
        <5>2. f.for \in Requests /\ promise[f.for] # "resolved"
          BY <1>2, <5>1 DEF Sent, AnswerInv
        <5>3. f.for \in awaited /\ pending \in awaited
          BY <1>2, <5>1, <5>2, Constants DEF IInv, PendingIsServed
        <5>4. f.for = pending
          BY <5>3 DEF IInv, OneAwaited
        <5> QED
          BY <1>2, <2>2, <5>1, <5>4 DEF IInv, TypeOK
      <4> QED
        BY <3>2, <4>1, <4>2, DataAnswers
    <3> QED
      BY <3>1, <3>2
  <2> QED
    BY <2>1, <2>2 DEF MatchInv
<1>3. CASE \E r \in Requests : Abandoned(r)'
  BY <1>3 DEF MatchInv
<1> QED
  BY <1>1, <1>2, <1>3 DEF MatchInv

\* A mismatched answer is always the consequence of a request given up.
THEOREM MismatchNeedsAbandonment == Spec => []MatchUnlessAbandoned
<1>1. Init => AnswerInv /\ MatchInv
  BY DEF Init, AnswerInv, MatchInv, Sent
<1>2. IInv /\ AnswerInv /\ MatchInv /\ [Next]_vars => AnswerInv' /\ MatchInv'
  BY AnswerStep, MatchStep
<1>3. MatchInv => MatchUnlessAbandoned
  BY DEF MatchInv, MatchUnlessAbandoned
<1> QED
  BY <1>1, <1>2, <1>3, Invariance, PTL DEF Spec

-----------------------------------------------------------------------------
(***************************************************************************)
(* start() and stop(), whose calls may overlap in any way.                 *)
(***************************************************************************)

\* The calls under way may leak further intervals though nobody calls again:
\* of the start() calls each but one overwrites a handle, the last one as well
\* if a stop() then resets `started` behind it.  All of them are paid for by
\* overlaps that have been.
LeakInv ==
  /\ opening > 0 =>
       tickers + opening + (IF closing > 0 THEN 1 ELSE 0) <= overlaps + 1
  /\ opening = 0 =>
       tickers <= overlaps + (IF started /\ timeoutTimer /\ closing = 0 THEN 1 ELSE 0)

\* Every step of the orchestrator is one of start() and stop(), or leaves
\* their state alone.
LEMMA LifecycleSteps ==
  ASSUME [Next]_vars
  PROVE  [LifecycleNext]_lifecycle
<1>1. CASE \E r \in Requests :
             \/ Request(r) \/ RequestNotStarted(r) \/ DrainContinue(r)
             \/ TimerFire(r) \/ WriteDone(r) \/ WriteRefused(r) \/ WriteFail(r)
  BY <1>1 DEF Request, RequestNotStarted, DrainContinue, TimerFire, WriteDone,
              WriteRefused, WriteFail
<1>2. CASE (\E chunk \in Chunks : Data(chunk)) \/ UNCHANGED vars
  BY <1>2 DEF Data, vars
<1>3. CASE Stop \/ LifecycleStep
  BY <1>3 DEF Stop, LifecycleStep, LifecycleNext
<1> QED
  BY <1>1, <1>2, <1>3 DEF Next

\* A call that overlaps another adds at most one interval to those that may
\* leak, and no step adds one without.
LEMMA LeakStep ==
  ASSUME LifecycleTypeOK, HandleIsLive, LeakInv, [LifecycleNext]_lifecycle
  PROVE  LeakInv'
<1>0. opening \in Nat /\ closing \in Nat /\ tickers \in Nat /\ overlaps \in Nat
  BY Constants DEF LifecycleTypeOK
<1>1. CASE StartCall
  <2>1. /\ ~started /\ opening' = opening + 1 /\ closing' = closing /\ tickers' = tickers
        /\ overlaps' = IF opening + closing = 0 THEN overlaps ELSE overlaps + 1
    BY <1>0, <1>1 DEF StartCall, Enter
  <2> QED
    BY <1>0, <2>1 DEF LeakInv
<1>2. CASE OpenDone
  <2>1. /\ opening > 0 /\ opening' = opening - 1 /\ closing' = closing
        /\ tickers' = tickers + 1 /\ overlaps' = overlaps /\ started' /\ timeoutTimer'
    BY <1>2 DEF OpenDone
  <2> QED
    BY <1>0, <2>1 DEF LeakInv
<1>3. CASE OpenFail
  <2>1. /\ opening > 0 /\ opening' = opening - 1
        /\ closing' = closing /\ tickers' = tickers /\ overlaps' = overlaps
    BY <1>3 DEF OpenFail
  <2> QED
    BY <1>0, <2>1 DEF LeakInv
<1>4. CASE StopCall
  <2>1. /\ started /\ opening' = opening /\ closing' = closing + 1
        /\ tickers' = IF timeoutTimer THEN tickers - 1 ELSE tickers
        /\ overlaps' = IF opening + closing = 0 THEN overlaps ELSE overlaps + 1
    BY <1>0, <1>4 DEF StopCall, Enter, ClearInterval
  <2> QED
    BY <1>0, <2>1 DEF LeakInv
<1>5. CASE CloseDone
  <2>1. /\ closing > 0 /\ closing' = closing - 1
        /\ opening' = opening /\ tickers' = tickers /\ overlaps' = overlaps
    BY <1>5 DEF CloseDone
  <2> QED
    BY <1>0, <2>1 DEF LeakInv
<1>6. CASE CloseFail
  <2>1. /\ closing > 0 /\ closing' = closing - 1
        /\ opening' = opening /\ tickers' = tickers /\ overlaps' = overlaps
    BY <1>6 DEF CloseFail
  <2> QED
    BY <1>0, <2>1 DEF LeakInv
<1>7. CASE Unplug
  BY <1>7 DEF Unplug, LeakInv
<1>8. CASE UNCHANGED lifecycle
  BY <1>8 DEF lifecycle, LeakInv
<1> QED
  BY <1>1, <1>2, <1>3, <1>4, <1>5, <1>6, <1>7, <1>8 DEF LifecycleNext

\* However calls of start() and stop() overlap and whichever of open() and
\* close() fail, every leaked interval takes an overlap of its own; a bus whose
\* calls never overlap leaks none (dbus.ts:67-85, ikbus.ts:80-97).
THEOREM IntervalsLeakByOverlaps == Spec => []LeaksNeedOverlaps
<1>1. Init => LeakInv
  BY DEF Init, LifecycleInit, LeakInv
<1>2. IInv /\ LeakInv /\ [Next]_vars => LeakInv'
  BY LifecycleSteps, LeakStep DEF IInv, TypeOK
<1>3. IInv /\ LeakInv => LeaksNeedOverlaps
  <2> SUFFICES ASSUME IInv, LeakInv PROVE LeaksNeedOverlaps
    OBVIOUS
  <2>1. opening \in Nat /\ tickers \in Nat /\ overlaps \in Nat
    BY Constants DEF IInv, TypeOK, LifecycleTypeOK
  <2> QED
    BY <2>1 DEF LeakInv, LeaksNeedOverlaps
<1> QED
  BY <1>1, <1>2, <1>3, Invariance, PTL DEF Spec

-----------------------------------------------------------------------------
(***************************************************************************)
(* DBus implements RequestQueue, for every set of requests and either kind *)
(* of transport.  The queue is the abstract queue; the request being       *)
(* served is the awaited one while its promise is unsettled.               *)
(***************************************************************************)

\* A request whose bytes were handed to the transport and that is not
\* settled is the awaited one: no settled activation left it behind.
WrittenIsServed ==
  \A r \in Requests :
    promise[r] = "unsettled" /\ write[r] # "unsent" => r \in awaited

RInv == IInv /\ WrittenIsServed

-----------------------------------------------------------------------------
\* The invariant holds at first.
LEMMA InitWritten == Init => WrittenIsServed
BY DEF Init, WrittenIsServed

\* Every step keeps it.
LEMMA WrittenStep ==
  ASSUME IInv, WrittenIsServed, [Next]_vars
  PROVE  WrittenIsServed'
<1> USE DEF WrittenIsServed
<1>1. ASSUME NEW r \in Requests, Request(r) PROVE WrittenIsServed'
  <2>1. /\ write[r] = "unsent"
        /\ \A s \in Requests : s # r => promise'[s] = promise[s]
        /\ queue \in Seq(Requests)
    BY <1>1 DEF Request, IInv, TypeOK, NewIsUnwritten
  <2>2. CASE UNCHANGED <<awaited, write>>
    BY <2>1, <2>2 DEF IInv, TypeOK
  <2>3. CASE /\ awaited' = awaited \cup {Shift(Append(queue, r)).task}
             /\ Transmit(Shift(Append(queue, r)).task)
    <3>1. Append(queue, r) \in Seq(Requests) /\ Append(queue, r) # <<>>
      BY <2>1
    <3>2. Shift(Append(queue, r)).task \in Requests
      BY <3>1, ShiftedQueue
    <3> QED
      BY <2>1, <2>3, <3>2 DEF Transmit, IInv, TypeOK
  <2> QED
    BY <1>1, <2>2, <2>3 DEF Request
<1>2. ASSUME NEW r \in Requests, DrainContinue(r) PROVE WrittenIsServed'
  <2>1. promise' = promise /\ promise[r] # "unsettled"
    BY <1>2 DEF DrainContinue, Settled, Outcomes
  <2>2. CASE /\ queue # <<>>
             /\ awaited' = (awaited \ {r}) \cup {Shift(queue).task}
             /\ Transmit(Shift(queue).task)
    <3>1. Shift(queue).task \in Requests
      BY <2>2, ShiftedQueue DEF IInv, TypeOK
    <3> QED
      BY <2>1, <2>2, <3>1 DEF Transmit, IInv, TypeOK
  <2>3. CASE awaited' = awaited \ {r} /\ UNCHANGED write
    BY <2>1, <2>3
  <2> QED
    BY <1>2, <2>2, <2>3 DEF DrainContinue
<1>3. ASSUME NEW r \in Requests,
             RequestNotStarted(r) \/ TimerFire(r) \/ WriteDone(r)
      PROVE  WrittenIsServed'
  BY <1>3 DEF RequestNotStarted, TimerFire, WriteDone, Settle, IInv, TypeOK
<1>4. ASSUME NEW r \in Requests, WriteRefused(r) \/ WriteFail(r)
      PROVE  WrittenIsServed'
  BY <1>4 DEF WriteRefused, WriteFail, FailWrite, SlotEmpty, Settle, IInv, TypeOK
<1>5. ASSUME NEW chunk \in Chunks, Data(chunk) PROVE WrittenIsServed'
  BY <1>5 DEF Data, Settle, IInv, TypeOK
<1>6. CASE Stop \/ LifecycleStep \/ UNCHANGED vars
  BY <1>6 DEF Stop, RejectPending, SlotEmpty, Settle, LifecycleStep,
              requestVars, vars, IInv, TypeOK
<1> QED
  BY <1>1, <1>2, <1>3, <1>4, <1>5, <1>6 DEF Next

-----------------------------------------------------------------------------
\* Where one thing at most can be chosen, it is chosen.
LEMMA Chosen ==
  ASSUME NEW r
  PROVE  (CHOOSE x \in {r} : TRUE) = r
OBVIOUS

\* With nobody unsettled and awaited the abstract server is idle, before and
\* after a step.
LEMMA NobodyServed ==
  /\ Unsettled = {} => Serving = NoRequest
  /\ Unsettled' = {} => Serving' = NoRequest
BY DEF Serving

\* The one unsettled and awaited request is the one being served.
LEMMA SomebodyServed ==
  ASSUME NEW r
  PROVE  /\ Unsettled = {r} => Serving = r
         /\ Unsettled' = {r} => Serving' = r
<1>1. (CHOOSE x \in {r} : TRUE) = r
  BY Chosen
<1>2. ASSUME Unsettled = {r} PROVE Serving = r
  <2>1. Serving = CHOOSE x \in {r} : TRUE
    BY <1>2 DEF Serving
  <2> QED
    BY <1>1, <2>1
<1>3. ASSUME Unsettled' = {r} PROVE Serving' = r
  <2>1. Serving' = CHOOSE x \in {r} : TRUE
    BY <1>3 DEF Serving
  <2> QED
    BY <1>1, <2>1
<1> QED
  BY <1>2, <1>3

\* At most one request is unsettled and awaited.
LEMMA ServedOrNot ==
  ASSUME IInv
  PROVE  Unsettled = {} \/ \E r \in Requests : Unsettled = {r}
<1> SUFFICES ASSUME NEW r \in Unsettled PROVE Unsettled = {r} /\ r \in Requests
  OBVIOUS
<1>1. r \in awaited /\ awaited \subseteq Requests /\ \A s \in awaited : s = r
  BY DEF IInv, TypeOK, OneAwaited, Unsettled
<1>2. Unsettled \subseteq awaited
  BY DEF Unsettled
<1> QED
  BY <1>1, <1>2

\* A step that settles nobody and serves nobody new is a stutter.
LEMMA StutterStep ==
  ASSUME UNCHANGED <<queue, awaited>>,
         \A r \in Requests : promise'[r] # promise[r] =>
            r \notin awaited /\ {promise[r], promise'[r]} \subseteq {"none", "notStarted"},
         IInv
  PROVE  UNCHANGED Abstract!abstract
<1>1. awaited \subseteq Requests
  BY DEF IInv, TypeOK
<1>2. Unsettled' = Unsettled
  BY <1>1 DEF Unsettled
<1>3. SettledCalls' = SettledCalls
  BY DEF SettledCalls, Outcomes
<1>4. Serving' = Serving
  BY <1>2 DEF Serving
<1> QED
  BY <1>3, <1>4 DEF Abstract!abstract

\* Settling a request that is served, or that is settled already.
LEMMA SettleStep ==
  ASSUME RInv, UNCHANGED <<queue, awaited>>, NEW x \in Requests,
         NEW how \in Outcomes \ {"notStarted"}, Settle(x, how),
         promise[x] = "unsettled" => x \in awaited
  PROVE  Abstract!Settle \/ UNCHANGED Abstract!abstract
<1> USE DEF RInv
<1>1. CASE promise[x] # "unsettled"
  <2>1. promise' = promise
    BY <1>1 DEF Settle, IInv, TypeOK
  <2> QED
    BY <2>1, StutterStep
<1>2. CASE promise[x] = "unsettled"
  <2>1. /\ promise'[x] = how /\ how # "unsettled"
        /\ \A r \in Requests : r # x => promise'[r] = promise[r]
    BY <1>2 DEF Settle, IInv, TypeOK, Outcomes
  <2>2. Unsettled = {x}
    BY <1>2 DEF Unsettled, IInv, OneAwaited
  <2>3. Unsettled' = {}
    BY <1>2, <2>1 DEF Unsettled, IInv, OneAwaited
  <2>4. SettledCalls' = SettledCalls \cup {x}
    BY <2>1 DEF SettledCalls
  <2>5. Serving = x /\ Serving' = NoRequest
    BY <2>2, <2>3, SomebodyServed, NobodyServed
  <2> QED
    BY <2>4, <2>5, Constants DEF Abstract!Settle
<1> QED
  BY <1>1, <1>2

-----------------------------------------------------------------------------
\* request() submits: to the tail of the queue, or to the idle bus.
LEMMA RequestStep ==
  ASSUME RInv, NEW r \in Requests, Request(r)
  PROVE  Abstract!Submit(r) \/ Abstract!SubmitIdle(r)
<1> USE DEF RInv
<1>1. /\ promise[r] = "none" /\ promise'[r] = "unsettled"
      /\ \A s \in Requests : s # r => promise'[s] = promise[s]
      /\ awaited \subseteq Requests /\ queue \in Seq(Requests)
  BY DEF Request, IInv, TypeOK
<1>2. r \notin awaited
  BY <1>1 DEF IInv, OneAwaited
<1>3. SettledCalls' = SettledCalls /\ r \notin SettledCalls
  BY <1>1 DEF SettledCalls, Outcomes
<1>4. \A i \in DOMAIN queue : queue[i] # r
  BY <1>1 DEF IInv, QueuedIsFresh
<1>5. r # Serving
  <2>1. r \notin Unsettled
    BY <1>2 DEF Unsettled
  <2> QED
    BY <2>1, ServedOrNot, SomebodyServed, NobodyServed, Constants
<1>6. Abstract!IsNew(r)
  BY <1>3, <1>4, <1>5 DEF Abstract!IsNew
<1>7. CASE queue' = Append(queue, r) /\ UNCHANGED awaited
  <2>1. Unsettled' = Unsettled
    BY <1>1, <1>2, <1>7 DEF Unsettled
  <2>2. Serving' = Serving
    BY <2>1 DEF Serving
  <2> QED
    BY <1>3, <1>6, <1>7, <2>2 DEF Abstract!Submit
<1>8. CASE /\ QueueIdle
           /\ queue' = Shift(Append(queue, r)).rest
           /\ awaited' = awaited \cup {Shift(Append(queue, r)).task}
  <2>1. queue = <<>> /\ awaited = {}
    BY <1>8 DEF QueueIdle, IInv, NoLostWakeup
  <2>2. Shift(Append(<<>>, r)).task = r /\ Shift(Append(<<>>, r)).rest = <<>>
    BY DEF Shift
  <2>3. queue' = queue /\ awaited' = {r}
    BY <1>8, <2>1, <2>2
  <2>4. Unsettled = {} /\ Unsettled' = {r}
    BY <1>1, <2>1, <2>3 DEF Unsettled
  <2>5. Serving = NoRequest /\ Serving' = r
    BY <2>4, SomebodyServed, NobodyServed
  <2> QED
    BY <1>3, <1>6, <2>1, <2>3, <2>5 DEF Abstract!SubmitIdle
<1> QED
  BY <1>7, <1>8 DEF Request

\* drainQueue() serves the oldest request, or leaves the loop.
LEMMA DrainStep ==
  ASSUME RInv, NEW r \in Requests, DrainContinue(r)
  PROVE  Abstract!Serve \/ UNCHANGED Abstract!abstract
<1> USE DEF RInv
<1>1. /\ awaited = {r} /\ promise[r] # "unsettled" /\ promise' = promise
      /\ queue \in Seq(Requests)
  BY DEF DrainContinue, Settled, Outcomes, IInv, OneAwaited, TypeOK
<1>2. Unsettled = {} /\ Serving = NoRequest
  BY <1>1, NobodyServed DEF Unsettled
<1>3. SettledCalls' = SettledCalls
  BY <1>1 DEF SettledCalls
<1>4. CASE /\ queue # <<>>
           /\ queue' = Shift(queue).rest
           /\ awaited' = (awaited \ {r}) \cup {Shift(queue).task}
  <2>1. /\ Shift(queue).task = Head(queue) /\ Shift(queue).rest = Tail(queue)
        /\ Shift(queue).task = queue[1] /\ 1 \in 1..Len(queue)
    BY <1>1, <1>4, ShiftedQueue DEF Shift
  <2>2. awaited' = {Head(queue)} /\ promise'[Head(queue)] = "unsettled"
    BY <1>1, <1>4, <2>1 DEF IInv, QueuedIsFresh
  <2>3. Unsettled' = {Head(queue)}
    BY <2>2 DEF Unsettled
  <2>4. Serving' = Head(queue)
    BY <2>3, SomebodyServed
  <2> QED
    BY <1>2, <1>3, <1>4, <2>1, <2>4 DEF Abstract!Serve
<1>5. CASE queue' = queue /\ awaited' = awaited \ {r}
  <2>1. Unsettled' = {}
    BY <1>1, <1>5 DEF Unsettled
  <2>2. Serving' = NoRequest
    BY <2>1, NobodyServed
  <2> QED
    BY <1>2, <1>3, <1>5, <2>2 DEF Abstract!abstract
<1> QED
  BY <1>4, <1>5 DEF DrainContinue

\* The events that settle a request, or find the slot empty.
LEMMA EventStep ==
  ASSUME RInv, NEW r \in Requests,
         TimerFire(r) \/ WriteRefused(r) \/ WriteFail(r)
  PROVE  Abstract!Settle \/ UNCHANGED Abstract!abstract
<1> USE DEF RInv
<1>1. CASE TimerFire(r)
  <2>1. r = pending /\ r \in awaited
    BY <1>1, Constants DEF TimerFire, IInv, TimerGuardsPending, PendingIsServed
  <2>2. CASE Settle(r, "timeout")
    BY <1>1, <2>1, <2>2, SettleStep DEF TimerFire, Outcomes
  <2>3. CASE UNCHANGED promise
    BY <1>1, <2>3, StutterStep DEF TimerFire
  <2> QED
    BY <1>1, <2>2, <2>3 DEF TimerFire
<1>2. CASE WriteRefused(r) \/ WriteFail(r)
  <2>1. /\ write[r] # "unsent" /\ UNCHANGED <<queue, awaited>>
        /\ Settle(r, "writeFailed") \/ UNCHANGED promise
    BY <1>2 DEF WriteRefused, WriteFail, FailWrite, SlotEmpty
  <2>2. promise[r] = "unsettled" => r \in awaited
    BY <2>1 DEF WrittenIsServed
  <2>3. CASE Settle(r, "writeFailed")
    BY <2>1, <2>2, <2>3, SettleStep DEF Outcomes
  <2>4. CASE UNCHANGED promise
    BY <2>1, <2>4, StutterStep
  <2> QED
    BY <2>1, <2>3, <2>4
<1> QED
  BY <1>1, <1>2

\* Chunks and stop() settle the request in the slot, if there is one.
LEMMA SlotStep ==
  ASSUME RInv, Stop \/ \E chunk \in Chunks : Data(chunk)
  PROVE  Abstract!Settle \/ UNCHANGED Abstract!abstract
<1> USE DEF RInv
<1>1. /\ UNCHANGED <<queue, awaited>>
      /\ \/ /\ pending # NoRequest
            /\ Settle(pending, "stopped") \/ Settle(pending, "resolved")
         \/ UNCHANGED promise
  BY DEF Stop, Data, RejectPending, FreeSlot, SlotEmpty
<1>2. CASE /\ pending # NoRequest
           /\ Settle(pending, "stopped") \/ Settle(pending, "resolved")
  <2>1. pending \in Requests /\ pending \in awaited
    BY <1>2 DEF IInv, TypeOK, PendingIsServed
  <2> QED
    BY <1>1, <1>2, <2>1, SettleStep DEF Outcomes
<1>3. CASE UNCHANGED promise
  BY <1>1, <1>3, StutterStep
<1> QED
  BY <1>1, <1>2, <1>3

\* The rest is invisible in the abstract queue.
LEMMA HiddenStep ==
  ASSUME RInv,
         \/ \E r \in Requests : RequestNotStarted(r) \/ WriteDone(r)
         \/ LifecycleStep \/ UNCHANGED vars
  PROVE  UNCHANGED Abstract!abstract
<1> USE DEF RInv
<1>1. CASE \E r \in Requests : RequestNotStarted(r)
  <2>1. PICK r \in Requests : RequestNotStarted(r)
    BY <1>1
  <2>2. r \notin awaited
    BY <2>1 DEF RequestNotStarted, IInv, OneAwaited
  <2>3. \A s \in Requests : promise'[s] # promise[s] =>
           s = r /\ promise[s] = "none" /\ promise'[s] = "notStarted"
    BY <2>1 DEF RequestNotStarted, IInv, TypeOK
  <2> QED
    BY <2>1, <2>2, <2>3, StutterStep DEF RequestNotStarted
<1>2. CASE \/ \E r \in Requests : WriteDone(r)
           \/ LifecycleStep \/ UNCHANGED vars
  <2>1. UNCHANGED <<queue, awaited, promise>>
    BY <1>2 DEF WriteDone, LifecycleStep, requestVars, vars
  <2> QED
    BY <2>1, StutterStep
<1> QED
  BY <1>1, <1>2

-----------------------------------------------------------------------------
\* The orchestrator starts as the abstract queue does.
LEMMA AbstractStart == Init => Abstract!AbstractInit
<1> SUFFICES ASSUME Init PROVE Abstract!AbstractInit
  OBVIOUS
<1>1. Unsettled = {} /\ SettledCalls = {}
  BY DEF Init, Unsettled, SettledCalls, Outcomes
<1> QED
  BY <1>1, NobodyServed DEF Init, Abstract!AbstractInit

\* Every step is a step of the abstract queue or a stutter.
LEMMA AbstractStep ==
  RInv /\ [Next]_vars => [Abstract!AbstractNext]_(Abstract!abstract)
<1> SUFFICES ASSUME RInv, [Next]_vars
             PROVE  Abstract!AbstractNext \/ UNCHANGED Abstract!abstract
  OBVIOUS
<1>1. ASSUME NEW r \in Requests, Request(r) PROVE Abstract!AbstractNext
  BY <1>1, RequestStep DEF Abstract!AbstractNext
<1>2. ASSUME NEW r \in Requests, DrainContinue(r)
      PROVE  Abstract!AbstractNext \/ UNCHANGED Abstract!abstract
  BY <1>2, DrainStep DEF Abstract!AbstractNext
<1>3. ASSUME NEW r \in Requests, TimerFire(r) \/ WriteRefused(r) \/ WriteFail(r)
      PROVE  Abstract!AbstractNext \/ UNCHANGED Abstract!abstract
  BY <1>3, EventStep DEF Abstract!AbstractNext
<1>4. ASSUME Stop \/ \E chunk \in Chunks : Data(chunk)
      PROVE  Abstract!AbstractNext \/ UNCHANGED Abstract!abstract
  BY <1>4, SlotStep DEF Abstract!AbstractNext
<1>5. ASSUME \/ \E r \in Requests : RequestNotStarted(r) \/ WriteDone(r)
             \/ LifecycleStep \/ UNCHANGED vars
      PROVE  UNCHANGED Abstract!abstract
  BY <1>5, HiddenStep
<1> QED
  BY <1>1, <1>2, <1>3, <1>4, <1>5 DEF Next

\* The orchestrator implements the FIFO request queue with one server that
\* settles every request once (dbus.ts:34-41).
THEOREM Refinement == Spec => ImplementsRequestQueue
<1>1. Init => RInv
  BY InitInv, InitWritten DEF RInv
<1>2. RInv /\ [Next]_vars => RInv'
  BY NextInv, WrittenStep DEF RInv
<1> QED
  BY <1>1, <1>2, AbstractStart, AbstractStep, PTL
     DEF Spec, ImplementsRequestQueue, Abstract!SafeSpec

=============================================================================
