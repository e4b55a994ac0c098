---------------------------- MODULE RequestQueue ----------------------------
(***************************************************************************)
(* What the D-bus orchestrator promises its callers, without a wire: calls *)
(* are queued in the order they are made, one is served at a time, and     *)
(* the one being served is settled, once, before the next is taken.        *)
(***************************************************************************)
EXTENDS Sequences

CONSTANTS Requests, NoRequest

VARIABLES
  waiting,   \* requests not yet served, oldest first
  serving,   \* the request in flight, or NoRequest
  settled    \* requests whose promise has been resolved or rejected

abstract == <<waiting, serving, settled>>

AbstractInit ==
  /\ waiting = <<>>
  /\ serving = NoRequest
  /\ settled = {}

IsNew(r) ==
  /\ r \notin settled
  /\ r # serving
  /\ \A i \in DOMAIN waiting : waiting[i] # r

\* A call that has to wait for its turn.
Submit(r) ==
  /\ IsNew(r)
  /\ waiting' = Append(waiting, r)
  /\ UNCHANGED <<serving, settled>>

\* A call that finds the bus idle is served at once.
SubmitIdle(r) ==
  /\ IsNew(r)
  /\ waiting = <<>>
  /\ serving = NoRequest
  /\ serving' = r
  /\ UNCHANGED <<waiting, settled>>

Serve ==
  /\ serving = NoRequest
  /\ waiting # <<>>
  /\ serving' = Head(waiting)
  /\ waiting' = Tail(waiting)
  /\ UNCHANGED settled

Settle ==
  /\ serving # NoRequest
  /\ settled' = settled \cup {serving}
  /\ serving' = NoRequest
  /\ UNCHANGED waiting

AbstractNext ==
  \/ \E r \in Requests : Submit(r) \/ SubmitIdle(r)
  \/ Serve
  \/ Settle

SafeSpec == AbstractInit /\ [][AbstractNext]_abstract

\* A served request does not hold the bus for ever and a free bus is used.
LiveSpec == SafeSpec /\ WF_abstract(Serve) /\ WF_abstract(Settle)

=============================================================================
