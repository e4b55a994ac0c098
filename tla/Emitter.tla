------------------------------- MODULE Emitter -------------------------------
(***************************************************************************)
(* The TypedEmitter (packages/core/src/emitter.ts) for one event: a set of *)
(* listeners in the order of their registration, and emit(), which calls   *)
(* a snapshot of it.  A listener may do anything before it returns, emit   *)
(* the same event included, so emissions nest and a step is one call.      *)
(***************************************************************************)
EXTENDS Naturals, Sequences, FiniteSets

CONSTANTS
  Plain,       \* functions given to on()
  OneShot,     \* functions given to once(); each gets a wrapper of its own
  MaxEmits     \* bound: calls of emit()

ASSUME ListenersAssumption == Plain \cap OneShot = {}
ASSUME MaxEmitsAssumption  == MaxEmits \in Nat

VARIABLES
  listeners,   \* the set, oldest first; wrappers are named by their function
  running,     \* the emissions under way, the innermost last: the snapshot and
               \* how many of it have been called
  emits,       \* history: calls of emit()
  fired,       \* history: fired[l]: times l was called since it was added
  again        \* history: functions in the snapshot of an outer emission when
               \* the event was emitted again

emitter == <<listeners, running, emits, fired, again>>

Functions == Plain \cup OneShot

\* The elements of a sequence.
In(s) == {s[i] : i \in DOMAIN s}

Emission == [snapshot : Seq(Functions), called : Seq(Functions)]

EmitterTypeOK ==
  /\ listeners \in Seq(Functions)
  /\ running \in Seq(Emission)
  /\ emits \in 0..MaxEmits
  /\ fired \in [Functions -> Nat]
  /\ again \subseteq Functions

EmitterInit ==
  /\ listeners = <<>>
  /\ running = <<>>
  /\ emits = 0
  /\ fired = [l \in Functions |-> 0]
  /\ again = {}

-----------------------------------------------------------------------------
\* A listener is in the set once.
Without(s, l) ==
  LET i == CHOOSE j \in DOMAIN s : s[j] = l
  IN  IF l \in In(s) THEN SubSeq(s, 1, i - 1) \o SubSeq(s, i + 1, Len(s)) ELSE s

\* on() and once(): a function that is in the set already keeps its place.
On(l) ==
  /\ l \notin In(listeners)
  /\ listeners' = Append(listeners, l)
  /\ fired' = [fired EXCEPT ![l] = 0]
  /\ again' = again \ {l}
  /\ l \in OneShot => \A e \in In(running) : l \notin In(e.snapshot)
  /\ UNCHANGED <<running, emits>>

\* off(): a wrapper is known to nobody but the emitter.
Off(l) ==
  /\ l \in Plain \cap In(listeners)
  /\ listeners' = Without(listeners, l)
  /\ UNCHANGED <<running, emits, fired, again>>

RemoveAll ==
  /\ listeners # <<>>
  /\ listeners' = <<>>
  /\ UNCHANGED <<running, emits, fired, again>>

Top == running[Len(running)]

Emit ==
  /\ listeners # <<>>
  /\ emits < MaxEmits
  /\ emits' = emits + 1
  /\ running' = Append(running, [snapshot |-> listeners, called |-> <<>>])
  /\ again' = again \cup UNION {In(e.snapshot) : e \in In(running)}
  /\ UNCHANGED <<listeners, fired>>

\* A bug: the loop runs over the set itself, not over a copy.
LiveSet(e) == listeners

Targets(e) == e.snapshot

TakeOut(l) ==
  listeners' = IF l \in OneShot THEN Without(listeners, l) ELSE listeners

\* The next listener is called.  An exception it throws is swallowed.
CallListener ==
  /\ running # <<>>
  /\ Len(Top.called) < Len(Targets(Top))
  /\ LET l == Targets(Top)[Len(Top.called) + 1] IN
       /\ TakeOut(l)
       /\ fired' = [fired EXCEPT ![l] = @ + 1]
       /\ running' = [running EXCEPT ![Len(running)] =
                        [snapshot |-> Top.snapshot, called |-> Append(Top.called, l)]]
  /\ UNCHANGED <<emits, again>>

EmitReturns ==
  /\ running # <<>>
  /\ Len(Top.called) >= Len(Targets(Top))
  /\ running' = SubSeq(running, 1, Len(running) - 1)
  /\ UNCHANGED <<listeners, emits, fired, again>>

EmitterNext ==
  \/ \E l \in Functions : On(l) \/ Off(l)
  \/ RemoveAll
  \/ Emit \/ CallListener \/ EmitReturns

EmitterSpec == EmitterInit /\ [][EmitterNext]_emitter

-----------------------------------------------------------------------------
(***************************************************************************)
(* Properties.                                                             *)
(***************************************************************************)

\* "Snapshot so listeners can remove themselves during dispatch" (emitter.ts
\* :62): an emission calls the listeners it found, in order and each once,
\* whoever is added, removed or emits again meanwhile.
SnapshotIsCalled ==
  \A e \in In(running) :
    /\ Len(e.called) <= Len(e.snapshot)
    /\ e.called = SubSeq(e.snapshot, 1, Len(e.called))

\* "once() fires only the first emit" (core/test/emitter.test.ts:36): more
\* often only if an emission was nested in one that had it in its snapshot.
OnceUnlessNested == \A l \in OneShot : fired[l] <= 1 \/ l \in again

\* What an emission owes to those who listen and to those who did so once.
EmissionsHold == SnapshotIsCalled /\ OnceUnlessNested

=============================================================================
