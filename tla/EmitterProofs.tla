---------------------------- MODULE EmitterProofs ----------------------------
(***************************************************************************)
(* Proofs about Emitter, for every set of listeners and any nesting of     *)
(* emissions.                                                              *)
(*                                                                         *)
(* A one-shot function that is not in `again` is in one snapshot at most,  *)
(* and once it has been called it is neither in the set nor among those    *)
(* that the emission still has to call (CalledOnce).  Sets and snapshots   *)
(* have no function twice.                                                 *)
(***************************************************************************)
EXTENDS Emitter, TLAPS

Once(s) == \A i, j \in DOMAIN s : s[i] = s[j] => i = j

NoDuplicates ==
  /\ Once(listeners)
  /\ \A k \in DOMAIN running : Once(running[k].snapshot)

Snapshots ==
  \A k \in DOMAIN running :
    /\ Len(running[k].called) <= Len(running[k].snapshot)
    /\ \A i \in DOMAIN running[k].called : running[k].called[i] = running[k].snapshot[i]

CalledOnce ==
  \A l \in OneShot \ again :
    /\ fired[l] \in {0, 1}
    /\ fired[l] = 1 =>
         /\ l \notin In(listeners)
         /\ \A k \in DOMAIN running :
              l \in In(running[k].snapshot) => l \in In(running[k].called)
    /\ \A k, m \in DOMAIN running :
         l \in In(running[k].snapshot) /\ l \in In(running[m].snapshot) => k = m

IInv == EmitterTypeOK /\ NoDuplicates /\ Snapshots /\ CalledOnce

-----------------------------------------------------------------------------
\* Membership in a sequence.
LEMMA InSequence ==
  ASSUME NEW s, NEW l
  PROVE  l \in In(s) <=> \E i \in DOMAIN s : s[i] = l
BY DEF In

LEMMA EmissionsHaveSequences ==
  ASSUME EmitterTypeOK, NEW k \in DOMAIN running
  PROVE  /\ running[k] \in Emission
         /\ running[k].snapshot \in Seq(Functions) /\ running[k].called \in Seq(Functions)
<1>1. running[k] \in Emission
  BY DEF EmitterTypeOK
<1> QED
  BY <1>1 DEF Emission

\* Replacing an element.
LEMMA Replaced ==
  ASSUME NEW S, NEW s \in Seq(S), NEW n \in DOMAIN s, NEW e \in S
  PROVE  [s EXCEPT ![n] = e] \in Seq(S)
OBVIOUS

\* One more element at the end.
LEMMA InAppend ==
  ASSUME NEW S, NEW s \in Seq(S), NEW l \in S
  PROVE  In(Append(s, l)) = In(s) \cup {l}
<1> DEFINE t == Append(s, l)
<1>1. /\ \A i \in DOMAIN s : i \in DOMAIN t /\ t[i] = s[i]
      /\ \A i \in DOMAIN t : i \in DOMAIN s \/ i = Len(s) + 1
      /\ Len(s) + 1 \in DOMAIN t /\ t[Len(s) + 1] = l
  OBVIOUS
<1> HIDE DEF t
<1>2. ASSUME NEW m PROVE m \in In(t) <=> m \in In(s) \cup {l}
  BY <1>1, InSequence
<1> QED
  BY <1>2 DEF t

(* Taking a listener out of the set.                                       *)

LEMMA WithoutProperties ==
  ASSUME NEW S, NEW s \in Seq(S), Once(s), NEW l
  PROVE  /\ Without(s, l) \in Seq(S)
         /\ Once(Without(s, l))
         /\ In(Without(s, l)) \subseteq In(s)
         /\ l \notin In(Without(s, l))
<1>1. CASE l \notin In(s)
  BY <1>1 DEF Without
<1>2. CASE l \in In(s)
  <2> DEFINE i == CHOOSE j \in DOMAIN s : s[j] = l
  <2> DEFINE t == SubSeq(s, 1, i - 1) \o SubSeq(s, i + 1, Len(s))
  <2>1. i \in DOMAIN s /\ s[i] = l
    BY <1>2 DEF In
  <2>2. Without(s, l) = t
    BY <1>2 DEF Without
  <2> HIDE DEF i
  <2>3. i \in 1..Len(s) /\ Len(s) \in Nat
    BY <2>1
  <2> DEFINE a == SubSeq(s, 1, i - 1)
             b == SubSeq(s, i + 1, Len(s))
  <2>4. /\ a \in Seq(S) /\ Len(a) = i - 1 /\ b \in Seq(S) /\ Len(b) = Len(s) - i
        /\ \A k \in 1..(i - 1) : a[k] = s[k]
        /\ \A k \in 1..(Len(s) - i) : b[k] = s[i + k]
    BY <2>3
  <2>5. /\ t \in Seq(S) /\ Len(t) = Len(s) - 1
        /\ \A k \in 1..(Len(s) - 1) : t[k] = IF k < i THEN s[k] ELSE s[k + 1]
    <3>1. t = a \o b
      OBVIOUS
    <3> HIDE DEF a, b, t
    <3>2. t \in Seq(S) /\ Len(t) = Len(s) - 1
      BY <2>3, <2>4, <3>1
    <3>3. ASSUME NEW k \in 1..(Len(s) - 1)
          PROVE  t[k] = IF k < i THEN s[k] ELSE s[k + 1]
      <4>1. CASE k < i
        BY <2>3, <2>4, <3>1, <4>1
      <4>2. CASE ~(k < i)
        <5>1. k - (i - 1) \in 1..(Len(s) - i) /\ i + (k - (i - 1)) = k + 1
          BY <2>3, <4>2
        <5>2. t[k] = b[k - (i - 1)]
          BY <2>3, <2>4, <3>1, <4>2
        <5> QED
          BY <2>4, <4>2, <5>1, <5>2
      <4> QED
        BY <4>1, <4>2
    <3> QED
      BY <3>2, <3>3
  <2> HIDE DEF t
  <2>6. Once(t)
    <3> SUFFICES ASSUME NEW j \in 1..(Len(s) - 1), NEW k \in 1..(Len(s) - 1), t[j] = t[k]
                 PROVE  j = k
      BY <2>5 DEF Once
    <3> DEFINE old(x) == IF x < i THEN x ELSE x + 1
    <3>1. /\ old(j) \in DOMAIN s /\ t[j] = s[old(j)]
          /\ old(k) \in DOMAIN s /\ t[k] = s[old(k)]
      BY <2>3, <2>5
    <3>2. old(j) = old(k)
      BY <3>1 DEF Once
    <3> QED
      BY <2>3, <3>2
  <2>7. In(t) \subseteq In(s)
    BY <2>3, <2>5 DEF In
  <2>8. l \notin In(t)
    BY <2>1, <2>3, <2>5 DEF In, Once
  <2> QED
    BY <2>2, <2>5, <2>6, <2>7, <2>8
<1> QED
  BY <1>1, <1>2

LEMMA InitInv == EmitterInit => IInv
<1> SUFFICES ASSUME EmitterInit PROVE IInv
  OBVIOUS
<1>1. EmitterTypeOK
  BY MaxEmitsAssumption DEF EmitterInit, EmitterTypeOK, Functions
<1>2. NoDuplicates /\ Snapshots
  BY DEF EmitterInit, NoDuplicates, Once, Snapshots
<1>3. CalledOnce
  BY DEF EmitterInit, CalledOnce, Functions
<1> QED
  BY <1>1, <1>2, <1>3 DEF IInv

-----------------------------------------------------------------------------
\* A function that is added is new to the set, and a wrapper is new to every
\* snapshot.
LEMMA OnInv ==
  ASSUME IInv, NEW l \in Functions, On(l)
  PROVE  IInv'
<1> USE DEF IInv, On
<1>0. /\ listeners \in Seq(Functions) /\ running \in Seq(Emission)
      /\ fired \in [Functions -> Nat] /\ OneShot \subseteq Functions
      /\ fired' = [fired EXCEPT ![l] = 0] /\ again' = again \ {l} /\ running' = running
  BY DEF EmitterTypeOK, Functions
<1>1. EmitterTypeOK'
  BY <1>0 DEF EmitterTypeOK
<1>2. In(listeners') = In(listeners) \cup {l}
  BY <1>0, InAppend
<1>3. NoDuplicates'
  BY <1>0 DEF NoDuplicates, Once, In
<1>4. Snapshots'
  BY <1>0 DEF Snapshots
<1>5. CalledOnce'
  <2> SUFFICES ASSUME NEW m \in OneShot \ again'
               PROVE  /\ fired'[m] \in {0, 1}
                      /\ fired'[m] = 1 =>
                           /\ m \notin In(listeners')
                           /\ \A k \in DOMAIN running :
                                m \in In(running[k].snapshot) => m \in In(running[k].called)
                      /\ \A k, n \in DOMAIN running :
                           m \in In(running[k].snapshot) /\ m \in In(running[n].snapshot) => k = n
    BY <1>0, Zenon DEF CalledOnce
  <2>1. CASE m = l
    <3>1. ASSUME NEW k \in DOMAIN running PROVE m \notin In(running[k].snapshot)
      <4>1. running[k] \in In(running)
        BY InSequence
      <4> QED
        BY <2>1, <4>1
    <3> QED
      BY <1>0, <2>1, <3>1
  <2>2. CASE m # l
    BY <1>0, <1>2, <2>2 DEF CalledOnce
  <2> QED
    BY <2>1, <2>2
<1> QED
  BY <1>1, <1>3, <1>4, <1>5

\* A set that shrinks.
LEMMA FewerListeners ==
  ASSUME IInv, listeners' \in Seq(Functions), Once(listeners)',
         In(listeners)' \subseteq In(listeners), UNCHANGED <<running, emits, fired, again>>
  PROVE  IInv'
<1> USE DEF IInv
<1>1. EmitterTypeOK' /\ NoDuplicates' /\ Snapshots'
  BY DEF EmitterTypeOK, NoDuplicates, Snapshots
<1>2. CalledOnce'
  BY DEF CalledOnce
<1> QED
  BY <1>1, <1>2

LEMMA OffInv ==
  ASSUME IInv, NEW l \in Functions, Off(l)
  PROVE  IInv'
<1>1. listeners \in Seq(Functions) /\ Once(listeners)
  BY DEF IInv, EmitterTypeOK, NoDuplicates
<1>2. /\ Without(listeners, l) \in Seq(Functions) /\ Once(Without(listeners, l))
      /\ In(Without(listeners, l)) \subseteq In(listeners)
  BY <1>1, WithoutProperties
<1> QED
  BY <1>2, FewerListeners DEF Off, Once

LEMMA RemoveAllInv ==
  ASSUME IInv, RemoveAll
  PROVE  IInv'
BY FewerListeners DEF RemoveAll, Once, In

\* What was in an outer snapshot is in `again` from now on.
LEMMA EmitInv ==
  ASSUME IInv, Emit
  PROVE  IInv'
<1> USE DEF IInv, Emit
<1> DEFINE new == [snapshot |-> listeners, called |-> <<>>]
<1>0. /\ listeners \in Seq(Functions)
      /\ running \in Seq(Emission)
      /\ running' = Append(running, new) /\ listeners' = listeners /\ fired' = fired
      /\ new \in Emission
  BY DEF EmitterTypeOK, Emission
<1>a. /\ \A k \in DOMAIN running' : k \in DOMAIN running \/ k = Len(running) + 1
      /\ \A k \in DOMAIN running : k \in DOMAIN running' /\ running'[k] = running[k]
      /\ running'[Len(running) + 1] = new
      /\ \A k \in DOMAIN running : k # Len(running) + 1
  BY <1>0
<1>b. ASSUME NEW l \in OneShot \ again', NEW k \in DOMAIN running
      PROVE  l \notin In(running[k].snapshot)
  <2>1. running[k] \in In(running)
    BY InSequence
  <2> QED
    BY <2>1
<1>1. EmitterTypeOK'
  <2>1. emits' \in 0..MaxEmits
    BY MaxEmitsAssumption DEF EmitterTypeOK
  <2>2. ASSUME NEW e \in In(running) PROVE In(e.snapshot) \subseteq Functions
    <3>1. PICK k \in DOMAIN running : e = running[k]
      BY InSequence
    <3>2. e.snapshot \in Seq(Functions)
      BY <3>1, EmissionsHaveSequences
    <3> QED
      BY <3>2, InSequence
  <2>3. again' \subseteq Functions
    BY <2>2 DEF EmitterTypeOK
  <2> QED
    BY <1>0, <2>1, <2>3 DEF EmitterTypeOK
<1>2. NoDuplicates'
  BY <1>a DEF NoDuplicates
<1>3. Snapshots'
  BY <1>0, <1>a DEF Snapshots
<1>4. CalledOnce'
  <2> SUFFICES ASSUME NEW l \in OneShot \ again'
               PROVE  /\ fired[l] \in {0, 1}
                      /\ fired[l] = 1 =>
                           /\ l \notin In(listeners)
                           /\ \A k \in DOMAIN running' :
                                l \in In(running'[k].snapshot) => l \in In(running'[k].called)
                      /\ \A k, n \in DOMAIN running' :
                           l \in In(running'[k].snapshot) /\ l \in In(running'[n].snapshot) => k = n
    BY <1>0, Zenon DEF CalledOnce
  <2>1. l \in OneShot \ again
    OBVIOUS
  <2> QED
    BY <1>a, <1>b, <2>1 DEF CalledOnce
<1> QED
  BY <1>1, <1>2, <1>3, <1>4

\* The next listener of the innermost emission has not been called by it, so if
\* it is a wrapper that was called before, it is in `again`.
LEMMA CallInv ==
  ASSUME IInv, CallListener
  PROVE  IInv'
<1> USE DEF IInv
<1> DEFINE n == Len(running)
           l == running[n].snapshot[Len(running[n].called) + 1]
<1>0. /\ listeners \in Seq(Functions)
      /\ running \in Seq(Emission)
      /\ fired \in [Functions -> Nat] /\ OneShot \subseteq Functions
  BY DEF EmitterTypeOK, Functions
<1>1. /\ n \in DOMAIN running /\ n \in Nat
      /\ running[n] \in Emission
      /\ running[n].snapshot \in Seq(Functions) /\ running[n].called \in Seq(Functions)
      /\ Len(running[n].called) < Len(running[n].snapshot)
  <2>1. n \in DOMAIN running /\ n \in Nat
    BY <1>0 DEF CallListener
  <2>2. Len(running[n].called) < Len(running[n].snapshot)
    BY DEF CallListener, Top, Targets
  <2> QED
    BY <2>1, <2>2, EmissionsHaveSequences
<1>2. l \in Functions /\ Len(running[n].called) + 1 \in DOMAIN running[n].snapshot
  BY <1>1
<1>3. /\ TakeOut(l) /\ again' = again /\ emits' = emits
      /\ fired' = [fired EXCEPT ![l] = fired[l] + 1]
      /\ running' = [running EXCEPT ![n] = [snapshot |-> running[n].snapshot,
                                            called   |-> Append(running[n].called, l)]]
  BY <1>1 DEF CallListener, Top, Targets
<1>4. l \notin In(running[n].called)
  BY <1>1, <1>2 DEF In, Snapshots, NoDuplicates, Once
<1>5. /\ listeners' \in Seq(Functions) /\ Once(listeners') /\ In(listeners') \subseteq In(listeners)
      /\ l \in OneShot => l \notin In(listeners')
  BY <1>0, <1>3, WithoutProperties DEF TakeOut, NoDuplicates
<1>6. l \in In(running[n].snapshot)
  BY <1>2 DEF In
<1> HIDE DEF l
<1>7. /\ DOMAIN running' = DOMAIN running
      /\ running'[n].snapshot = running[n].snapshot
      /\ running'[n].called = Append(running[n].called, l)
      /\ \A k \in DOMAIN running : k # n => running'[k] = running[k]
      /\ \A k \in DOMAIN running : running'[k].snapshot = running[k].snapshot
      /\ running' = [running EXCEPT ![n] = running'[n]]
      /\ running'[n] \in Emission
  <2>1. Append(running[n].called, l) \in Seq(Functions)
    BY <1>1, <1>2
  <2>3. /\ DOMAIN running' = DOMAIN running
        /\ running'[n] = [snapshot |-> running[n].snapshot,
                          called   |-> Append(running[n].called, l)]
        /\ \A k \in DOMAIN running : k # n => running'[k] = running[k]
    BY <1>0, <1>1, <1>3
  <2>4. running' = [running EXCEPT ![n] = running'[n]]
    BY <1>0, <1>1, <1>3, <2>3
  <2>5. /\ running'[n].snapshot = running[n].snapshot
        /\ running'[n].called = Append(running[n].called, l)
        /\ running'[n] \in Emission
    BY <1>1, <2>1, <2>3 DEF Emission
  <2> QED
    BY <2>3, <2>4, <2>5
<1>8. /\ In(running'[n].called) = In(running[n].called) \cup {l}
      /\ \A k \in DOMAIN running : In(running[k].called) \subseteq In(running'[k].called)
  <2>1. In(running'[n].called) = In(running[n].called) \cup {l}
    BY <1>1, <1>2, <1>7, InAppend
  <2> QED
    BY <1>7, <2>1
<1>9. EmitterTypeOK'
  <2>1. running' \in Seq(Emission)
    <3> DEFINE e == running'[n]
    <3>1. e \in Emission /\ running' = [running EXCEPT ![n] = e]
      BY <1>7
    <3> HIDE DEF e, n
    <3>2. [running EXCEPT ![n] = e] \in Seq(Emission)
      BY <1>0, <1>1, <3>1, Replaced
    <3> QED
      BY <3>1, <3>2
  <2>2. fired' \in [Functions -> Nat]
    BY <1>0, <1>2, <1>3
  <2> QED
    BY <1>3, <1>5, <2>1, <2>2 DEF EmitterTypeOK
<1>10. NoDuplicates'
  BY <1>5, <1>7 DEF NoDuplicates, Once
<1>11. Snapshots'
  <2> SUFFICES ASSUME NEW k \in DOMAIN running
               PROVE  /\ Len(running'[k].called) <= Len(running'[k].snapshot)
                      /\ \A i \in DOMAIN running'[k].called :
                           running'[k].called[i] = running'[k].snapshot[i]
    BY <1>7, Zenon DEF Snapshots
  <2>1. CASE k # n
    BY <1>7, <2>1 DEF Snapshots
  <2>2. CASE k = n
    <3>1. l = running[n].snapshot[Len(running[n].called) + 1]
      BY DEF l
    <3>2. /\ Len(running'[n].called) = Len(running[n].called) + 1
          /\ running'[n].called[Len(running[n].called) + 1] = l
          /\ \A i \in DOMAIN running[n].called : running'[n].called[i] = running[n].called[i]
          /\ \A i \in DOMAIN running'[n].called :
               i \in DOMAIN running[n].called \/ i = Len(running[n].called) + 1
      BY <1>1, <1>2, <1>7
    <3>3. \A i \in DOMAIN running[n].called : running[n].called[i] = running[n].snapshot[i]
      BY <1>1 DEF Snapshots
    <3>4. ASSUME NEW i \in DOMAIN running'[n].called
          PROVE  running'[n].called[i] = running'[n].snapshot[i]
      BY <1>7, <3>1, <3>2, <3>3
    <3>5. Len(running'[n].called) <= Len(running'[n].snapshot)
      BY <1>1, <1>7, <3>2
    <3> QED
      BY <2>2, <3>4, <3>5
  <2> QED
    BY <2>1, <2>2
<1>12. CalledOnce'
  <2> SUFFICES ASSUME NEW m \in OneShot \ again
               PROVE  /\ fired'[m] \in {0, 1}
                      /\ fired'[m] = 1 =>
                           /\ m \notin In(listeners')
                           /\ \A k \in DOMAIN running :
                                m \in In(running[k].snapshot) => m \in In(running'[k].called)
                      /\ \A k, j \in DOMAIN running :
                           m \in In(running[k].snapshot) /\ m \in In(running[j].snapshot) => k = j
    BY <1>3, <1>7 DEF CalledOnce
  <2>1. CASE m = l
    <3>1. fired[m] = 0
      BY <1>1, <1>4, <1>6, <2>1 DEF CalledOnce
    <3>2. fired'[m] = 1
      BY <1>0, <1>2, <1>3, <2>1, <3>1
    <3>3. \A k \in DOMAIN running : m \in In(running[k].snapshot) => k = n
      BY <1>1, <1>6, <2>1 DEF CalledOnce
    <3> QED
      BY <1>5, <1>8, <2>1, <3>2, <3>3 DEF CalledOnce
  <2>2. CASE m # l
    <3>1. fired'[m] = fired[m]
      BY <1>0, <1>3, <2>2
    <3> QED
      BY <1>5, <1>8, <3>1 DEF CalledOnce
  <2> QED
    BY <2>1, <2>2
<1> QED
  BY <1>9, <1>10, <1>11, <1>12

LEMMA ReturnInv ==
  ASSUME IInv, EmitReturns
  PROVE  IInv'
<1> USE DEF IInv, EmitReturns
<1>0. /\ running \in Seq(Emission)
      /\ running # <<>>
      /\ running' = SubSeq(running, 1, Len(running) - 1)
  BY DEF EmitterTypeOK
<1>1. /\ running' \in Seq(Emission)
      /\ \A k \in DOMAIN running' : k \in DOMAIN running /\ running'[k] = running[k]
  BY <1>0
<1>2. EmitterTypeOK'
  BY <1>1 DEF EmitterTypeOK
<1>3. NoDuplicates' /\ Snapshots'
  BY <1>1 DEF NoDuplicates, Snapshots
<1>4. CalledOnce'
  BY <1>1 DEF CalledOnce
<1> QED
  BY <1>2, <1>3, <1>4

LEMMA StepInv == IInv /\ [EmitterNext]_emitter => IInv'
<1> SUFFICES ASSUME IInv, [EmitterNext]_emitter PROVE IInv'
  OBVIOUS
<1>1. ASSUME NEW l \in Functions, On(l) PROVE IInv'
  BY <1>1, OnInv
<1>2. ASSUME NEW l \in Functions, Off(l) PROVE IInv'
  BY <1>2, OffInv
<1>3. CASE RemoveAll
  BY <1>3, RemoveAllInv
<1>4. CASE Emit
  BY <1>4, EmitInv
<1>5. CASE CallListener
  BY <1>5, CallInv
<1>6. CASE EmitReturns
  BY <1>6, ReturnInv
<1>7. CASE UNCHANGED emitter
  BY <1>7 DEF emitter, IInv, EmitterTypeOK, NoDuplicates, Snapshots, CalledOnce
<1> QED
  BY <1>1, <1>2, <1>3, <1>4, <1>5, <1>6, <1>7 DEF EmitterNext

\* The invariant in the words of the two properties.
LEMMA InvHolds == IInv => EmissionsHold
<1> SUFFICES ASSUME IInv PROVE EmissionsHold
  OBVIOUS
<1>1. SnapshotIsCalled
  <2> SUFFICES ASSUME NEW k \in DOMAIN running
               PROVE  /\ Len(running[k].called) <= Len(running[k].snapshot)
                      /\ running[k].called = SubSeq(running[k].snapshot, 1, Len(running[k].called))
    BY DEF SnapshotIsCalled, In
  <2>1. running[k].snapshot \in Seq(Functions) /\ running[k].called \in Seq(Functions)
    BY EmissionsHaveSequences DEF IInv
  <2>2. /\ Len(running[k].called) <= Len(running[k].snapshot)
        /\ \A i \in DOMAIN running[k].called : running[k].called[i] = running[k].snapshot[i]
    BY DEF IInv, Snapshots
  <2> QED
    BY <2>1, <2>2
<1>2. OnceUnlessNested
  BY DEF IInv, CalledOnce, OnceUnlessNested
<1> QED
  BY <1>1, <1>2 DEF EmissionsHold

-----------------------------------------------------------------------------
\* An emission calls the listeners of its snapshot, in order and each once,
\* whatever they add, remove or emit, and a once() listener is called once
\* unless an emission was nested in one that had it in its snapshot
\* (emitter.ts:49-72).
THEOREM EmissionsAreSound == EmitterSpec => []EmissionsHold
<1>1. EmitterSpec => []IInv
  BY InitInv, StepInv, PTL DEF EmitterSpec
<1> QED
  BY <1>1, InvHolds, PTL

\* The listeners and the snapshots of running emissions are sequences of the
\* functions there are, whatever they do (emitter.ts:20-72).
THEOREM EmitterIsTyped == EmitterSpec => []EmitterTypeOK
<1>1. IInv => EmitterTypeOK
  BY DEF IInv
<1>2. EmitterSpec => []IInv
  BY InitInv, StepInv, PTL DEF EmitterSpec
<1> QED
  BY <1>1, <1>2, PTL

=============================================================================
