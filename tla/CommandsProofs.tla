--------------------------- MODULE CommandsProofs ---------------------------
(***************************************************************************)
(* Proofs about the methods that span an await, for any number of tracks,  *)
(* discs and overlapping calls, and any writes that fail.                  *)
(***************************************************************************)
EXTENDS Commands, FiniteSetTheorems, TLAPS

Players == [status : {"STOP", "PLAYING", "PAUSE"},
            function : {"NOT_PLAYING", "PLAYING", "PAUSE", "SCAN_MODE", "RANDOM_MODE"},
            disc : 1..LastDisc, track : 1..LastTrack]

JobNames == {"requestDoors", "LOCK_ALL", "LOCK_ALL_GM5", "LOCK_ALL_GM1", "UNLOCK_ALL",
             "UNLOCK_HIGH_GM5", "UNLOCK_LOW_GM5", "UNLOCK_TRUNK", "CENTRAL_LOCK",
             "CENTRAL_LOCK_GM5", "CENTRAL_LOCK_GM1"}

Sendable == CASE twin = "CDC" -> Players
              [] twin = "GM"  -> JobNames
              [] OTHER        -> {"RAD", "TEL"}

Ops == GMCommands \cup {"RT press", "press", "volume", "toggle", "request", "control"}

Call(F) == [op : Ops, frames : Seq(F), stage : {"writing", "returned", "failed"}]

(***************************************************************************)
(* What holds of the calls of every twin, and of those of a twin all of    *)
(* whose methods send one frame: its writes are those of different calls,  *)
(* and a call whose write is awaited has not ended.                        *)
(***************************************************************************)
PipeInv ==
  /\ twin \in {"MFL", "GM", "CDC"}
  /\ calls \in Seq(Call(Sendable))
  /\ tx \in Seq(Nat \X Sendable)
  /\ unacked \in 0..Len(tx)
  /\ \A i \in DOMAIN tx : tx[i][1] \in DOMAIN calls
  /\ \A c \in DOMAIN calls : calls[c].op = "toggle" => calls[c].frames = <<>>

OneFrameEach ==
  twin # "GM" =>
    /\ \A i \in DOMAIN tx : Len(calls[tx[i][1]].frames) = 1
    /\ \A i, j \in DOMAIN tx : tx[i][1] = tx[j][1] => i = j
    /\ \A i \in DOMAIN tx :
         i > Len(tx) - unacked => calls[tx[i][1]].stage = "writing"

-----------------------------------------------------------------------------
LEMMA AppendHasBoth ==
  ASSUME NEW S, NEW s \in Seq(S), NEW e \in S
  PROVE  /\ Append(s, e) \in Seq(S) /\ Append(s, e) # <<>>
         /\ Len(Append(s, e)) = Len(s) + 1 /\ Len(s) \in Nat
         /\ DOMAIN s = 1..Len(s) /\ DOMAIN Append(s, e) = 1..(Len(s) + 1)
         /\ \A i \in DOMAIN s : Append(s, e)[i] = s[i]
         /\ Append(s, e)[Len(s) + 1] = e
OBVIOUS

LEMMA StageChanges ==
  ASSUME NEW F, NEW s \in Seq(Call(F)), NEW c \in DOMAIN s,
         NEW st \in {"writing", "returned", "failed"},
         NEW t, t = [s EXCEPT ![c].stage = st]
  PROVE  /\ t \in Seq(Call(F)) /\ DOMAIN t = DOMAIN s
         /\ t[c].stage = st
         /\ \A i \in DOMAIN s :
              /\ t[i].frames = s[i].frames /\ t[i].op = s[i].op
              /\ i # c => t[i].stage = s[i].stage
<1> DEFINE e == [s[c] EXCEPT !.stage = st]
<1>1. s[c] \in Call(F)
  OBVIOUS
<1>2. /\ e \in Call(F) /\ e.stage = st
      /\ e.frames = s[c].frames /\ e.op = s[c].op
  BY <1>1 DEF Call
<1>3. t = [s EXCEPT ![c] = e]
  OBVIOUS
<1> HIDE DEF e
<1>4. t \in Seq(Call(F)) /\ DOMAIN t = DOMAIN s
  BY <1>2, <1>3
<1>5. t[c] = e /\ \A i \in DOMAIN s : i # c => t[i] = s[i]
  BY <1>3
<1> QED
  BY <1>2, <1>4, <1>5

\* The oldest write is one of the writes.
LEMMA OldestIsWritten ==
  ASSUME PipeInv, unacked > 0
  PROVE  /\ Len(tx) - unacked + 1 \in DOMAIN tx
         /\ Oldest = tx[Len(tx) - unacked + 1][1]
         /\ Oldest \in DOMAIN calls
         /\ Writes(Oldest) \in Nat \ {0}
<1>1. Len(tx) - unacked + 1 \in DOMAIN tx
  BY DEF PipeInv
<1>2. Oldest \in DOMAIN calls
  BY <1>1 DEF PipeInv, Oldest, Reported
<1> DEFINE W == {i \in DOMAIN tx : tx[i][1] = Oldest}
<1>3. IsFiniteSet(W)
  <2>1. DOMAIN tx = 1..Len(tx) /\ Len(tx) \in Nat
    BY DEF PipeInv
  <2>2. IsFiniteSet(DOMAIN tx)
    BY <2>1, FS_Interval
  <2> QED
    BY <2>2, FS_Subset
<1>4. Len(tx) - unacked + 1 \in W
  BY <1>1 DEF Oldest, Reported
<1>5. Cardinality(W) \in Nat /\ Cardinality(W) # 0
  BY <1>3, <1>4, FS_CardinalityType, FS_EmptySet
<1> QED
  BY <1>1, <1>2, <1>5 DEF Oldest, Reported, Writes

\* A twin that sends one frame per call does not write again.
LEMMA WritesOnce ==
  ASSUME PipeInv, OneFrameEach, twin # "GM", unacked > 0
  PROVE  /\ Writes(Oldest) = 1 /\ Len(calls[Oldest].frames) = 1
         /\ calls[Oldest].stage = "writing"
<1> DEFINE k == Len(tx) - unacked + 1
<1>1. k \in DOMAIN tx /\ Oldest = tx[k][1]
  BY OldestIsWritten
<1>2. {i \in DOMAIN tx : tx[i][1] = Oldest} = {k}
  BY <1>1 DEF OneFrameEach
<1>3. Writes(Oldest) = 1
  BY <1>2, FS_Singleton DEF Writes
<1>4. k > Len(tx) - unacked
  BY DEF PipeInv
<1> QED
  BY <1>1, <1>3, <1>4 DEF OneFrameEach

-----------------------------------------------------------------------------
(***************************************************************************)
(* The steps.                                                              *)
(***************************************************************************)
LEMMA BeginKeeps ==
  ASSUME PipeInv, OneFrameEach, NEW op \in Ops, op # "toggle",
         NEW frames \in Seq(Sendable), twin # "GM" => Len(frames) = 1,
         Begin(op, frames), UNCHANGED twin
  PROVE  PipeInv' /\ OneFrameEach'
<1> DEFINE call == [op |-> op, frames |-> frames,
                    stage |-> IF frames = <<>> THEN "returned" ELSE "writing"]
<1>0. Sendable' = Sendable
  BY DEF Sendable
<1>1. call \in Call(Sendable) /\ call.op = op /\ call.frames = frames
  BY DEF Call
<1>2. /\ calls' \in Seq(Call(Sendable)) /\ Len(calls) \in Nat
      /\ DOMAIN calls = 1..Len(calls) /\ DOMAIN calls' = 1..(Len(calls) + 1)
      /\ \A i \in DOMAIN calls : calls'[i] = calls[i]
      /\ calls'[Len(calls) + 1] = call
  BY <1>1, AppendHasBoth DEF Begin, PipeInv
<1>3. \A c \in DOMAIN calls' : calls'[c].op = "toggle" => calls'[c].frames = <<>>
  <2> TAKE c \in DOMAIN calls'
  <2>1. CASE c \in DOMAIN calls
    BY <1>2, <2>1 DEF PipeInv
  <2>2. CASE c = Len(calls) + 1
    BY <1>1, <1>2, <2>2
  <2> QED
    BY <1>2, <2>1, <2>2
<1>4. CASE frames = <<>>
  <2>1. twin = "GM" /\ tx' = tx /\ unacked' = unacked
    BY <1>4 DEF Begin, PipeInv
  <2>2. PipeInv'
    BY <1>0, <1>2, <1>3, <2>1 DEF PipeInv
  <2> QED
    BY <2>1, <2>2 DEF OneFrameEach
<1>5. CASE frames # <<>>
  <2> DEFINE e == <<Len(calls) + 1, frames[1]>>
  <2>1. tx' = Append(tx, e) /\ unacked' = unacked + 1
    BY <1>5 DEF Begin
  <2>2. e \in Nat \X Sendable /\ e[1] = Len(calls) + 1
    BY <1>2, <1>5
  <2> HIDE DEF e
  <2>3. /\ tx' \in Seq(Nat \X Sendable) /\ Len(tx) \in Nat /\ Len(tx') = Len(tx) + 1
        /\ DOMAIN tx = 1..Len(tx) /\ DOMAIN tx' = 1..(Len(tx) + 1)
        /\ \A i \in DOMAIN tx : tx'[i] = tx[i]
        /\ tx'[Len(tx) + 1] = e
    BY <2>1, <2>2, AppendHasBoth DEF PipeInv
  <2>4. unacked' \in 0..Len(tx')
    BY <2>1, <2>3 DEF PipeInv
  <2>a. /\ \A i \in DOMAIN tx : tx[i][1] \in DOMAIN calls
        /\ \A i \in DOMAIN tx' : i \in DOMAIN tx \/ i = Len(tx) + 1
    BY <2>3 DEF PipeInv
  <2>5. \A i \in DOMAIN tx' : tx'[i][1] \in DOMAIN calls'
    <3> TAKE i \in DOMAIN tx'
    <3>1. CASE i \in DOMAIN tx
      BY <1>2, <2>3, <2>a, <3>1
    <3>2. CASE i = Len(tx) + 1
      <4>1. tx'[i][1] = Len(calls) + 1
        BY <2>2, <2>3, <3>2
      <4> QED
        BY <1>2, <4>1
    <3> QED
      BY <2>a, <3>1, <3>2
  <2>6. PipeInv'
    BY <1>0, <1>2, <1>3, <2>3, <2>4, <2>5 DEF PipeInv
  <2>7. OneFrameEach'
    <3> SUFFICES ASSUME twin # "GM" PROVE OneFrameEach'
      BY DEF OneFrameEach
    <3>1. calls'[Len(calls) + 1].stage = "writing" /\ Len(calls'[Len(calls) + 1].frames) = 1
      BY <1>1, <1>2, <1>5
    <3>2. \A i \in DOMAIN tx' : Len(calls'[tx'[i][1]].frames) = 1
      <4> TAKE i \in DOMAIN tx'
      <4>1. CASE i \in DOMAIN tx
        BY <1>2, <2>3, <2>a, <4>1, SMTT(30) DEF OneFrameEach
      <4>2. CASE i = Len(tx) + 1
        <5>1. tx'[i][1] = Len(calls) + 1
          BY <2>2, <2>3, <4>2
        <5> QED
          BY <3>1, <5>1
      <4> QED
        BY <2>a, <4>1, <4>2
    <3>3. \A i, j \in DOMAIN tx' : tx'[i][1] = tx'[j][1] => i = j
      <4>1. \A i \in DOMAIN tx : tx[i][1] # Len(calls) + 1
        BY <1>2 DEF PipeInv
      <4> QED
        BY <2>2, <2>3, <4>1, SMTT(30) DEF OneFrameEach
    <3>4. ASSUME NEW i \in DOMAIN tx', i > Len(tx') - unacked'
          PROVE  calls'[tx'[i][1]].stage = "writing"
      <4>1. CASE i = Len(tx) + 1
        BY <2>2, <2>3, <3>1, <4>1
      <4>2. CASE i # Len(tx) + 1
        <5>1. i \in DOMAIN tx /\ i > Len(tx) - unacked
          BY <2>1, <2>3, <3>4, <4>2 DEF PipeInv
        <5> QED
          BY <1>2, <2>3, <2>a, <5>1, SMTT(30) DEF OneFrameEach
      <4> QED
        BY <4>1, <4>2
    <3> QED
      BY <3>2, <3>3, <3>4 DEF OneFrameEach
  <2> QED
    BY <2>6, <2>7
<1> QED
  BY <1>4, <1>5

LEMMA OldestStageChanges ==
  ASSUME calls \in Seq(Call(Sendable)), Oldest \in DOMAIN calls,
         NEW st \in {"writing", "returned", "failed"},
         calls' = [calls EXCEPT ![Oldest].stage = st]
  PROVE  /\ calls' \in Seq(Call(Sendable)) /\ DOMAIN calls' = DOMAIN calls
         /\ calls'[Oldest].stage = st
         /\ \A i \in DOMAIN calls :
              /\ calls'[i].frames = calls[i].frames /\ calls'[i].op = calls[i].op
              /\ i # Oldest => calls'[i].stage = calls[i].stage
BY StageChanges

LEMMA EndKeeps ==
  ASSUME PipeInv, OneFrameEach, unacked > 0, unacked' = unacked - 1,
         NEW st \in {"returned", "failed"},
         calls' = [calls EXCEPT ![Oldest].stage = st], UNCHANGED <<twin, tx>>
  PROVE  PipeInv' /\ OneFrameEach'
<1>0. Sendable' = Sendable
  BY DEF Sendable
<1>1. /\ Len(tx) - unacked + 1 \in DOMAIN tx
      /\ Oldest = tx[Len(tx) - unacked + 1][1]
      /\ Oldest \in DOMAIN calls
  BY OldestIsWritten
<1>2. /\ calls' \in Seq(Call(Sendable)) /\ DOMAIN calls' = DOMAIN calls
      /\ \A i \in DOMAIN calls :
           /\ calls'[i].frames = calls[i].frames /\ calls'[i].op = calls[i].op
           /\ i # Oldest => calls'[i].stage = calls[i].stage
  <2>1. calls \in Seq(Call(Sendable)) /\ st \in {"writing", "returned", "failed"}
    BY DEF PipeInv
  <2> QED
    BY <1>1, <2>1, OldestStageChanges
<1>3. PipeInv'
  BY <1>0, <1>2 DEF PipeInv
<1>4. OneFrameEach'
  <2> SUFFICES ASSUME twin # "GM" PROVE OneFrameEach'
    BY DEF OneFrameEach
  <2>1. ASSUME NEW i \in DOMAIN tx, i > Len(tx) - unacked'
        PROVE  calls'[tx[i][1]].stage = "writing"
    <3>1. i > Len(tx) - unacked /\ i # Len(tx) - unacked + 1
      BY <2>1 DEF PipeInv
    <3>2. tx[i][1] # Oldest
      BY <1>1, <3>1 DEF OneFrameEach
    <3> QED
      BY <1>2, <3>1, <3>2 DEF PipeInv, OneFrameEach
  <2> QED
    BY <1>2, <2>1 DEF PipeInv, OneFrameEach
<1> QED
  BY <1>3, <1>4

LEMMA WriteAgainKeeps ==
  ASSUME PipeInv, OneFrameEach, WriteAgain
  PROVE  PipeInv' /\ OneFrameEach' /\ twin = "GM"
<1>0. Sendable' = Sendable
  BY DEF Sendable, WriteAgain
<1>1. unacked > 0 /\ Writes(Oldest) < Len(calls[Oldest].frames)
      /\ tx' = Append(tx, <<Oldest, calls[Oldest].frames[2]>>)
      /\ UNCHANGED <<twin, calls, unacked>>
  BY DEF WriteAgain, SecondJob
<1>2. twin = "GM"
  BY <1>1, WritesOnce
<1>3. Oldest \in DOMAIN calls /\ Writes(Oldest) \in Nat \ {0}
  BY <1>1, OldestIsWritten
<1>4. calls[Oldest].frames \in Seq(Sendable)
  <2>1. calls[Oldest] \in Call(Sendable)
    BY <1>3 DEF PipeInv
  <2> QED
    BY <2>1 DEF Call
<1>5. calls[Oldest].frames[2] \in Sendable
  BY <1>1, <1>3, <1>4
<1>6. Oldest \in Nat
  BY <1>3 DEF PipeInv
<1> DEFINE e == <<Oldest, calls[Oldest].frames[2]>>
<1>7. e \in Nat \X Sendable /\ e[1] = Oldest
  BY <1>5, <1>6
<1> HIDE DEF e
<1>8. /\ tx' \in Seq(Nat \X Sendable) /\ Len(tx) \in Nat /\ Len(tx') = Len(tx) + 1
      /\ DOMAIN tx = 1..Len(tx) /\ DOMAIN tx' = 1..(Len(tx) + 1)
      /\ \A i \in DOMAIN tx : tx'[i] = tx[i]
      /\ tx'[Len(tx) + 1] = e
  BY <1>1, <1>7, AppendHasBoth DEF PipeInv, e
<1>9. \A i \in DOMAIN tx' : tx'[i][1] \in DOMAIN calls'
  BY <1>1, <1>3, <1>7, <1>8 DEF PipeInv
<1>10. PipeInv'
  <2>1. unacked' \in 0..Len(tx')
    BY <1>1, <1>8 DEF PipeInv
  <2> QED
    BY <1>0, <1>1, <1>8, <1>9, <2>1 DEF PipeInv
<1> QED
  BY <1>1, <1>2, <1>10 DEF OneFrameEach

-----------------------------------------------------------------------------
(***************************************************************************)
(* Every call hands frames to the transport and ends in this way.          *)
(***************************************************************************)
Held == routing \in {"RAD", "TEL"} /\ player \in Players

CallsInv == PipeInv /\ OneFrameEach /\ Held

LEMMA AppliedIsPlayer ==
  ASSUME NEW p \in Players, NEW r \in Requests, NEW n \in Nat
  PROVE  Applied(p, r, n) \in Players
<1>0. /\ LastTrack \in Nat \ {0} /\ LastDisc \in Nat \ {0}
      /\ p.track \in Nat /\ p.disc \in 1..LastDisc /\ p.disc \in Nat
      /\ 1 \in 1..LastTrack
  BY TracksAssumption DEF Players
<1>1. CASE r = "CHANGE_TRACK"
  <2>1. Clamp(IF n = 0 THEN p.track - 1 ELSE p.track + 1, LastTrack) \in 1..LastTrack
    BY <1>0 DEF Clamp
  <2> QED
    BY <1>1, <2>1 DEF Applied, Players
<1>2. CASE r = "CD_CHANGE"
  <2>1. Clamp(IF n = 0 THEN p.disc ELSE n, LastDisc) \in 1..LastDisc
    BY <1>0 DEF Clamp
  <2> QED
    BY <1>0, <1>2, <2>1 DEF Applied, Players
<1>3. CASE r \notin {"CHANGE_TRACK", "CD_CHANGE"}
  BY <1>3 DEF Applied, Players, Requests
<1> QED
  BY <1>1, <1>2, <1>3

LEMMA ControlledIsPlayer ==
  ASSUME player \in Players, NEW next \in Controlled
  PROVE  next \in Players
<1>0. /\ LastTrack \in Nat \ {0} /\ player.track \in Nat /\ 1 \in 1..LastTrack
  BY TracksAssumption DEF Players
<1>1. /\ Clamp(player.track + 1, LastTrack) \in 1..LastTrack
      /\ Clamp(player.track - 1, LastTrack) \in 1..LastTrack
  BY <1>0 DEF Clamp
<1> QED
  BY <1>0, <1>1, ZenonT(30) DEF Controlled, Players

LEMMA JobsAreNames ==
  ASSUME NEW op \in GMCommands, NEW v
  PROVE  Jobs(op, v) \in Seq(JobNames)
<1>1. ASSUME NEW a \in JobNames PROVE <<a>> \in Seq(JobNames)
  OBVIOUS
<1>2. ASSUME NEW a \in JobNames, NEW b \in JobNames PROVE <<a, b>> \in Seq(JobNames)
  OBVIOUS
<1>3. CASE op = "requestDoors"
  BY <1>1, <1>3 DEF Jobs, JobNames
<1>4. CASE op = "lockAll"
  <2>1. \E a \in JobNames : Jobs(op, v) = <<a>>
    BY <1>4 DEF Jobs, JobNames
  <2> QED
    BY <1>1, <2>1
<1>5. CASE op = "unlockAll"
  <2>1. \/ \E a \in JobNames : Jobs(op, v) = <<a>>
        \/ \E a, b \in JobNames : Jobs(op, v) = <<a, b>>
    BY <1>5 DEF Jobs, JobNames
  <2> QED
    BY <1>1, <1>2, <2>1
<1>6. CASE op = "unlockTrunk"
  <2>1. Jobs(op, v) = <<>> \/ \E a \in JobNames : Jobs(op, v) = <<a>>
    BY <1>6 DEF Jobs, JobNames
  <2>2. <<>> \in Seq(JobNames)
    OBVIOUS
  <2> QED
    BY <1>1, <2>1, <2>2
<1>7. CASE op = "pressCentralLock"
  <2>1. \E a \in JobNames : Jobs(op, v) = <<a>>
    BY <1>7 DEF Jobs, JobNames
  <2> QED
    BY <1>1, <2>1
<1> QED
  BY <1>3, <1>4, <1>5, <1>6, <1>7 DEF GMCommands

LEMMA CallsInitInv == CommandsInit => CallsInv
<1> SUFFICES ASSUME CommandsInit PROVE CallsInv
  OBVIOUS
<1>1. PipeInv /\ OneFrameEach
  BY DEF CommandsInit, PipeInv, OneFrameEach
<1>2. Held
  BY TracksAssumption DEF CommandsInit, Held, Players, Stopped
<1> QED
  BY <1>1, <1>2 DEF CallsInv

LEMMA CallsStepInv == CallsInv /\ [CommandsNext]_commands => CallsInv'
<1> SUFFICES ASSUME CallsInv, [CommandsNext]_commands PROVE CallsInv'
  OBVIOUS
<1>0. PipeInv /\ OneFrameEach /\ Held
  BY DEF CallsInv
<1>a. ASSUME NEW op \in Ops, op # "toggle", NEW f \in Sendable,
             Begin(op, <<f>>), UNCHANGED twin
      PROVE  PipeInv' /\ OneFrameEach'
  <2>1. <<f>> \in Seq(Sendable) /\ Len(<<f>>) = 1
    OBVIOUS
  <2> QED
    BY <1>0, <1>a, <2>1, BeginKeeps
<1>1. CASE WriteAgain
  <2>1. Held'
    BY <1>0, <1>1 DEF WriteAgain, Held
  <2> QED
    BY <1>0, <1>1, <2>1, WriteAgainKeeps DEF CallsInv
<1>2. CASE Return
  <2>1. PipeInv' /\ OneFrameEach'
    BY <1>0, <1>2, EndKeeps DEF Return
  <2>2. Held'
    BY <1>0, <1>2 DEF Return, Held, Flip
  <2> QED
    BY <2>1, <2>2 DEF CallsInv
<1>3. CASE Reject
  <2>1. PipeInv' /\ OneFrameEach'
    BY <1>0, <1>3, EndKeeps DEF Reject
  <2> QED
    BY <1>0, <1>3, <2>1 DEF Reject, Held, CallsInv
<1>4. ASSUME NEW op \in {"RT press", "press", "volume"}, MFLCall(op) PROVE CallsInv'
  <2>1. routing \in Sendable
    BY <1>0, <1>4 DEF MFLCall, Sendable, Held
  <2>2. PipeInv' /\ OneFrameEach'
    <3>1. op \in Ops /\ op # "toggle"
      BY DEF Ops
    <3> QED
      BY <1>a, <1>4, <2>1, <3>1 DEF MFLCall
  <2> QED
    BY <1>0, <1>4, <2>2 DEF MFLCall, Held, CallsInv
<1>5. CASE Toggle
  <2> DEFINE call == [op |-> "toggle", frames |-> <<>>, stage |-> "returned"]
  <2>1. call \in Call(Sendable) /\ call.frames = <<>>
    BY DEF Call, Ops
  <2>2. calls' = Append(calls, call) /\ calls \in Seq(Call(Sendable))
    BY <1>0, <1>5 DEF Toggle, PipeInv
  <2> HIDE DEF call
  <2>3. /\ calls' \in Seq(Call(Sendable)) /\ Len(calls) \in Nat
        /\ DOMAIN calls = 1..Len(calls) /\ DOMAIN calls' = 1..(Len(calls) + 1)
        /\ \A i \in DOMAIN calls : calls'[i] = calls[i]
        /\ calls'[Len(calls) + 1] = call
    BY <2>1, <2>2, AppendHasBoth
  <2>4. Sendable' = Sendable
    BY <1>5 DEF Toggle, Sendable
  <2>5. \A c \in DOMAIN calls' : calls'[c].op = "toggle" => calls'[c].frames = <<>>
    BY <1>0, <2>1, <2>3 DEF PipeInv
  <2>6. PipeInv'
    BY <1>0, <1>5, <2>3, <2>4, <2>5 DEF Toggle, PipeInv
  <2>7. OneFrameEach'
    <3>1. \A i \in DOMAIN tx : calls'[tx[i][1]] = calls[tx[i][1]]
      BY <1>0, <2>3 DEF PipeInv
    <3> QED
      BY <1>0, <1>5, <3>1 DEF Toggle, OneFrameEach
  <2>8. Held'
    BY <1>0, <1>5 DEF Toggle, Held
  <2> QED
    BY <2>6, <2>7, <2>8 DEF CallsInv
<1>6. ASSUME NEW op \in GMCommands, GMCall(op) PROVE CallsInv'
  <2>1. Jobs(op, variant) \in Seq(Sendable) /\ twin = "GM"
    BY <1>6, JobsAreNames DEF GMCall, Sendable
  <2>2. op \in Ops /\ op # "toggle"
    BY DEF GMCommands, Ops
  <2>3. PipeInv' /\ OneFrameEach'
    BY <1>0, <1>6, <2>1, <2>2, BeginKeeps DEF GMCall
  <2> QED
    BY <1>0, <1>6, <2>3 DEF GMCall, Held, CallsInv
<1>7. ASSUME NEW v \in Variants, Declare(v) PROVE CallsInv'
  BY <1>0, <1>7 DEF Declare, CallsInv, PipeInv, OneFrameEach, Held, Sendable
<1>8. ASSUME NEW r \in Requests, NEW n \in 0..(LastDisc + 1), Request(r, n) PROVE CallsInv'
  <2>1. player' \in Players /\ Begin("request", <<player'>>) /\ twin = "CDC"
        /\ UNCHANGED <<twin, routing>>
    <3>1. n \in Nat
      BY TracksAssumption
    <3> QED
      BY <1>0, <1>8, <3>1, AppliedIsPlayer DEF Request, Status, Held
  <2>2. PipeInv' /\ OneFrameEach'
    <3>1. "request" \in Ops /\ "control" \in Ops /\ player' \in Sendable
      BY <2>1 DEF Ops, Sendable
    <3> QED
      BY <1>a, <2>1, <3>1
  <2> QED
    BY <1>0, <2>1, <2>2 DEF Held, CallsInv
<1>9. ASSUME NEW next \in Controlled, Control(next) PROVE CallsInv'
  <2>1. player' \in Players /\ Begin("control", <<player'>>) /\ twin = "CDC"
        /\ UNCHANGED <<twin, routing>>
    BY <1>0, <1>9, ControlledIsPlayer DEF Control, Held
  <2>2. PipeInv' /\ OneFrameEach'
    <3>1. "request" \in Ops /\ "control" \in Ops /\ player' \in Sendable
      BY <2>1 DEF Ops, Sendable
    <3> QED
      BY <1>a, <2>1, <3>1
  <2> QED
    BY <1>0, <2>1, <2>2 DEF Held, CallsInv
<1>10. CASE UNCHANGED commands
  BY <1>0, <1>10 DEF commands, CallsInv, PipeInv, OneFrameEach, Held, Sendable
<1> QED
  BY <1>1, <1>2, <1>3, <1>4, <1>5, <1>6, <1>7, <1>8, <1>9, <1>10 DEF CommandsNext

LEMMA CallsInvariant == CommandsSpec => []CallsInv
<1> QED
  BY CallsInitInv, CallsStepInv, PTL DEF CommandsSpec

-----------------------------------------------------------------------------
(***************************************************************************)
(* The CD changer.                                                         *)
(***************************************************************************)
\* Only frames that were reported on can be written.
WrittenInv == written \subseteq 1..(Len(tx) - unacked)

\* The frames are those of the calls in their order, the newest carries the
\* state of the changer.
InCallOrder ==
  twin = "CDC" =>
    /\ \A i, j \in DOMAIN tx : i < j => tx[i][1] < tx[j][1]
    /\ player = IF tx = <<>> THEN Stopped ELSE tx[Len(tx)][2]

RadioInv ==
  /\ WrittenInv
  /\ InCallOrder
  /\ twin = "CDC" => events \in Seq(Nat \X Players)
  /\ RadioToldState

LEMMA OneOf ==
  ASSUME NEW S, NEW a \in S
  PROVE  <<a>> \in Seq(S)
OBVIOUS

\* A call that begins, with frames or without, changes no older place of tx.
LEMMA BeginExtends ==
  ASSUME PipeInv, NEW op, NEW frames \in Seq(Sendable), Begin(op, frames)
  PROVE  /\ written' = written /\ Len(tx') - unacked' = Len(tx) - unacked
         /\ \/ tx' = tx
            \/ /\ frames # <<>> /\ tx' \in Seq(Nat \X Sendable)
               /\ Len(tx') = Len(tx) + 1
               /\ \A i \in DOMAIN tx : tx'[i] = tx[i]
               /\ tx'[Len(tx) + 1] = <<Len(calls) + 1, frames[1]>>
<1>1. CASE frames = <<>>
  BY <1>1 DEF Begin
<1>2. CASE frames # <<>>
  <2> DEFINE e == <<Len(calls) + 1, frames[1]>>
  <2>1. e \in Nat \X Sendable
    BY <1>2 DEF PipeInv
  <2>2. tx' = Append(tx, e) /\ unacked' = unacked + 1 /\ written' = written
    BY <1>2 DEF Begin
  <2> HIDE DEF e
  <2>3. /\ tx' \in Seq(Nat \X Sendable) /\ Len(tx') = Len(tx) + 1 /\ Len(tx) \in Nat
        /\ \A i \in DOMAIN tx : tx'[i] = tx[i]
        /\ tx'[Len(tx) + 1] = e
    BY <2>1, <2>2, AppendHasBoth DEF PipeInv
  <2>4. Len(tx') - unacked' = Len(tx) - unacked
    BY <2>2, <2>3 DEF PipeInv
  <2> QED
    BY <1>2, <2>2, <2>3, <2>4 DEF e
<1> QED
  BY <1>1, <1>2

\* Every step of a twin's methods reports on the oldest write or on none.
LEMMA WrittenStep == CallsInv /\ WrittenInv /\ [CommandsNext]_commands => WrittenInv'
<1> SUFFICES ASSUME CallsInv, WrittenInv, [CommandsNext]_commands PROVE WrittenInv'
  OBVIOUS
<1>0. PipeInv /\ Len(tx) \in Nat /\ unacked \in 0..Len(tx)
  BY DEF CallsInv, PipeInv
<1>1. ASSUME NEW op, NEW frames \in Seq(Sendable), Begin(op, frames) PROVE WrittenInv'
  BY <1>0, <1>1, BeginExtends DEF WrittenInv
<1>2. CASE WriteAgain
  <2>1. /\ Len(tx') = Len(tx) + 1 /\ unacked' = unacked /\ unacked > 0
        /\ written' = written \cup {Reported}
    BY <1>0, <1>2 DEF WriteAgain, PipeInv
  <2>2. /\ Reported \in 1..(Len(tx') - unacked')
        /\ 1..(Len(tx) - unacked) \subseteq 1..(Len(tx') - unacked')
    BY <1>0, <2>1 DEF Reported
  <2> QED
    BY <2>1, <2>2, Zenon DEF WrittenInv
<1>3. CASE Return \/ Reject
  <2>1. /\ unacked > 0 /\ unacked' = unacked - 1 /\ tx' = tx
        /\ written' \subseteq written \cup {Reported}
    BY <1>3 DEF Return, Reject
  <2>2. /\ Reported \in 1..(Len(tx') - unacked')
        /\ 1..(Len(tx) - unacked) \subseteq 1..(Len(tx') - unacked')
    BY <1>0, <2>1 DEF Reported
  <2> QED
    BY <2>1, <2>2, Zenon DEF WrittenInv
<1>4. ASSUME NEW op \in {"RT press", "press", "volume"}, MFLCall(op) PROVE WrittenInv'
  <2>1. routing \in Sendable
    BY <1>4 DEF MFLCall, CallsInv, Held, Sendable
  <2>2. <<routing>> \in Seq(Sendable)
    BY <2>1, OneOf
  <2> QED
    BY <1>1, <1>4, <2>2 DEF MFLCall
<1>5. ASSUME NEW op \in GMCommands, GMCall(op) PROVE WrittenInv'
  <2>1. Jobs(op, variant) \in Seq(Sendable)
    BY <1>5, JobsAreNames DEF GMCall, Sendable
  <2> QED
    BY <1>1, <1>5, <2>1 DEF GMCall
<1>6. ASSUME NEW r \in Requests, NEW n \in 0..(LastDisc + 1), Request(r, n) PROVE WrittenInv'
  <2>1. Applied(player, r, n) \in Players
    <3>1. n \in Nat
      BY TracksAssumption
    <3> QED
      BY <3>1, AppliedIsPlayer DEF CallsInv, Held
  <2>2. <<Applied(player, r, n)>> \in Seq(Sendable)
    BY <1>6, <2>1 DEF Request, Sendable
  <2> QED
    BY <1>1, <1>6, <2>2 DEF Request, Status
<1>7. ASSUME NEW next \in Controlled, Control(next) PROVE WrittenInv'
  <2>1. next \in Players /\ <<next>> \in Seq(Sendable)
    BY <1>7, ControlledIsPlayer DEF Control, CallsInv, Held, Sendable
  <2> QED
    BY <1>1, <1>7, <2>1 DEF Control
<1>8. UNCHANGED <<tx, unacked, written>> => WrittenInv'
  BY DEF WrittenInv
<1>9. /\ Toggle => UNCHANGED <<tx, unacked, written>>
      /\ \A v : Declare(v) => UNCHANGED <<tx, unacked, written>>
      /\ UNCHANGED commands => UNCHANGED <<tx, unacked, written>>
  BY DEF Toggle, Declare, commands
<1> QED
  BY <1>2, <1>3, <1>4, <1>5, <1>6, <1>7, <1>8, <1>9 DEF CommandsNext

\* A new request or control adds the frame of the new state; no event is told
\* and no frame reported on.
LEMMA AnswerIsTold ==
  ASSUME CallsInv, RadioInv, WrittenInv', twin = "CDC", UNCHANGED <<twin, events>>,
         NEW op, Begin(op, <<player'>>), player' \in Players
  PROVE  RadioInv'
<1>1. <<player'>> \in Seq(Sendable)
  BY DEF Sendable
<1>2. /\ Len(tx) \in Nat /\ unacked \in 0..Len(tx) /\ DOMAIN tx = 1..Len(tx)
      /\ Len(calls) \in Nat /\ \A i \in DOMAIN tx : tx[i][1] \in 1..Len(calls)
  BY DEF CallsInv, PipeInv
<1>a. Len(tx') = Len(tx) + 1
  <2> DEFINE e == <<Len(calls) + 1, player'>>
  <2>1. tx' = Append(tx, e) /\ e \in Nat \X Players /\ Sendable = Players
    BY <1>2 DEF Begin, Sendable
  <2> HIDE DEF e
  <2> QED
    BY <2>1, AppendHasBoth DEF CallsInv, PipeInv
<1>3. /\ written' = written /\ Len(tx') - unacked' = Len(tx) - unacked
      /\ Len(tx') = Len(tx) + 1 /\ DOMAIN tx' = 1..(Len(tx) + 1)
      /\ \A i \in DOMAIN tx : tx'[i] = tx[i]
      /\ tx'[Len(tx) + 1] = <<Len(calls) + 1, player'>> /\ tx' # <<>>
  <2> DEFINE frames == <<player'>>
  <2>1. frames \in Seq(Sendable) /\ Begin(op, frames) /\ frames[1] = player'
    BY <1>1
  <2> HIDE DEF frames
  <2>2. /\ written' = written /\ Len(tx') - unacked' = Len(tx) - unacked
        /\ \/ tx' = tx
           \/ /\ frames # <<>> /\ tx' \in Seq(Nat \X Sendable)
              /\ Len(tx') = Len(tx) + 1
              /\ \A i \in DOMAIN tx : tx'[i] = tx[i]
              /\ tx'[Len(tx) + 1] = <<Len(calls) + 1, frames[1]>>
    BY <2>1, BeginExtends DEF CallsInv
  <2> QED
    BY <1>2, <1>a, <2>1, <2>2
<1>4. InCallOrder'
  <2>1. player' = tx'[Len(tx')][2] /\ tx'[Len(tx) + 1][1] = Len(calls) + 1
    BY <1>3
  <2>2. ASSUME NEW i \in DOMAIN tx', NEW j \in DOMAIN tx', i < j
        PROVE  tx'[i][1] < tx'[j][1]
    <3>1. i \in DOMAIN tx /\ tx'[i] = tx[i]
      BY <1>2, <1>3, <2>2
    <3>2. CASE j \in DOMAIN tx
      <4>1. tx[i][1] < tx[j][1]
        BY <2>2, <3>1, <3>2 DEF RadioInv, InCallOrder
      <4> QED
        BY <1>3, <3>1, <3>2, <4>1
    <3>3. CASE j = Len(tx) + 1
      <4>1. tx[i][1] < Len(calls) + 1
        BY <1>2, <3>1
      <4> QED
        BY <2>1, <3>1, <3>3, <4>1
    <3> QED
      BY <1>2, <1>3, <3>2, <3>3
  <2> QED
    BY <1>3, <2>1, <2>2 DEF InCallOrder
<1>5. \A c \in DOMAIN calls : calls'[c] = calls[c]
  BY DEF Begin, CallsInv, PipeInv
<1>6. TellsNoOlderState'
  <2> SUFFICES ASSUME NEW i \in DOMAIN events
               PROVE  \E j \in DOMAIN tx' :
                        /\ tx'[j][2] = events[i][2]
                        /\ \/ j \in written' /\ tx'[j][1] >= events[i][1]
                           \/ (InFlight(j)' \/ Lost(j)') /\ tx'[j][1] > events[i][1]
    BY DEF TellsNoOlderState
  <2>1. PICK j \in DOMAIN tx :
               /\ tx[j][2] = events[i][2]
               /\ \/ j \in written /\ tx[j][1] >= events[i][1]
                  \/ (InFlight(j) \/ Lost(j)) /\ tx[j][1] > events[i][1]
    BY DEF RadioInv, RadioToldState, TellsNoOlderState
  <2>2. j \in DOMAIN tx' /\ tx'[j] = tx[j]
    BY <1>2, <1>3
  <2>3. InFlight(j) => InFlight(j)'
    BY <1>3 DEF InFlight, Reported
  <2>4. Lost(j) => Lost(j)'
    BY <1>2, <1>5, <2>2 DEF Lost, CallsInv, PipeInv
  <2> QED
    BY <1>3, <2>1, <2>2, <2>3, <2>4
<1>7. AgreesOnceWritten'
  BY <1>2, <1>3 DEF RadioInv, WrittenInv, AgreesOnceWritten
<1> QED
  BY <1>4, <1>6, <1>7 DEF RadioInv, RadioToldState

\* What becomes of a write: the oldest one leaves the frames in flight for the
\* written or the lost ones, the others stay where they are.
LEMMA ReportMovesOne ==
  ASSUME CallsInv, WrittenInv, twin = "CDC", Return \/ Reject, NEW j \in DOMAIN tx
  PROVE  /\ j \in written => j \in written'
         /\ InFlight(j) => InFlight(j)' \/ j \in written' \/ Lost(j)'
         /\ Lost(j) => Lost(j)'
<1>1. /\ Reported \in DOMAIN tx /\ Oldest = tx[Reported][1]
      /\ calls[Oldest].stage = "writing" /\ Oldest \in DOMAIN calls
  BY OldestIsWritten, WritesOnce DEF CallsInv, Return, Reject, Reported
<1>2. PICK st \in {"returned", "failed"} :
        /\ calls' = [calls EXCEPT ![Oldest].stage = st] /\ tx' = tx
        /\ unacked' = unacked - 1 /\ unacked > 0
        /\ written \subseteq written'
        /\ st = "returned" => Reported \in written'
  BY DEF Return, Reject
<1>3. /\ calls'[Oldest].stage = st
      /\ \A c \in DOMAIN calls : c # Oldest => calls'[c].stage = calls[c].stage
  BY <1>1, <1>2, OldestStageChanges DEF CallsInv, PipeInv
<1>4. Lost(j) => Lost(j)'
  BY <1>1, <1>2, <1>3 DEF Lost, CallsInv, PipeInv
<1>5. InFlight(j) /\ j # Reported => InFlight(j)'
  BY <1>1, <1>2 DEF InFlight, Reported, CallsInv, PipeInv
<1>6. j = Reported => j \in written' \/ Lost(j)'
  BY <1>1, <1>2, <1>3 DEF Lost
<1> QED
  BY <1>2, <1>4, <1>5, <1>6

\* The events told so far stay as true as they were when a write is reported.
LEMMA ToldStaysTold ==
  ASSUME CallsInv, RadioInv, twin = "CDC", Return \/ Reject, NEW i \in DOMAIN events
  PROVE  \E j \in DOMAIN tx' :
           /\ tx'[j][2] = events[i][2]
           /\ \/ j \in written' /\ tx'[j][1] >= events[i][1]
              \/ (InFlight(j)' \/ Lost(j)') /\ tx'[j][1] > events[i][1]
<1>1. tx' = tx
  BY DEF Return, Reject
<1>2. PICK j \in DOMAIN tx :
             /\ tx[j][2] = events[i][2]
             /\ \/ j \in written /\ tx[j][1] >= events[i][1]
                \/ (InFlight(j) \/ Lost(j)) /\ tx[j][1] > events[i][1]
  BY DEF RadioInv, RadioToldState, TellsNoOlderState
<1>3. /\ j \in written => j \in written'
      /\ InFlight(j) => InFlight(j)' \/ j \in written' \/ Lost(j)'
      /\ Lost(j) => Lost(j)'
  BY <1>2, ReportMovesOne DEF RadioInv
<1>4. tx[j][1] \in Nat /\ events[i][1] \in Nat
  BY <1>2 DEF CallsInv, PipeInv, RadioInv
<1> QED
  BY <1>1, <1>2, <1>3, <1>4

\* A call that returns tells the state of the newest frame: its own, which was
\* just written, or one in flight.
LEMMA BroadcastIsTold ==
  ASSUME CallsInv, RadioInv, WrittenInv', twin = "CDC", Return
  PROVE  RadioInv'
<1> DEFINE e == <<Oldest, player>>
<1>1. /\ events' = Append(events, e) /\ unacked > 0 /\ unacked' = unacked - 1
      /\ UNCHANGED <<twin, tx, player>> /\ written' = written \cup {Reported}
  BY DEF Return
<1>2. /\ Reported \in DOMAIN tx /\ Oldest = tx[Reported][1] /\ Oldest \in DOMAIN calls
      /\ Len(tx) \in DOMAIN tx /\ Len(tx) \in Nat /\ tx # <<>> /\ DOMAIN tx = 1..Len(tx)
      /\ unacked \in 0..Len(tx)
  BY <1>1, OldestIsWritten DEF CallsInv, PipeInv, Reported
<1>3. e \in Nat \X Players /\ e[1] = Oldest /\ e[2] = player
  BY <1>2 DEF CallsInv, PipeInv, Held
<1>4. player = tx[Len(tx)][2]
  BY <1>2 DEF RadioInv, InCallOrder
<1> HIDE DEF e
<1>5. /\ events' \in Seq(Nat \X Players) /\ events' # <<>>
      /\ Len(events') = Len(events) + 1 /\ Len(events) \in Nat
      /\ DOMAIN events = 1..Len(events) /\ DOMAIN events' = 1..(Len(events) + 1)
      /\ \A i \in DOMAIN events : events'[i] = events[i]
      /\ events'[Len(events) + 1] = e
  BY <1>1, <1>3, AppendHasBoth DEF RadioInv
<1>6. TellsNoOlderState'
  <2> SUFFICES ASSUME NEW i \in DOMAIN events'
               PROVE  \E j \in DOMAIN tx' :
                        /\ tx'[j][2] = events'[i][2]
                        /\ \/ j \in written' /\ tx'[j][1] >= events'[i][1]
                           \/ (InFlight(j)' \/ Lost(j)') /\ tx'[j][1] > events'[i][1]
    BY DEF TellsNoOlderState
  <2>1. CASE i \in DOMAIN events
    BY <1>5, <2>1, ToldStaysTold
  <2>2. CASE i = Len(events) + 1 /\ Reported = Len(tx)
    <3>1. Len(tx) \in written' /\ tx'[Len(tx)] = tx[Len(tx)] /\ Oldest \in Nat
      BY <1>1, <1>2, <2>2 DEF CallsInv, PipeInv
    <3> QED
      BY <1>1, <1>2, <1>3, <1>4, <1>5, <2>2, <3>1
  <2>3. CASE i = Len(events) + 1 /\ Reported # Len(tx)
    <3>1. InFlight(Len(tx))' /\ Reported < Len(tx)
      BY <1>1, <1>2, <2>3 DEF InFlight, Reported
    <3>2. tx[Len(tx)][1] > Oldest
      <4>1. tx[Reported][1] < tx[Len(tx)][1]
        BY <1>2, <3>1 DEF RadioInv, InCallOrder
      <4> QED
        BY <1>2, <4>1
    <3> QED
      BY <1>1, <1>2, <1>3, <1>4, <1>5, <2>3, <3>1, <3>2
  <2> QED
    BY <1>5, <2>1, <2>2, <2>3
<1>7. AgreesOnceWritten'
  <2>1. events'[Len(events')][2] = player'
    BY <1>1, <1>3, <1>5
  <2> QED
    BY <1>1, <1>4, <1>5, <2>1 DEF AgreesOnceWritten
<1>8. InCallOrder'
  BY <1>1 DEF RadioInv, InCallOrder
<1> QED
  BY <1>5, <1>6, <1>7, <1>8 DEF RadioInv, RadioToldState

\* A write that fails tells nobody.
LEMMA FailureTellsNobody ==
  ASSUME CallsInv, RadioInv, WrittenInv', twin = "CDC", Reject
  PROVE  RadioInv'
<1>1. UNCHANGED <<twin, tx, written, events, player>>
  BY DEF Reject
<1>2. TellsNoOlderState'
  BY <1>1, ToldStaysTold DEF TellsNoOlderState
<1>3. AgreesOnceWritten' /\ InCallOrder'
  BY <1>1 DEF RadioInv, RadioToldState, AgreesOnceWritten, InCallOrder
<1> QED
  BY <1>1, <1>2, <1>3 DEF RadioInv, RadioToldState

LEMMA RadioStepInv == CallsInv /\ RadioInv /\ [CommandsNext]_commands => RadioInv'
<1> SUFFICES ASSUME CallsInv, RadioInv, [CommandsNext]_commands PROVE RadioInv'
  OBVIOUS
<1>0. WrittenInv'
  BY WrittenStep DEF RadioInv
<1>1. CASE twin' # "CDC"
  BY <1>0, <1>1 DEF RadioInv, RadioToldState, InCallOrder
<1>2. CASE twin = "CDC" /\ (Return \/ Reject)
  BY <1>0, <1>2, BroadcastIsTold, FailureTellsNobody
<1>3. ASSUME twin = "CDC", NEW r \in Requests, NEW n \in 0..(LastDisc + 1), Request(r, n)
      PROVE  RadioInv'
  <2>1. player' \in Players
    <3>1. n \in Nat
      BY TracksAssumption
    <3> QED
      BY <1>3, <3>1, AppliedIsPlayer DEF Request, CallsInv, Held
  <2> QED
    BY <1>0, <1>3, <2>1, AnswerIsTold DEF Request, Status
<1>4. ASSUME twin = "CDC", NEW next \in Controlled, Control(next) PROVE RadioInv'
  <2>1. player' \in Players
    BY <1>4, ControlledIsPlayer DEF Control, CallsInv, Held
  <2> QED
    BY <1>0, <1>4, <2>1, AnswerIsTold DEF Control
<1>5. twin = "CDC" => ~WriteAgain
  BY WriteAgainKeeps DEF CallsInv
<1>6. UNCHANGED commands => RadioInv'
  BY <1>0 DEF commands, RadioInv, RadioToldState, InCallOrder, TellsNoOlderState,
              AgreesOnceWritten, InFlight, Lost, Reported
<1>7. /\ CommandsNext => twin' = twin
      /\ \A op : MFLCall(op) => twin = "MFL"
      /\ \A op : GMCall(op) => twin = "GM"
      /\ \A v : Declare(v) => twin = "GM"
      /\ Toggle => twin = "MFL"
  BY DEF Reject, CommandsNext, WriteAgain, Return, MFLCall, GMCall, Declare, Toggle,
         Request, Control
<1> QED
  BY <1>1, <1>2, <1>3, <1>4, <1>5, <1>6, <1>7 DEF CommandsNext

LEMMA RadioInitInv == CommandsInit => RadioInv
BY DEF CommandsInit, RadioInv, WrittenInv, InCallOrder, RadioToldState,
       TellsNoOlderState, AgreesOnceWritten

\* For any number of overlapping requests and controls and any writes that fail
\* (cdc.ts:74-138): a statusBroadcast never tells an older state than its call
\* wrote, nor one that was not written, unless a later call's write failed; and
\* once the newest frame is written, radio, listeners and changer agree.
THEOREM RadioKnowsTheState == CommandsSpec => []RadioToldState
<1>1. RadioInv => RadioToldState
  BY DEF RadioInv
<1> QED
  BY <1>1, RadioInitInv, RadioStepInv, CallsInvariant, PTL DEF CommandsSpec

-----------------------------------------------------------------------------
(***************************************************************************)
(* The steering wheel: a press or a toggle that has returned flips the     *)
(* routing once, and the presses of other twins do not exist.              *)
(***************************************************************************)
Flipping == {"RT press", "toggle"}

Flips(cs) == {i \in DOMAIN cs : cs[i].stage = "returned" /\ cs[i].op \in Flipping}

OnlyMFLFlips ==
  twin # "MFL" => routing = "RAD" /\ \A c \in DOMAIN calls : calls[c].op \notin Flipping

RoutingInv == OnlyMFLFlips /\ RoutingCountsPresses

LEMMA Parity ==
  ASSUME NEW n \in Nat
  PROVE  (n + 1) % 2 = 1 <=> ~(n % 2 = 1)
OBVIOUS

LEMMA CountIsFlips ==
  RoutingCountsPresses <=> (routing = "TEL" <=> Cardinality(Flips(calls)) % 2 = 1)
BY DEF RoutingCountsPresses, Flips, Flipping

LEMMA FlipsAreFinite == CallsInv => IsFiniteSet(Flips(calls))
<1> SUFFICES ASSUME CallsInv PROVE IsFiniteSet(Flips(calls))
  OBVIOUS
<1>1. DOMAIN calls = 1..Len(calls) /\ Len(calls) \in Nat
  BY DEF CallsInv, PipeInv
<1>2. IsFiniteSet(DOMAIN calls)
  BY <1>1, FS_Interval
<1> QED
  BY <1>2, FS_Subset DEF Flips

\* Nothing flips, or one more call has.
LEMMA NothingFlips ==
  ASSUME RoutingCountsPresses, Flips(calls') = Flips(calls), routing' = routing
  PROVE  RoutingCountsPresses'
<1>1. routing' = "TEL" <=> Cardinality(Flips(calls')) % 2 = 1
  BY CountIsFlips
<1> QED
  BY <1>1 DEF RoutingCountsPresses, Flips, Flipping

LEMMA OneFlips ==
  ASSUME CallsInv, RoutingCountsPresses,
         NEW c, c \notin Flips(calls), Flips(calls') = Flips(calls) \cup {c},
         routing' = IF routing = "RAD" THEN "TEL" ELSE "RAD"
  PROVE  RoutingCountsPresses'
<1>1. IsFiniteSet(Flips(calls))
  BY FlipsAreFinite
<1>2. /\ Cardinality(Flips(calls)) \in Nat
      /\ Cardinality(Flips(calls')) = Cardinality(Flips(calls)) + 1
  BY <1>1, FS_AddElement, FS_CardinalityType
<1>3. Cardinality(Flips(calls')) % 2 = 1 <=> ~(Cardinality(Flips(calls)) % 2 = 1)
  BY <1>2, Parity
<1>4. routing' = "TEL" <=> ~(routing = "TEL")
  BY DEF CallsInv, Held
<1>5. routing' = "TEL" <=> Cardinality(Flips(calls')) % 2 = 1
  BY <1>3, <1>4, CountIsFlips
<1> QED
  BY <1>5 DEF RoutingCountsPresses, Flips, Flipping

\* A call that begins has not flipped anything yet.
LEMMA BeginFlipsNothing ==
  ASSUME CallsInv, RoutingInv, NEW op \in Ops,
         NEW frames, Begin(op, frames), UNCHANGED <<twin, routing>>,
         op \in Flipping => twin = "MFL" /\ frames # <<>>
  PROVE  RoutingInv'
<1> DEFINE call == [op |-> op, frames |-> frames,
                    stage |-> IF frames = <<>> THEN "returned" ELSE "writing"]
<1>1. calls' = Append(calls, call)
  BY DEF Begin
<1>2. call.op = op /\ (op \in Flipping => call.stage = "writing")
  OBVIOUS
<1> HIDE DEF call
<1>3. /\ Len(calls) \in Nat
      /\ DOMAIN calls = 1..Len(calls) /\ DOMAIN calls' = 1..(Len(calls) + 1)
      /\ \A i \in DOMAIN calls : calls'[i] = calls[i]
      /\ calls'[Len(calls) + 1] = call
  BY <1>1 DEF CallsInv, PipeInv
<1>4. \A i \in DOMAIN calls' :
        \/ i \in DOMAIN calls /\ calls'[i] = calls[i]
        \/ i = Len(calls) + 1 /\ calls'[i] = call
  <2>1. \A i \in DOMAIN calls' : i \in DOMAIN calls \/ i = Len(calls) + 1
    BY <1>3
  <2> QED
    BY <1>3, <2>1
<1>5. Flips(calls') = Flips(calls)
  BY <1>2, <1>3, <1>4 DEF Flips
<1>6. OnlyMFLFlips'
  BY <1>2, <1>4 DEF RoutingInv, OnlyMFLFlips
<1> QED
  BY <1>5, <1>6, NothingFlips DEF RoutingInv

\* The call of the oldest write has not flipped anything, and is no toggle.
LEMMA AwaitedHasNotFlipped ==
  ASSUME CallsInv, RoutingInv, unacked > 0
  PROVE  /\ Oldest \in DOMAIN calls
         /\ Oldest \notin Flips(calls)
         /\ calls[Oldest].op # "toggle"
         /\ calls[Oldest].op = "RT press" => twin = "MFL"
<1>1. Oldest \in DOMAIN calls
  BY OldestIsWritten DEF CallsInv
<1>2. CASE twin # "MFL"
  <2>1. calls[Oldest].op \notin Flipping
    BY <1>1, <1>2 DEF RoutingInv, OnlyMFLFlips
  <2> QED
    BY <1>1, <1>2, <2>1 DEF Flips, Flipping
<1>3. CASE twin = "MFL"
  <2>1. calls[Oldest].stage = "writing" /\ Len(calls[Oldest].frames) = 1
    BY <1>3, WritesOnce DEF CallsInv
  <2>2. calls[Oldest].frames # <<>>
    BY <2>1
  <2>3. calls[Oldest].op # "toggle"
    BY <1>1, <2>2 DEF CallsInv, PipeInv
  <2> QED
    BY <1>1, <1>3, <2>1, <2>3 DEF Flips
<1> QED
  BY <1>2, <1>3

LEMMA EndFlips ==
  ASSUME CallsInv, RoutingInv, unacked > 0, UNCHANGED twin,
         NEW st \in {"returned", "failed"}, calls' = [calls EXCEPT ![Oldest].stage = st],
         routing' = IF st = "returned" /\ calls[Oldest].op = "RT press"
                    THEN Flip(Oldest) ELSE routing
  PROVE  RoutingInv'
<1>0. /\ Oldest \in DOMAIN calls
      /\ Oldest \notin Flips(calls)
      /\ calls[Oldest].op # "toggle"
      /\ calls[Oldest].op = "RT press" => twin = "MFL"
  BY AwaitedHasNotFlipped
<1>1. /\ DOMAIN calls' = DOMAIN calls
      /\ calls'[Oldest].stage = st
      /\ \A i \in DOMAIN calls :
           calls'[i].op = calls[i].op /\ (i # Oldest => calls'[i].stage = calls[i].stage)
  <2>1. calls \in Seq(Call(Sendable)) /\ st \in {"writing", "returned", "failed"}
    BY DEF CallsInv, PipeInv
  <2> QED
    BY <1>0, <2>1, OldestStageChanges
<1>2. OnlyMFLFlips'
  BY <1>0, <1>1 DEF RoutingInv, OnlyMFLFlips
<1>3. CASE st = "returned" /\ calls[Oldest].op = "RT press"
  <2>1. Flips(calls') = Flips(calls) \cup {Oldest}
    BY <1>0, <1>1, <1>3 DEF Flips, Flipping
  <2>2. routing' = IF routing = "RAD" THEN "TEL" ELSE "RAD"
    BY <1>3 DEF Flip
  <2>3. RoutingCountsPresses'
    BY <1>0, <2>1, <2>2, OneFlips DEF RoutingInv
  <2> QED
    BY <1>2, <2>3 DEF RoutingInv
<1>4. CASE ~(st = "returned" /\ calls[Oldest].op = "RT press")
  <2>1. Flips(calls') = Flips(calls)
    BY <1>0, <1>1, <1>4 DEF Flips, Flipping
  <2>2. RoutingCountsPresses'
    BY <1>4, <2>1, NothingFlips DEF RoutingInv
  <2> QED
    BY <1>2, <2>2 DEF RoutingInv
<1> QED
  BY <1>3, <1>4

LEMMA RoutingStepInv == CallsInv /\ RoutingInv /\ [CommandsNext]_commands => RoutingInv'
<1> SUFFICES ASSUME CallsInv, RoutingInv, [CommandsNext]_commands PROVE RoutingInv'
  OBVIOUS
<1>1. CASE UNCHANGED <<twin, calls, routing>>
  BY <1>1 DEF RoutingInv, OnlyMFLFlips, RoutingCountsPresses
<1>2. CASE Return
  BY <1>2, EndFlips DEF Return
<1>3. CASE Reject
  BY <1>3, EndFlips DEF Reject
<1>4. ASSUME NEW op \in {"RT press", "press", "volume"}, MFLCall(op) PROVE RoutingInv'
  <2>1. op \in Ops /\ <<routing>> # <<>>
    BY DEF Ops
  <2> QED
    BY <1>4, <2>1, BeginFlipsNothing DEF MFLCall
<1>5. ASSUME NEW op \in GMCommands, GMCall(op) PROVE RoutingInv'
  <2>1. op \in Ops /\ op \notin Flipping
    BY DEF Ops, GMCommands, Flipping
  <2> QED
    BY <1>5, <2>1, BeginFlipsNothing DEF GMCall
<1>6. ASSUME NEW r, NEW n, Request(r, n) PROVE RoutingInv'
  <2>1. "request" \in Ops /\ "request" \notin Flipping
    BY DEF Ops, Flipping
  <2> QED
    BY <1>6, <2>1, BeginFlipsNothing DEF Request
<1>7. ASSUME NEW next, Control(next) PROVE RoutingInv'
  <2>1. "control" \in Ops /\ "control" \notin Flipping
    BY DEF Ops, Flipping
  <2> QED
    BY <1>7, <2>1, BeginFlipsNothing DEF Control
<1>8. CASE Toggle
  <2> DEFINE call == [op |-> "toggle", frames |-> <<>>, stage |-> "returned"]
  <2>1. calls' = Append(calls, call) /\ call.op = "toggle" /\ call.stage = "returned"
    BY <1>8 DEF Toggle
  <2> HIDE DEF call
  <2>2. /\ Len(calls) \in Nat
        /\ DOMAIN calls = 1..Len(calls) /\ DOMAIN calls' = 1..(Len(calls) + 1)
        /\ \A i \in DOMAIN calls : calls'[i] = calls[i]
        /\ calls'[Len(calls) + 1] = call
    BY <2>1 DEF CallsInv, PipeInv
  <2>3. \A i \in DOMAIN calls' :
          \/ i \in DOMAIN calls /\ calls'[i] = calls[i]
          \/ i = Len(calls) + 1 /\ calls'[i] = call
    <3>1. \A i \in DOMAIN calls' : i \in DOMAIN calls \/ i = Len(calls) + 1
      BY <2>2
    <3> QED
      BY <2>2, <3>1
  <2>4. Len(calls) + 1 \notin DOMAIN calls /\ Len(calls) + 1 \in DOMAIN calls'
    BY <2>2
  <2>5. /\ Len(calls) + 1 \notin Flips(calls)
        /\ Flips(calls') = Flips(calls) \cup {Len(calls) + 1}
    <3>1. Len(calls) + 1 \in Flips(calls')
      BY <2>1, <2>2, <2>4 DEF Flips, Flipping
    <3>2. \A i \in DOMAIN calls : i \in DOMAIN calls' /\ calls'[i] = calls[i]
      BY <2>2
    <3> QED
      BY <2>3, <2>4, <3>1, <3>2 DEF Flips
  <2>6. RoutingCountsPresses'
    BY <1>8, <2>5, OneFlips DEF Toggle, RoutingInv
  <2>7. OnlyMFLFlips'
    BY <1>8 DEF Toggle, OnlyMFLFlips
  <2> QED
    BY <2>6, <2>7 DEF RoutingInv
<1>9. /\ WriteAgain => UNCHANGED <<twin, calls, routing>>
      /\ \A v : Declare(v) => UNCHANGED <<twin, calls, routing>>
      /\ UNCHANGED commands => UNCHANGED <<twin, calls, routing>>
  BY DEF WriteAgain, Declare, commands
<1> QED
  BY <1>1, <1>2, <1>3, <1>4, <1>5, <1>6, <1>7, <1>8, <1>9 DEF CommandsNext

\* The routing is the parity of the RT presses that have returned and of the
\* toggles, however many presses overlap and however many fail (mfl.ts:54-73).
THEOREM RoutingIsParity == CommandsSpec => []RoutingCountsPresses
<1>1. CommandsInit => RoutingInv
  <2> SUFFICES ASSUME CommandsInit PROVE RoutingInv
    OBVIOUS
  <2>1. calls = <<>> /\ routing = "RAD"
    BY DEF CommandsInit
  <2>2. Flips(calls) = {}
    BY <2>1 DEF Flips
  <2>3. Cardinality(Flips(calls)) = 0
    BY <2>2, FS_EmptySet
  <2> QED
    BY <2>1, <2>3, CountIsFlips DEF RoutingInv, OnlyMFLFlips
<1>2. RoutingInv => RoutingCountsPresses
  BY DEF RoutingInv
<1> QED
  BY <1>1, <1>2, RoutingStepInv, CallsInvariant, PTL DEF CommandsSpec

-----------------------------------------------------------------------------
(***************************************************************************)
(* The general module.  A command has handed one frame to the transport    *)
(* and, if it has two, may have handed over the second; the writes not yet *)
(* reported are those of different commands, all of which still run; and a *)
(* command that has returned has handed over every frame.                  *)
(***************************************************************************)
At(t, c) == {i \in DOMAIN t : t[i][1] = c}

SentOne(t, c, jobs) == \E i \in DOMAIN t : At(t, c) = {i} /\ t[i][2] = jobs[1]

SentTwo(t, c, jobs) ==
  \E i, j \in DOMAIN t :
    i < j /\ At(t, c) = {i, j} /\ t[i][2] = jobs[1] /\ t[j][2] = jobs[2]

SentSome(t, c, jobs) ==
  \/ jobs = <<>> /\ At(t, c) = {}
  \/ jobs # <<>> /\ SentOne(t, c, jobs)
  \/ Len(jobs) = 2 /\ SentTwo(t, c, jobs)

SentAll(t, c, jobs) ==
  \/ jobs = <<>> /\ At(t, c) = {}
  \/ Len(jobs) = 1 /\ SentOne(t, c, jobs)
  \/ Len(jobs) = 2 /\ SentTwo(t, c, jobs)

Pending == {i \in DOMAIN tx : i > Len(tx) - unacked}

CommandsOfGM ==
  \A c \in DOMAIN calls :
    /\ calls[c].op \in GMCommands
    /\ \E v \in Variants : calls[c].frames = Jobs(calls[c].op, v)

FramesInOrder ==
  \A c \in DOMAIN calls :
    /\ SentSome(tx, c, calls[c].frames)
    /\ calls[c].stage = "returned" => SentAll(tx, c, calls[c].frames)

PendingRun ==
  /\ \A i \in Pending : calls[tx[i][1]].stage = "writing"
  /\ \A i, j \in Pending : tx[i][1] = tx[j][1] => i = j

GMInv ==
  variant \in Variants /\ (twin = "GM" => CommandsOfGM /\ FramesInOrder /\ PendingRun)

LEMMA JobsShape ==
  ASSUME NEW op \in GMCommands, NEW v
  PROVE  \/ Jobs(op, v) = <<>>
         \/ \E job \in JobNames \ {"UNLOCK_HIGH_GM5", "UNLOCK_LOW_GM5"} : Jobs(op, v) = <<job>>
         \/ Jobs(op, v) = <<"UNLOCK_HIGH_GM5", "UNLOCK_LOW_GM5">>
<1> DEFINE Single == JobNames \ {"UNLOCK_HIGH_GM5", "UNLOCK_LOW_GM5"}
<1>1. CASE op = "requestDoors"
  BY <1>1 DEF Jobs, JobNames
<1>2. CASE op = "lockAll"
  BY <1>2 DEF Jobs, JobNames
<1>3. CASE op = "unlockAll"
  BY <1>3 DEF Jobs, JobNames
<1>4. CASE op = "unlockTrunk"
  BY <1>4 DEF Jobs, JobNames
<1>5. CASE op = "pressCentralLock"
  BY <1>5 DEF Jobs, JobNames
<1> QED
  BY <1>1, <1>2, <1>3, <1>4, <1>5 DEF GMCommands

\* The frames of a command of the general module: none, one that unlocks no
\* door of a GM5, or the pair that unlocks all of them.
LEMMA FramesShape ==
  ASSUME CommandsOfGM, NEW c \in DOMAIN calls
  PROVE  \/ calls[c].frames = <<>>
         \/ /\ Len(calls[c].frames) = 1
            /\ calls[c].frames # <<>>
            /\ calls[c].frames[1] \notin {"UNLOCK_HIGH_GM5", "UNLOCK_LOW_GM5"}
         \/ /\ Len(calls[c].frames) = 2
            /\ calls[c].frames # <<>>
            /\ calls[c].frames[1] = "UNLOCK_HIGH_GM5"
            /\ calls[c].frames[2] = "UNLOCK_LOW_GM5"
<1>1. PICK v \in Variants : calls[c].frames = Jobs(calls[c].op, v)
  BY DEF CommandsOfGM
<1>2. calls[c].op \in GMCommands
  BY DEF CommandsOfGM
<1> DEFINE fs == calls[c].frames
<1>3. \/ fs = <<>>
      \/ \E job \in JobNames \ {"UNLOCK_HIGH_GM5", "UNLOCK_LOW_GM5"} : fs = <<job>>
      \/ fs = <<"UNLOCK_HIGH_GM5", "UNLOCK_LOW_GM5">>
  BY <1>1, <1>2, JobsShape
<1> HIDE DEF fs
<1>4. \/ fs = <<>>
      \/ Len(fs) = 1 /\ fs # <<>> /\ fs[1] \notin {"UNLOCK_HIGH_GM5", "UNLOCK_LOW_GM5"}
      \/ Len(fs) = 2 /\ fs # <<>> /\ fs[1] = "UNLOCK_HIGH_GM5" /\ fs[2] = "UNLOCK_LOW_GM5"
  BY <1>3
<1> QED
  BY <1>4 DEF fs

\* One more write is one more for its call, and none for another.
LEMMA AppendAt ==
  ASSUME NEW S, NEW t \in Seq(S), NEW e \in S, NEW c
  PROVE  /\ e[1] = c => At(Append(t, e), c) = At(t, c) \cup {Len(t) + 1}
         /\ e[1] # c => At(Append(t, e), c) = At(t, c)
<1> DEFINE u == Append(t, e)
<1>1. /\ Len(t) \in Nat /\ DOMAIN t = 1..Len(t) /\ DOMAIN u = 1..(Len(t) + 1)
      /\ \A i \in DOMAIN t : u[i] = t[i]
      /\ u[Len(t) + 1] = e
  BY AppendHasBoth
<1> HIDE DEF u
<1>2. DOMAIN u = DOMAIN t \cup {Len(t) + 1}
  BY <1>1
<1>3. /\ e[1] = c => At(u, c) = At(t, c) \cup {Len(t) + 1}
      /\ e[1] # c => At(u, c) = At(t, c)
  BY <1>1, <1>2 DEF At
<1> QED
  BY <1>3 DEF u

LEMMA OthersHaveSent ==
  ASSUME NEW S, NEW t \in Seq(S), NEW e \in S, NEW c, e[1] # c, NEW jobs
  PROVE  /\ SentSome(t, c, jobs) => SentSome(Append(t, e), c, jobs)
         /\ SentAll(t, c, jobs) => SentAll(Append(t, e), c, jobs)
<1> DEFINE u == Append(t, e)
<1>1. At(u, c) = At(t, c)
  BY AppendAt
<1>2. /\ \A i \in DOMAIN t : i \in DOMAIN u /\ u[i] = t[i]
  <2>1. /\ DOMAIN t = 1..Len(t) /\ DOMAIN u = 1..(Len(t) + 1) /\ Len(t) \in Nat
        /\ \A i \in DOMAIN t : u[i] = t[i]
    BY AppendHasBoth
  <2> QED
    BY <2>1
<1> HIDE DEF u
<1>3. SentOne(t, c, jobs) => SentOne(u, c, jobs)
  BY <1>1, <1>2 DEF SentOne
<1>4. SentTwo(t, c, jobs) => SentTwo(u, c, jobs)
  BY <1>1, <1>2 DEF SentTwo
<1>5. /\ SentSome(t, c, jobs) => SentSome(u, c, jobs)
      /\ SentAll(t, c, jobs) => SentAll(u, c, jobs)
  BY <1>1, <1>3, <1>4 DEF SentSome, SentAll
<1> QED
  BY <1>5 DEF u

\* A call that has handed nothing over hands over its first frame, and one that
\* has handed over the first hands over the second.
LEMMA FirstIsSent ==
  ASSUME NEW S, NEW t \in Seq(S), NEW e \in S, NEW jobs,
         At(t, e[1]) = {}, e[2] = jobs[1]
  PROVE  SentOne(Append(t, e), e[1], jobs)
<1> DEFINE u == Append(t, e)
<1>0. ASSUME NEW c, c = e[1] PROVE At(u, c) = At(t, c) \cup {Len(t) + 1}
  BY <1>0, AppendAt
<1>1. At(u, e[1]) = At(t, e[1]) \cup {Len(t) + 1}
  BY <1>0
<1>2. At(u, e[1]) = {Len(t) + 1}
  BY <1>1
<1>3. Len(t) + 1 \in DOMAIN u /\ u[Len(t) + 1] = e
  BY AppendHasBoth
<1> QED
  BY <1>2, <1>3 DEF SentOne

LEMMA SecondIsSent ==
  ASSUME NEW S, NEW t \in Seq(S), NEW e \in S, NEW jobs,
         SentOne(t, e[1], jobs), e[2] = jobs[2]
  PROVE  SentTwo(Append(t, e), e[1], jobs)
<1> DEFINE u == Append(t, e)
<1>1. PICK i \in DOMAIN t : At(t, e[1]) = {i} /\ t[i][2] = jobs[1]
  BY DEF SentOne
<1>0. ASSUME NEW c, c = e[1] PROVE At(u, c) = At(t, c) \cup {Len(t) + 1}
  BY <1>0, AppendAt
<1>a. At(u, e[1]) = At(t, e[1]) \cup {Len(t) + 1}
  BY <1>0
<1>2. At(u, e[1]) = {i, Len(t) + 1}
  BY <1>1, <1>a
<1>3. /\ DOMAIN t = 1..Len(t) /\ DOMAIN u = 1..(Len(t) + 1) /\ Len(t) \in Nat
      /\ u[i] = t[i] /\ u[Len(t) + 1] = e
  BY AppendHasBoth
<1> HIDE DEF u
<1>4. i \in DOMAIN u /\ Len(t) + 1 \in DOMAIN u /\ i < Len(t) + 1
  BY <1>3
<1>5. SentTwo(u, e[1], jobs)
  BY <1>1, <1>2, <1>3, <1>4 DEF SentTwo
<1> QED
  BY <1>5 DEF u

\* How many frames it has handed over.
LEMMA WritesAreSent ==
  ASSUME PipeInv, NEW c, NEW jobs
  PROVE  /\ SentOne(tx, c, jobs) => Writes(c) = 1
         /\ SentTwo(tx, c, jobs) => Writes(c) = 2
<1>1. Writes(c) = Cardinality(At(tx, c))
  BY DEF Writes, At
<1>2. SentOne(tx, c, jobs) => Writes(c) = 1
  BY <1>1, FS_Singleton DEF SentOne
<1>3. ASSUME SentTwo(tx, c, jobs) PROVE Writes(c) = 2
  <2>1. PICK i, j \in DOMAIN tx : i < j /\ At(tx, c) = {i, j}
    BY <1>3 DEF SentTwo
  <2>2. i # j
    BY <2>1 DEF PipeInv
  <2>3. IsFiniteSet({i}) /\ Cardinality({i}) = 1
    BY FS_Singleton
  <2>4. Cardinality({i} \cup {j}) = 2
    BY <2>2, <2>3, FS_AddElement
  <2>5. At(tx, c) = {i} \cup {j}
    BY <2>1
  <2> QED
    BY <1>1, <2>4, <2>5
<1> QED
  BY <1>2, <1>3

\* Where the command of the oldest write stands.
LEMMA OldestHasSent ==
  ASSUME PipeInv, twin = "GM", CommandsOfGM, FramesInOrder, PendingRun, unacked > 0
  PROVE  LET jobs == calls[Oldest].frames IN
           /\ Oldest \in DOMAIN calls /\ calls[Oldest].stage = "writing"
           /\ Writes(Oldest) < Len(jobs) => Len(jobs) = 2 /\ SentOne(tx, Oldest, jobs)
           /\ Writes(Oldest) = Len(jobs) => SentAll(tx, Oldest, jobs)
<1> DEFINE jobs == calls[Oldest].frames
           k    == Len(tx) - unacked + 1
<1>1. k \in DOMAIN tx /\ Oldest = tx[k][1] /\ Oldest \in DOMAIN calls
  BY OldestIsWritten
<1>2. k \in Pending
  BY <1>1 DEF Pending, PipeInv
<1>3. k \in At(tx, Oldest)
  BY <1>1 DEF At
<1>4. calls[Oldest].stage = "writing"
  BY <1>1, <1>2 DEF PendingRun
<1>5. \/ jobs # <<>> /\ SentOne(tx, Oldest, jobs)
      \/ Len(jobs) = 2 /\ SentTwo(tx, Oldest, jobs)
  BY <1>1, <1>3 DEF FramesInOrder, SentSome
<1>6. jobs = <<>> \/ Len(jobs) = 1 \/ Len(jobs) = 2
  BY <1>1, FramesShape
<1> HIDE DEF jobs
<1>7. CASE jobs # <<>> /\ SentOne(tx, Oldest, jobs)
  <2>1. Writes(Oldest) = 1
    BY <1>7, WritesAreSent
  <2>2. Len(jobs) = 1 \/ Len(jobs) = 2
    BY <1>6, <1>7
  <2>3. /\ Writes(Oldest) < Len(jobs) => Len(jobs) = 2
        /\ Writes(Oldest) = Len(jobs) => Len(jobs) = 1
    BY <2>1, <2>2
  <2> QED
    BY <1>1, <1>4, <1>7, <2>3, Zenon DEF SentAll, jobs
<1>8. CASE Len(jobs) = 2 /\ SentTwo(tx, Oldest, jobs)
  <2>1. Writes(Oldest) = 2
    BY <1>8, WritesAreSent
  <2>2. ~(Writes(Oldest) < Len(jobs))
    BY <1>8, <2>1
  <2> QED
    BY <1>1, <1>4, <1>8, <2>2, Zenon DEF SentAll, jobs
<1> QED
  BY <1>5, <1>7, <1>8

-----------------------------------------------------------------------------
LEMMA GMBeginKeeps ==
  ASSUME CallsInv, GMInv, twin = "GM", NEW op \in GMCommands, GMCall(op)
  PROVE  CommandsOfGM' /\ FramesInOrder' /\ PendingRun'
<1> DEFINE frames == Jobs(op, variant)
           call   == [op |-> op, frames |-> frames,
                      stage |-> IF frames = <<>> THEN "returned" ELSE "writing"]
           new    == Len(calls) + 1
           e      == <<new, frames[1]>>
<1>0. CommandsOfGM /\ FramesInOrder /\ PendingRun /\ variant \in Variants
  BY DEF GMInv
<1>1. /\ calls' = Append(calls, call)
      /\ \/ frames # <<>> /\ tx' = Append(tx, e) /\ unacked' = unacked + 1
         \/ frames = <<>> /\ tx' = tx /\ unacked' = unacked
  BY DEF GMCall, Begin
<1>2. /\ call.op = op /\ call.frames = frames
      /\ call.stage = IF frames = <<>> THEN "returned" ELSE "writing"
  OBVIOUS
<1> HIDE DEF call
<1>3. /\ Len(calls) \in Nat /\ new \notin DOMAIN calls
      /\ \A c \in DOMAIN calls' : c \in DOMAIN calls \/ c = new
      /\ \A c \in DOMAIN calls : c \in DOMAIN calls' /\ calls'[c] = calls[c]
      /\ calls'[new] = call
  <2>1. /\ Len(calls) \in Nat
        /\ DOMAIN calls = 1..Len(calls) /\ DOMAIN calls' = 1..(Len(calls) + 1)
        /\ \A i \in DOMAIN calls : calls'[i] = calls[i]
        /\ calls'[Len(calls) + 1] = call
    BY <1>1 DEF CallsInv, PipeInv
  <2> QED
    BY <2>1
<1>4. CommandsOfGM'
  <2> SUFFICES ASSUME NEW c \in DOMAIN calls'
               PROVE  /\ calls'[c].op \in GMCommands
                      /\ \E v \in Variants : calls'[c].frames = Jobs(calls'[c].op, v)
    BY DEF CommandsOfGM
  <2>1. CASE c \in DOMAIN calls
    BY <1>0, <1>3, <2>1 DEF CommandsOfGM
  <2>2. CASE c = new
    BY <1>0, <1>2, <1>3, <2>2
  <2> QED
    BY <1>3, <2>1, <2>2
<1>5. At(tx, new) = {} /\ \A i \in DOMAIN tx : tx[i][1] \in DOMAIN calls
  BY <1>3 DEF At, CallsInv, PipeInv
<1>6. CASE frames = <<>>
  <2>1. tx' = tx /\ unacked' = unacked
    BY <1>1, <1>6
  <2>2. FramesInOrder'
    <3> SUFFICES ASSUME NEW c \in DOMAIN calls'
                 PROVE  /\ SentSome(tx, c, calls'[c].frames)
                        /\ calls'[c].stage = "returned" => SentAll(tx, c, calls'[c].frames)
      BY <2>1 DEF FramesInOrder
    <3>1. CASE c \in DOMAIN calls
      BY <1>0, <1>3, <3>1 DEF FramesInOrder
    <3>2. CASE c = new
      BY <1>2, <1>3, <1>5, <1>6, <3>2 DEF SentSome, SentAll
    <3> QED
      BY <1>3, <3>1, <3>2
  <2>3. PendingRun'
    BY <1>0, <1>3, <1>5, <2>1 DEF PendingRun, Pending
  <2> QED
    BY <1>4, <2>2, <2>3
<1>7. CASE frames # <<>>
  <2>1. tx' = Append(tx, e) /\ unacked' = unacked + 1
    BY <1>1, <1>7
  <2>2. e \in Nat \X JobNames /\ e[1] = new /\ e[2] = frames[1] /\ tx \in Seq(Nat \X JobNames)
    <3>1. frames \in Seq(JobNames)
      BY JobsAreNames
    <3>2. frames[1] \in JobNames
      BY <1>7, <3>1
    <3>3. tx \in Seq(Nat \X JobNames)
      BY DEF CallsInv, PipeInv, Sendable
    <3> QED
      BY <1>3, <3>2, <3>3
  <2>a. call.frames # <<>> /\ call.stage = "writing" /\ call.frames = frames
    BY <1>2, <1>7
  <2> HIDE DEF e
  <2>3. /\ Len(tx) \in Nat /\ Len(tx') = Len(tx) + 1
        /\ DOMAIN tx = 1..Len(tx) /\ DOMAIN tx' = 1..(Len(tx) + 1)
        /\ \A i \in DOMAIN tx : tx'[i] = tx[i]
        /\ tx'[Len(tx) + 1] = e
    BY <2>1, <2>2, AppendHasBoth
  <2>4. FramesInOrder'
    <3> SUFFICES ASSUME NEW c \in DOMAIN calls'
                 PROVE  /\ SentSome(tx', c, calls'[c].frames)
                        /\ calls'[c].stage = "returned" => SentAll(tx', c, calls'[c].frames)
      BY DEF FramesInOrder
    <3>1. CASE c \in DOMAIN calls
      <4>1. e[1] # c
        BY <1>3, <2>2, <3>1
      <4>2. /\ SentSome(tx, c, calls[c].frames)
            /\ calls[c].stage = "returned" => SentAll(tx, c, calls[c].frames)
        BY <1>0, <3>1 DEF FramesInOrder
      <4>3. /\ SentSome(tx', c, calls[c].frames)
            /\ calls[c].stage = "returned" => SentAll(tx', c, calls[c].frames)
        BY <2>1, <2>2, <4>1, <4>2, OthersHaveSent
      <4> QED
        BY <1>3, <3>1, <4>3
    <3>2. CASE c = new
      <4>1. At(tx, e[1]) = {} /\ e[2] = frames[1]
        BY <1>5, <2>2
      <4>2. SentOne(Append(tx, e), e[1], frames)
        BY <2>2, <4>1, FirstIsSent
      <4>3. SentOne(tx', c, call.frames)
        BY <2>1, <2>2, <2>a, <3>2, <4>2
      <4> QED
        BY <1>3, <2>a, <3>2, <4>3 DEF SentSome
    <3> QED
      BY <1>3, <3>1, <3>2
  <2>5. PendingRun'
    <3>1. ASSUME NEW i \in Pending' PROVE i \in Pending \/ i = Len(tx) + 1
      BY <2>1, <2>3, <3>1 DEF Pending, CallsInv, PipeInv
    <3>2. ASSUME NEW i \in Pending
          PROVE  /\ tx'[i][1] = tx[i][1] /\ tx[i][1] # new
                 /\ calls'[tx[i][1]].stage = "writing"
      BY <1>0, <1>3, <1>5, <2>3 DEF Pending, PendingRun
    <3>3. tx'[Len(tx) + 1][1] = new /\ calls'[new].stage = "writing"
      BY <1>3, <2>2, <2>3, <2>a
    <3>4. \A i \in Pending' : calls'[tx'[i][1]].stage = "writing"
      BY <3>1, <3>2, <3>3
    <3>5. ASSUME NEW i \in Pending', NEW j \in Pending', tx'[i][1] = tx'[j][1] PROVE i = j
      BY <1>0, <3>1, <3>2, <3>3, <3>5 DEF PendingRun
    <3> QED
      BY <3>4, <3>5 DEF PendingRun
  <2> QED
    BY <1>4, <2>4, <2>5
<1> QED
  BY <1>6, <1>7

LEMMA GMWriteAgainKeeps ==
  ASSUME CallsInv, GMInv, twin = "GM", WriteAgain
  PROVE  CommandsOfGM' /\ FramesInOrder' /\ PendingRun'
<1> DEFINE e == <<Oldest, calls[Oldest].frames[2]>>
           c == Oldest
<1>0. CommandsOfGM /\ FramesInOrder /\ PendingRun /\ PipeInv
  BY DEF GMInv, CallsInv
<1>1. unacked > 0 /\ Writes(Oldest) < Len(calls[Oldest].frames)
      /\ tx' = Append(tx, e) /\ UNCHANGED <<calls, unacked>>
  BY DEF WriteAgain, SecondJob
<1>2. /\ Oldest \in DOMAIN calls /\ calls[Oldest].stage = "writing"
      /\ Len(calls[Oldest].frames) = 2 /\ SentOne(tx, Oldest, calls[Oldest].frames)
  BY <1>0, <1>1, OldestHasSent
<1>3. e \in Nat \X JobNames /\ e[1] = c /\ e[2] = calls[c].frames[2]
      /\ tx \in Seq(Nat \X JobNames)
  <2>1. calls[c] \in Call(JobNames) /\ c \in Nat /\ tx \in Seq(Nat \X JobNames)
    BY <1>0, <1>2 DEF PipeInv, Sendable
  <2>2. calls[c].frames[2] \in JobNames
    BY <1>2, <2>1 DEF Call
  <2> QED
    BY <2>1, <2>2
<1>a. /\ Len(tx) - unacked + 1 \in DOMAIN tx /\ c = tx[Len(tx) - unacked + 1][1]
  BY <1>0, <1>1, OldestIsWritten
<1> HIDE DEF e, c
<1>4. /\ Len(tx) \in Nat /\ Len(tx') = Len(tx) + 1
      /\ DOMAIN tx = 1..Len(tx) /\ DOMAIN tx' = 1..(Len(tx) + 1)
      /\ \A i \in DOMAIN tx : tx'[i] = tx[i]
      /\ tx'[Len(tx) + 1] = e
  BY <1>1, <1>3, AppendHasBoth
<1>5. FramesInOrder'
  <2> SUFFICES ASSUME NEW d \in DOMAIN calls
               PROVE  /\ SentSome(tx', d, calls[d].frames)
                      /\ calls[d].stage = "returned" => SentAll(tx', d, calls[d].frames)
    BY <1>1 DEF FramesInOrder
  <2>1. CASE d # c
    <3>1. /\ SentSome(tx, d, calls[d].frames)
          /\ calls[d].stage = "returned" => SentAll(tx, d, calls[d].frames)
      BY <1>0 DEF FramesInOrder
    <3>2. e[1] # d
      BY <1>3, <2>1
    <3> QED
      BY <1>1, <1>3, <3>1, <3>2, OthersHaveSent
  <2>2. CASE d = c
    <3>1. SentOne(tx, e[1], calls[c].frames)
      BY <1>2, <1>3 DEF c
    <3>2. SentTwo(Append(tx, e), e[1], calls[c].frames)
      BY <1>3, <3>1, SecondIsSent
    <3>3. SentTwo(tx', c, calls[c].frames)
      BY <1>1, <1>3, <3>2
    <3> QED
      BY <1>2, <2>2, <3>3 DEF SentSome, c
  <2> QED
    BY <2>1, <2>2
<1>6. PendingRun'
  <2> DEFINE k == Len(tx) - unacked + 1
  <2>1. ASSUME NEW i \in Pending' PROVE (i \in Pending /\ i # k) \/ i = Len(tx) + 1
    BY <1>0, <1>1, <1>4, <2>1 DEF Pending, PipeInv
  <2>2. k \in Pending
    BY <1>0, <1>a DEF Pending, PipeInv
  <2>3. ASSUME NEW i \in Pending
        PROVE  /\ tx'[i][1] = tx[i][1] /\ calls[tx[i][1]].stage = "writing"
               /\ i # k => tx[i][1] # c
    BY <1>0, <1>4, <1>a, <2>2 DEF Pending, PendingRun
  <2>4. tx'[Len(tx) + 1][1] = c /\ calls[c].stage = "writing"
    BY <1>2, <1>3, <1>4 DEF c
  <2>5. \A i \in Pending' : calls'[tx'[i][1]].stage = "writing"
    BY <1>1, <2>1, <2>3, <2>4
  <2>6. ASSUME NEW i \in Pending', NEW j \in Pending', tx'[i][1] = tx'[j][1] PROVE i = j
    BY <1>0, <2>1, <2>3, <2>4, <2>6 DEF PendingRun
  <2> QED
    BY <2>5, <2>6 DEF PendingRun
<1> QED
  BY <1>0, <1>1, <1>5, <1>6 DEF CommandsOfGM

LEMMA GMEndKeeps ==
  ASSUME CallsInv, GMInv, twin = "GM", unacked > 0, unacked' = unacked - 1,
         NEW st \in {"returned", "failed"},
         calls' = [calls EXCEPT ![Oldest].stage = st], UNCHANGED tx,
         st = "returned" => SentAll(tx, Oldest, calls[Oldest].frames)
  PROVE  CommandsOfGM' /\ FramesInOrder' /\ PendingRun'
<1>0. CommandsOfGM /\ FramesInOrder /\ PendingRun /\ PipeInv
  BY DEF GMInv, CallsInv
<1> DEFINE k == Len(tx) - unacked + 1
<1>1. k \in DOMAIN tx /\ Oldest = tx[k][1] /\ Oldest \in DOMAIN calls
  BY <1>0, OldestIsWritten
<1>2. /\ DOMAIN calls' = DOMAIN calls
      /\ calls'[Oldest].stage = st
      /\ \A i \in DOMAIN calls :
           /\ calls'[i].frames = calls[i].frames /\ calls'[i].op = calls[i].op
           /\ i # Oldest => calls'[i].stage = calls[i].stage
  <2>1. calls \in Seq(Call(Sendable)) /\ st \in {"writing", "returned", "failed"}
    BY <1>0 DEF PipeInv
  <2> QED
    BY <1>1, <2>1, OldestStageChanges
<1>3. CommandsOfGM'
  BY <1>0, <1>2 DEF CommandsOfGM
<1>4. FramesInOrder'
  BY <1>0, <1>2 DEF FramesInOrder
<1>5. PendingRun'
  <2>1. ASSUME NEW i \in Pending' PROVE i \in Pending /\ i # k
    BY <1>0, <2>1 DEF Pending, PipeInv
  <2>2. k \in Pending
    BY <1>0, <1>1 DEF Pending, PipeInv
  <2>3. ASSUME NEW i \in Pending, i # k
        PROVE  /\ tx[i][1] \in DOMAIN calls /\ tx[i][1] # Oldest
               /\ calls[tx[i][1]].stage = "writing"
    BY <1>0, <1>1, <2>2, <2>3 DEF Pending, PendingRun, PipeInv
  <2> QED
    BY <1>0, <1>2, <2>1, <2>3 DEF PendingRun
<1> QED
  BY <1>3, <1>4, <1>5

LEMMA GMInitInv == CommandsInit => GMInv
BY DEF CommandsInit, GMInv, CommandsOfGM, FramesInOrder, PendingRun, Pending, Variants, GM1

LEMMA GMStepInv == CallsInv /\ GMInv /\ [CommandsNext]_commands => GMInv'
<1> SUFFICES ASSUME CallsInv, GMInv, [CommandsNext]_commands PROVE GMInv'
  OBVIOUS
<1>1. twin' = twin /\ variant' \in Variants
  BY DEF GMInv, commands, CommandsNext, WriteAgain, Return, Reject, MFLCall, Toggle, GMCall,
         Declare, Request, Control
<1>2. CASE twin # "GM"
  BY <1>1, <1>2 DEF GMInv
<1>3. ASSUME UNCHANGED <<calls, tx, unacked>> PROVE GMInv'
  BY <1>1, <1>3 DEF GMInv, CommandsOfGM, FramesInOrder, PendingRun, Pending
<1>4. ASSUME twin = "GM", Return PROVE GMInv'
  <2>1. /\ unacked > 0 /\ unacked' = unacked - 1 /\ UNCHANGED tx
        /\ calls' = [calls EXCEPT ![Oldest].stage = "returned"]
        /\ Writes(Oldest) = Len(calls[Oldest].frames)
    BY <1>4 DEF Return
  <2>2. SentAll(tx, Oldest, calls[Oldest].frames)
    BY <1>4, <2>1, OldestHasSent DEF CallsInv, GMInv
  <2> QED
    BY <1>1, <1>4, <2>1, <2>2, GMEndKeeps DEF GMInv
<1>5. ASSUME twin = "GM", Reject PROVE GMInv'
  <2>1. /\ unacked > 0 /\ unacked' = unacked - 1 /\ UNCHANGED tx
        /\ calls' = [calls EXCEPT ![Oldest].stage = "failed"]
    BY <1>5 DEF Reject
  <2> QED
    BY <1>1, <1>5, <2>1, GMEndKeeps DEF GMInv
<1>6. ASSUME twin = "GM", WriteAgain PROVE GMInv'
  BY <1>1, <1>6, GMWriteAgainKeeps DEF GMInv
<1>7. ASSUME NEW op \in GMCommands, GMCall(op) PROVE GMInv'
  <2>1. twin = "GM"
    BY <1>7 DEF GMCall
  <2> QED
    BY <1>1, <1>7, <2>1, GMBeginKeeps DEF GMInv
<1>8. /\ UNCHANGED commands => UNCHANGED <<calls, tx, unacked>>
      /\ \A v : Declare(v) => UNCHANGED <<calls, tx, unacked>>
      /\ \A op : MFLCall(op) => twin = "MFL"
      /\ Toggle => twin = "MFL"
      /\ \A r, n : Request(r, n) => twin = "CDC"
      /\ \A next : Control(next) => twin = "CDC"
  BY DEF commands, Declare, MFLCall, Toggle, Request, Control
<1> QED
  BY <1>2, <1>3, <1>4, <1>5, <1>6, <1>7, <1>8 DEF CommandsNext

-----------------------------------------------------------------------------
\* A command that has returned has sent the jobs of one variant.
LEMMA SentIsHasSent ==
  ASSUME PipeInv, NEW c, NEW jobs \in Seq(JobNames), SentAll(tx, c, jobs)
  PROVE  HasSent(c, jobs)
<1>0. SentBy(c) = At(tx, c) /\ DOMAIN jobs = 1..Len(jobs)
  BY DEF SentBy, At
<1>1. CASE jobs = <<>> /\ At(tx, c) = {}
  <2> DEFINE at == [k \in DOMAIN jobs |-> Len(tx)]
  <2>1. DOMAIN jobs = {}
    BY <1>1
  <2>2. at \in [DOMAIN jobs -> DOMAIN tx] /\ SentBy(c) = {at[k] : k \in DOMAIN jobs}
    BY <1>0, <1>1, <2>1
  <2> QED
    BY <2>1, <2>2 DEF HasSent
<1>2. CASE Len(jobs) = 1 /\ SentOne(tx, c, jobs)
  <2>1. PICK i \in DOMAIN tx : At(tx, c) = {i} /\ tx[i][2] = jobs[1]
    BY <1>2 DEF SentOne
  <2>2. DOMAIN jobs = {1}
    BY <1>0, <1>2
  <2> DEFINE at == [k \in DOMAIN jobs |-> i]
  <2>3. at[1] = i /\ at \in [DOMAIN jobs -> DOMAIN tx]
    BY <2>2
  <2> HIDE DEF at
  <2>4. SentBy(c) = {at[k] : k \in DOMAIN jobs}
    BY <1>0, <2>1, <2>2, <2>3
  <2>5. /\ \A k \in DOMAIN jobs : tx[at[k]][2] = jobs[k]
        /\ \A k, l \in DOMAIN jobs : k < l => at[k] < at[l]
    BY <2>1, <2>2, <2>3
  <2> QED
    BY <2>3, <2>4, <2>5 DEF HasSent
<1>3. CASE Len(jobs) = 2 /\ SentTwo(tx, c, jobs)
  <2>1. PICK i, j \in DOMAIN tx :
          i < j /\ At(tx, c) = {i, j} /\ tx[i][2] = jobs[1] /\ tx[j][2] = jobs[2]
    BY <1>3 DEF SentTwo
  <2>2. DOMAIN jobs = {1, 2}
    BY <1>0, <1>3
  <2> DEFINE at == [k \in DOMAIN jobs |-> IF k = 1 THEN i ELSE j]
  <2>3. at[1] = i /\ at[2] = j /\ at \in [DOMAIN jobs -> DOMAIN tx]
    BY <2>2
  <2> HIDE DEF at
  <2>4. SentBy(c) = {at[k] : k \in DOMAIN jobs}
    BY <1>0, <2>1, <2>2, <2>3
  <2>5. /\ \A k \in DOMAIN jobs : tx[at[k]][2] = jobs[k]
        /\ \A k, l \in DOMAIN jobs : k < l => at[k] < at[l]
    BY <2>1, <2>2, <2>3
  <2> QED
    BY <2>3, <2>4, <2>5 DEF HasSent
<1> QED
  BY <1>1, <1>2, <1>3 DEF SentAll

LEMMA ReturnedSentOneVariant == CallsInv /\ GMInv => OneVariantPerCommand
<1> SUFFICES ASSUME CallsInv, GMInv, twin = "GM", NEW c \in DOMAIN calls,
                    calls[c].stage = "returned"
             PROVE  \E v \in Variants : HasSent(c, Jobs(calls[c].op, v))
  BY DEF OneVariantPerCommand
<1>1. calls[c].op \in GMCommands
  BY DEF GMInv, CommandsOfGM
<1>2. PICK v \in Variants : calls[c].frames = Jobs(calls[c].op, v)
  BY DEF GMInv, CommandsOfGM
<1>3. Jobs(calls[c].op, v) \in Seq(JobNames)
  BY <1>1, JobsAreNames
<1>4. SentAll(tx, c, Jobs(calls[c].op, v))
  BY <1>2 DEF GMInv, FramesInOrder
<1>5. HasSent(c, Jobs(calls[c].op, v))
  BY <1>3, <1>4, SentIsHasSent DEF CallsInv
<1> QED
  BY <1>5

\* A frame that unlocks some doors of a GM5 belongs to a command that has sent
\* the frame for the others too, after or before it.
LEMMA UnlocksArePairs ==
  ASSUME CallsInv, GMInv, twin = "GM", Quiet, NEW k \in DOMAIN tx,
         tx[k][2] \in {"UNLOCK_HIGH_GM5", "UNLOCK_LOW_GM5"}
  PROVE  \E i, j \in DOMAIN tx :
           /\ i < j /\ At(tx, tx[k][1]) = {i, j} /\ k \in {i, j}
           /\ tx[i][2] = "UNLOCK_HIGH_GM5" /\ tx[j][2] = "UNLOCK_LOW_GM5"
<1> DEFINE c == tx[k][1]
<1>1. c \in DOMAIN calls /\ calls[c].stage = "returned" /\ k \in At(tx, c)
  BY DEF CallsInv, PipeInv, Quiet, At
<1> DEFINE jobs == calls[c].frames
<1>2. SentAll(tx, c, jobs)
  BY <1>1 DEF GMInv, FramesInOrder
<1>3. \/ jobs = <<>>
      \/ Len(jobs) = 1 /\ jobs # <<>> /\ jobs[1] \notin {"UNLOCK_HIGH_GM5", "UNLOCK_LOW_GM5"}
      \/ /\ Len(jobs) = 2 /\ jobs # <<>>
         /\ jobs[1] = "UNLOCK_HIGH_GM5" /\ jobs[2] = "UNLOCK_LOW_GM5"
  BY <1>1, FramesShape DEF GMInv
<1> HIDE DEF jobs, c
<1>4. ~(jobs = <<>> /\ At(tx, c) = {})
  BY <1>1
<1>5. ~(Len(jobs) = 1 /\ SentOne(tx, c, jobs))
  <2> SUFFICES ASSUME Len(jobs) = 1, SentOne(tx, c, jobs) PROVE FALSE
    OBVIOUS
  <2>1. tx[k][2] = jobs[1]
    BY <1>1 DEF SentOne
  <2> QED
    BY <1>3, <2>1
<1>6. Len(jobs) = 2 /\ SentTwo(tx, c, jobs)
  BY <1>2, <1>4, <1>5 DEF SentAll
<1>7. jobs[1] = "UNLOCK_HIGH_GM5" /\ jobs[2] = "UNLOCK_LOW_GM5"
  BY <1>3, <1>6
<1> QED
  BY <1>1, <1>6, <1>7 DEF SentTwo, c

LEMMA PairsAreLockedTogether ==
  ASSUME CallsInv, GMInv, twin = "GM", Quiet, Contiguous
  PROVE  Locked("UNLOCK_HIGH_GM5") <=> Locked("UNLOCK_LOW_GM5")
<1>0. DOMAIN tx \subseteq Nat
  BY DEF CallsInv, PipeInv
<1>1. ASSUME Locked("UNLOCK_HIGH_GM5"), NEW k \in DOMAIN tx, tx[k][2] = "UNLOCK_LOW_GM5"
      PROVE  \E m \in DOMAIN tx : m > k /\ tx[m][2] = "LOCK_ALL_GM5"
  <2>1. PICK i, j \in DOMAIN tx :
          /\ i < j /\ At(tx, tx[k][1]) = {i, j} /\ k \in {i, j}
          /\ tx[i][2] = "UNLOCK_HIGH_GM5" /\ tx[j][2] = "UNLOCK_LOW_GM5"
    BY <1>1, UnlocksArePairs
  <2>2. k = j /\ tx[i][1] = tx[j][1]
    BY <1>1, <2>1 DEF At
  <2>3. PICK m \in DOMAIN tx : m > i /\ tx[m][2] = "LOCK_ALL_GM5"
    BY <1>1, <2>1 DEF Locked
  <2>4. m \notin {i, j}
    BY <2>1, <2>3
  <2>5. ~(m < j)
    <3> SUFFICES ASSUME m < j PROVE FALSE
      OBVIOUS
    <3>1. tx[m][1] = tx[i][1]
      BY <1>0, <2>2, <2>3 DEF Contiguous
    <3>2. m \in At(tx, tx[k][1])
      BY <2>2, <3>1 DEF At
    <3> QED
      BY <2>1, <2>4, <3>2
  <2>6. m > k
    BY <1>0, <2>2, <2>4, <2>5
  <2> QED
    BY <2>3, <2>6
<1>2. ASSUME Locked("UNLOCK_LOW_GM5"), NEW k \in DOMAIN tx, tx[k][2] = "UNLOCK_HIGH_GM5"
      PROVE  \E m \in DOMAIN tx : m > k /\ tx[m][2] = "LOCK_ALL_GM5"
  <2>1. PICK i, j \in DOMAIN tx :
          /\ i < j /\ At(tx, tx[k][1]) = {i, j} /\ k \in {i, j}
          /\ tx[i][2] = "UNLOCK_HIGH_GM5" /\ tx[j][2] = "UNLOCK_LOW_GM5"
    BY <1>2, UnlocksArePairs
  <2>2. k = i
    BY <1>2, <2>1
  <2>3. PICK m \in DOMAIN tx : m > j /\ tx[m][2] = "LOCK_ALL_GM5"
    BY <1>2, <2>1 DEF Locked
  <2>4. m > k
    BY <1>0, <2>1, <2>2, <2>3
  <2> QED
    BY <2>3, <2>4
<1> QED
  BY <1>1, <1>2 DEF Locked

\* However commands of the general module overlap, whatever variant is declared
\* in between and whichever writes fail: a command that returns has sent the
\* jobs of one variant, in order and nothing else, so that when nothing has
\* failed and no frame came between the two of an unlocking, front and rear
\* doors end up in the same state (gm.ts:98-165).
THEOREM DoorsGoTogether == CommandsSpec => []DoorsTogether
<1>1. CallsInv /\ GMInv => DoorsTogether
  BY ReturnedSentOneVariant, PairsAreLockedTogether DEF DoorsTogether
<1> QED
  BY <1>1, GMInitInv, GMStepInv, CallsInvariant, PTL DEF CommandsSpec

\* The stage of a call, the routing, the variant and the state of the changer
\* are always ones the code knows, and disc and track stay within what the
\* changer has, whatever a radio asks for (mfl.ts, gm.ts, cdc.ts:76-113).
THEOREM CommandsAreTyped == CommandsSpec => []CommandsTypeOK
<1>1. CallsInv /\ GMInv /\ RadioInv => CommandsTypeOK
  <2> SUFFICES ASSUME CallsInv, GMInv, RadioInv PROVE CommandsTypeOK
    OBVIOUS
  <2>1. \A i \in DOMAIN calls : calls[i].stage \in {"writing", "returned", "failed"}
    <3>1. \A i \in DOMAIN calls : calls[i] \in Call(Sendable)
      BY DEF CallsInv, PipeInv
    <3> QED
      BY <3>1 DEF Call
  <2>2. /\ twin \in {"MFL", "GM", "CDC"} /\ unacked \in 0..Len(tx)
        /\ \A i \in DOMAIN tx : tx[i][1] \in DOMAIN calls
    BY DEF CallsInv, PipeInv
  <2>3. variant \in Variants /\ routing \in {"RAD", "TEL"} /\ player \in Players
    BY DEF CallsInv, GMInv, Held
  <2>4. written \subseteq 1..(Len(tx) - unacked)
    BY DEF RadioInv, WrittenInv
  <2> QED
    BY <2>1, <2>2, <2>3, <2>4, Zenon DEF CommandsTypeOK, Players
<1> QED
  BY <1>1, GMInitInv, GMStepInv, RadioInitInv, RadioStepInv, CallsInvariant, PTL DEF CommandsSpec

=============================================================================
