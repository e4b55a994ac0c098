----------------------------- MODULE MCCommands -----------------------------
(***************************************************************************)
(* The multi-step methods, the emitter their events go through, and the    *)
(* codecs of their frames.  Neither the emitter nor a codec depends on the *)
(* state of a twin: a behaviour is about a twin, the emitter or a codec.   *)
(***************************************************************************)
EXTENDS Commands, Emitter, Codecs

TypeOK == CommandsTypeOK /\ EmitterTypeOK /\ CodecsTypeOK

Init == CommandsInit /\ EmitterInit /\ CodecsInit

NoTwin == calls = <<>> /\ twin = "MFL"
NoEmission == listeners = <<>> /\ emits = 0
NoFrame == stage = "idle"

Next ==
  \/ NoEmission /\ NoFrame /\ CommandsNext /\ UNCHANGED <<emitter, codecs>>
  \/ NoTwin /\ NoFrame /\ EmitterNext /\ UNCHANGED <<commands, codecs>>
  \/ NoTwin /\ NoEmission /\ CodecsNext /\ UNCHANGED <<commands, emitter>>

Spec == Init /\ [][Next]_<<commands, emitter, codecs>>

=============================================================================
