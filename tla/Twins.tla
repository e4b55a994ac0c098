------------------------------- MODULE Twins --------------------------------
(***************************************************************************)
(* The device twins of packages/ikbus-devices/src that mirror what a       *)
(* module of the car says and is told, on top of Dispatch: a twin has one  *)
(* field of state per command it knows, and handle() stores what the       *)
(* command's parser returns.  The instrument cluster (IKE) also writes the *)
(* Vehicle that all twins share.                                           *)
(*                                                                         *)
(* A frame is its addresses, its command, what it carries (val) and        *)
(* whether the command's parser accepts it (ok): a parser that throws      *)
(* leaves handle() before any assignment.  Commands are named after the    *)
(* state they carry; equal command bytes have equal names, and the two     *)
(* properties of the on-board computer stand for the keys of obcText.      *)
(***************************************************************************)
EXTENDS Dispatch, Functions, TLC

CONSTANT
  Values      \* what commands carry; "OFF" and "IKI" are told apart

VARIABLES
  mirror,     \* mirror[<<d, c>>]: the state of twin d, field of command c;
              \* no such pair: the field is `undefined`
  vehicle,    \* the shared Vehicle: ignition and the cluster's variant
  changes     \* history: the ignitionChanged events of the Vehicle

twins == <<dispatch, mirror, vehicle, changes>>

-----------------------------------------------------------------------------
(***************************************************************************)
(* The commands of each twin: those it mirrors when it is the source, and  *)
(* those it mirrors when they are addressed to it.                         *)
(***************************************************************************)
IKEOutbound ==
  { "ignition", "sensors", "odometer", "speedRpm", "temperature", "obcTime",
    "obcDate", "replicate", "languageRegion", "obcStatus", "obcRemoteConfig",
    "clusterButton" }

\* A request for language and region is recognised and changes nothing.
IKEInbound == {"ccmText", "numeric", "gpsTime", "redundantData", "deviceReset"}

BMBTOutbound == {"hardButton", "softButton", "navDial", "serviceReply"}
BMBTInbound  == {"serviceRequest", "tapeLed"}

TELOutbound == {"led", "telStatus", "menuText", "bodyText", "smsIcon"}
TELInbound  == {"directDial"}

GTOutbound ==
  {"radioUI", "obcInput", "obcControl", "menuSelect", "serviceRequest"}
GTInbound  == {"serviceReply"}

RADOutbound == {"titleText", "screenMode", "eq", "toneSelect", "stationList"}
RADInbound  == {"inputSource"}

NAVOutbound == {"gpsTime", "coordinates", "location", "viewStatus"}
NAVInbound  == {"navControl"}

\* The twin keeps the time at which the request came; val stands for it.
LCMOutbound == {"indicators", "redundantData", "ccmStatus"}
LCMInbound  == {"redundantDataRequest"}

PDCOutbound == {"pdcStatus", "distances"}
MIDOutbound == {"midButton"}
EWSOutbound == {"keyStatus"}
RLSOutbound == {"light"}
GMOutbound  == {"doors", "remoteKey", "visualIndicators"}

\* The steering wheel, the CD changer (a module of its own) and the stubs
\* mirror nothing.
Outbound(a) ==
  CASE a = "IKE"  -> IKEOutbound  [] a = "BMBT" -> BMBTOutbound
    [] a = "TEL"  -> TELOutbound  [] a = "GT"   -> GTOutbound
    [] a = "RAD"  -> RADOutbound  [] a = "NAV"  -> NAVOutbound
    [] a = "LCM"  -> LCMOutbound  [] a = "PDC"  -> PDCOutbound
    [] a = "MID"  -> MIDOutbound  [] a = "EWS"  -> EWSOutbound
    [] a = "RLS"  -> RLSOutbound  [] a = "GM"   -> GMOutbound
    [] OTHER -> {}

Inbound(a) ==
  CASE a = "IKE"  -> IKEInbound   [] a = "BMBT" -> BMBTInbound
    [] a = "TEL"  -> TELInbound   [] a = "GT"   -> GTInbound
    [] a = "RAD"  -> RADInbound   [] a = "NAV"  -> NAVInbound
    [] a = "LCM"  -> LCMInbound   [] OTHER -> {}

Fields(d) == Outbound(Address[d]) \cup Inbound(Address[d])

-----------------------------------------------------------------------------
TypeOK ==
  /\ DispatchTypeOK
  /\ \A p \in DOMAIN mirror : p[2] \in Fields(p[1]) /\ mirror[p] \in Values
  /\ vehicle \in [ignition : Values, iki : BOOLEAN]
  /\ changes \in Seq([from : Values, to : Values])

Init ==
  /\ DispatchInit
  /\ mirror = << >>
  /\ vehicle = [ignition |-> "OFF", iki |-> FALSE]
  /\ changes = <<>>

\* A frame from the twin's own address is never taken for one addressed to
\* it.
Mirrors(d, f) ==
  \/ f.src = Address[d] /\ f.cmd \in Outbound(f.src)
  \/ f.src # Address[d] /\ f.dst = Address[d] /\ f.cmd \in Inbound(f.dst)

\* What the IKE tells the Vehicle.  (The first form is a bug: an event for a
\* value that has not changed.)
AlwaysChanged(v) ==
  /\ vehicle' = [vehicle EXCEPT !.ignition = v]
  /\ changes' = Append(changes, [from |-> vehicle.ignition, to |-> v])

SetIgnition(v) ==
  IF v = vehicle.ignition
  THEN UNCHANGED <<vehicle, changes>>
  ELSE /\ vehicle' = [vehicle EXCEPT !.ignition = v]
       /\ changes' = Append(changes, [from |-> vehicle.ignition, to |-> v])

\* Once known to be an IKI the cluster is one.
DetectVariant(v) ==
  /\ vehicle' = [vehicle EXCEPT !.iki = @ \/ v = "IKI"]
  /\ UNCHANGED changes

TellVehicle(d, f) ==
  CASE Address[d] = "IKE" /\ f.cmd = "ignition" -> SetIgnition(f.val)
    [] Address[d] = "IKE" /\ f.cmd = "sensors"  -> DetectVariant(f.val)
    [] OTHER -> UNCHANGED <<vehicle, changes>>

\* The state with one field replaced.  (First two bugs: the first reading is
\* kept, and the field of whoever sent the frame is set.)
KeepFirst(d, f) == mirror' = mirror @@ (<<d, f.cmd>> :> f.val)
BySource(d, f)  == mirror' = (<<f.src, f.cmd>> :> f.val) @@ mirror

Store(d, f) ==
  mirror' = [p \in DOMAIN mirror \cup {<<d, f.cmd>>} |->
               IF p = <<d, f.cmd>> THEN f.val ELSE mirror[p]]

\* handle(): store what the frame carries, throw, or ignore it.
TwinHandles(d) ==
  LET f == wire[current] IN
    \/ /\ HandleReturns(d)
       /\ Mirrors(d, f)
       /\ f.ok
       /\ Store(d, f)
       /\ TellVehicle(d, f)
    \/ /\ HandleThrows(d)
       /\ Mirrors(d, f)
       /\ ~f.ok
       /\ UNCHANGED <<mirror, vehicle, changes>>
    \/ /\ HandleReturns(d)
       /\ ~Mirrors(d, f)
       /\ UNCHANGED <<mirror, vehicle, changes>>

TwinLoop ==
  \/ \E d \in Devices : TwinHandles(d)
  \/ /\ EmitFrame \/ EndFrame \/ \E d \in Devices : Skip(d)
     /\ UNCHANGED <<mirror, vehicle, changes>>

TwinNext == TwinLoop \/ (Others /\ UNCHANGED <<mirror, vehicle, changes>>)

TwinSpec == Init /\ [][TwinNext]_twins

-----------------------------------------------------------------------------
(***************************************************************************)
(* Properties.                                                             *)
(***************************************************************************)

\* Indices of the well-formed frames with command c that d has handled, from
\* the twin itself or else addressed to it.
Readings(d, c) ==
  { i \in Range(log[d]) :
      /\ wire[i].cmd = c /\ wire[i].ok
      /\ IF wire[i].src = Address[d] THEN c \in Outbound(Address[d])
         ELSE wire[i].dst = Address[d] /\ c \in Inbound(Address[d]) }

\* A twin shows the newest well-formed frame of each command, whatever came
\* in between: malformed frames, frames of other twins, frames it missed
\* while it was disabled, and its own address as a destination.
ShowsNewest ==
  position = 0 => \A d \in Registered : \A c \in Fields(d) :
    LET R == Readings(d, c) IN
      IF R = {} THEN <<d, c>> \notin DOMAIN mirror
      ELSE mirror[<<d, c>>] = wire[CHOOSE i \in R : \A j \in R : j <= i].val

\* The fields of d that show something, and what.
Shown(d, c) == {mirror[p] : p \in DOMAIN mirror \cap {<<d, c>>}}

\* "Mirrors ignition state changes into the shared Vehicle" (ike.ts:129-130):
\* Vehicle and cluster twin never differ, one event per real change, and a
\* cluster once known to be an IKI stays one.
VehicleFollowsCluster ==
  \A d \in Registered : Address[d] = "IKE" =>
    LET shown == Shown(d, "ignition") IN
      /\ {vehicle.ignition} = IF shown = {} THEN {"OFF"} ELSE shown
      /\ \A i \in DOMAIN changes :
           /\ changes[i].from # changes[i].to
           /\ changes[i].from = IF i = 1 THEN "OFF" ELSE changes[i - 1].to
      /\ vehicle.iki <=>
           \E i \in Readings(d, "sensors") : wire[i].val = "IKI"

=============================================================================
