------------------------------ MODULE Controls ------------------------------
(***************************************************************************)
(* What the twins send.  Every twin has methods that send one frame, and a *)
(* manifest of controls that call them (ControlDescriptor in packages/     *)
(* core/src/controls.ts); the shells invoke a control, and those marked    *)
(* `requires: 'active'` only while they are armed.  On the single wire the *)
(* sender hears its own frame, so it comes back and is dispatched to the   *)
(* twins.                                                                  *)
(*                                                                         *)
(* A method is a source, a destination and a command; the sources and      *)
(* destinations are the defaults, which the controls use.  A control is    *)
(* named by the method it calls.                                           *)
(***************************************************************************)
EXTENDS Twins

CONSTANTS
  MaxSent,        \* bound: frames sent
  Traffic,        \* bound: the frames other modules put on a bus with these
                  \* devices
  Latecomers,     \* bound: the devices that are registered while it runs
  Switched,       \* bound: the devices that are disabled and enabled
  Written         \* bound: the values controls send

ASSUME MaxSentAssumption == MaxSent \in Nat
ASSUME WrittenAssumption == Written \subseteq Values

VARIABLES
  armed,      \* the shell's switch
  air,        \* frames written whose echo has not come back, each with
              \* `asked`: the shell was not armed
  own         \* history: own[i]: frame i on the wire is an echo, and `asked`

controls == <<twins, armed, air, own>>

S(src, dst, cmd) == [src |-> src, dst |-> dst, cmd |-> cmd]

-----------------------------------------------------------------------------
(***************************************************************************)
(* The methods of each twin.                                               *)
(***************************************************************************)
IKESends ==
  [ requestIgnition       |-> S("DIA", "IKE", "ignitionRequest"),
    requestSensors        |-> S("DIA", "IKE", "sensorsRequest"),
    requestOdometer       |-> S("DIA", "IKE", "odometerRequest"),
    requestTemperature    |-> S("DIA", "IKE", "temperatureRequest"),
    requestLanguageRegion |-> S("DIA", "IKE", "languageRegionRequest"),
    requestRedundantData  |-> S("IKE", "LCM", "redundantDataRequest"),
    writeCCMText          |-> S("PDC", "IKE", "ccmText"),
    clearCCMText          |-> S("PDC", "IKE", "ccmText"),
    writeNumeric          |-> S("PDC", "IKE", "numeric"),
    clearNumeric          |-> S("PDC", "IKE", "numeric"),
    broadcastOBCStatus    |-> S("IKE", "ANZV", "obcStatus"),
    sendOBCRemoteConfig   |-> S("IKE", "GT", "obcRemoteConfig"),
    sendClusterButton     |-> S("IKE", "LOC", "clusterButton"),
    sendDeviceReset       |-> S("IKE", "GLO", "deviceReset") ]

BMBTSends ==
  [ pressHardButton  |-> S("BMBT", "GT", "hardButton"),
    pressSoftButton  |-> S("BMBT", "LOC", "softButton"),
    rotateNavDial    |-> S("BMBT", "GT", "navDial"),
    changeVolume     |-> S("BMBT", "RAD", "volume"),
    sendServiceReply |-> S("BMBT", "GT", "serviceReply") ]

TELSends ==
  [ broadcastLED      |-> S("TEL", "ANZV", "led"),
    broadcastStatus   |-> S("TEL", "ANZV", "telStatus"),
    broadcastMenuText |-> S("TEL", "GT", "menuText"),
    broadcastBodyText |-> S("TEL", "GT", "bodyText"),
    showSMSIcon       |-> S("TEL", "ANZV", "smsIcon"),
    sendDirectDial    |-> S("GT", "TEL", "directDial") ]

GTSends ==
  [ setRadioUI             |-> S("GT", "RAD", "radioUI"),
    writeOBCInput          |-> S("GT", "IKE", "obcInput"),
    controlOBC             |-> S("GT", "IKE", "obcControl"),
    sendMenuSelect         |-> S("GT", "LOC", "menuSelect"),
    sendBMBTServiceRequest |-> S("GT", "BMBT", "serviceRequest") ]

RADSends ==
  [ writeTitleText         |-> S("RAD", "GT", "titleText"),
    claimForeground        |-> S("RAD", "GT", "screenMode"),
    yieldForeground        |-> S("RAD", "GT", "screenMode"),
    sendEQUpdate           |-> S("RAD", "GT", "eq"),
    sendToneSelect         |-> S("RAD", "GT", "toneSelect"),
    sendNGStationListChunk |-> S("RAD", "GT", "stationList") ]

NAVSends ==
  [ sendGPSTime            |-> S("NAV", "IKE", "gpsTime"),
    sendTelematicsLocation |-> S("NAV", "TEL", "location"),
    sendViewStatus         |-> S("NAV", "GTF", "viewStatus"),
    sendControl            |-> S("SES", "NAV", "navControl") ]

LCMSends ==
  [ requestIndicators   |-> S("DIA", "LCM", "indicatorsRequest"),
    broadcastIndicators |-> S("LCM", "GLO", "indicators"),
    sendRedundantData   |-> S("LCM", "IKE", "redundantData") ]

GMSends ==
  [ requestDoors     |-> S("DIA", "GM", "doorsRequest"),
    lockAll          |-> S("DIA", "GM", "lockJob"),
    unlockAll        |-> S("DIA", "GM", "lockJob"),
    unlockTrunk      |-> S("DIA", "GM", "lockJob"),
    pressCentralLock |-> S("DIA", "GM", "lockJob") ]

MFLSends == [ pressButton  |-> S("MFL", "RAD", "mflButton"),
              changeVolume |-> S("MFL", "RAD", "volume") ]
PDCSends == [ requestSensors  |-> S("DIA", "PDC", "pdcRequest") ]
EWSSends == [ requestStatus   |-> S("DIA", "EWS", "keyStatusRequest") ]
MIDSends == [ pressButton     |-> S("MID", "RAD", "midButton") ]
CDCSends == [ broadcastStatus |-> S("CDC", "RAD", "cdcStatus") ]

Sends(a) ==
  CASE a = "IKE"  -> IKESends  [] a = "BMBT" -> BMBTSends
    [] a = "TEL"  -> TELSends  [] a = "GT"   -> GTSends
    [] a = "RAD"  -> RADSends  [] a = "NAV"  -> NAVSends
    [] a = "LCM"  -> LCMSends  [] a = "GM"   -> GMSends
    [] a = "MFL"  -> MFLSends  [] a = "PDC"  -> PDCSends
    [] a = "EWS"  -> EWSSends  [] a = "MID"  -> MIDSends
    [] a = "CDC"  -> CDCSends  [] OTHER      -> << >>

\* The frame that a call of method m of twin d puts on the wire.
FrameOf(d, m, v) ==
  LET method == Sends(Address[d])[m] IN
    [src |-> method.src, dst |-> method.dst, cmd |-> method.cmd, val |-> v,
     ok |-> TRUE]

\* The wire carries what the twins send.
ASSUME FramesAssumption ==
  \A d \in Devices : \A m \in DOMAIN Sends(Address[d]) : \A v \in Written :
    FrameOf(d, m, v) \in Frames

-----------------------------------------------------------------------------
(***************************************************************************)
(* The manifests: the methods called by controls without and with          *)
(* `requires: 'active'`.  The CD changer's `announce` sends nothing.       *)
(***************************************************************************)
Manifest(asks, acts) == [asks |-> asks, acts |-> acts]

IKEControls ==
  Manifest({"requestIgnition", "requestSensors", "requestOdometer",
            "requestTemperature", "requestLanguageRegion",
            "requestRedundantData"},
           {"writeCCMText", "clearCCMText", "writeNumeric", "clearNumeric",
            "sendClusterButton", "sendDeviceReset"})
BMBTControls ==
  Manifest({}, {"pressHardButton", "rotateNavDial", "changeVolume"})
TELControls == Manifest({}, {"broadcastLED", "broadcastStatus", "showSMSIcon"})
GTControls  == Manifest({}, {"setRadioUI", "controlOBC", "sendMenuSelect",
                             "sendBMBTServiceRequest"})
RADControls == Manifest({}, {"writeTitleText", "claimForeground",
                             "yieldForeground"})
NAVControls == Manifest({}, {"sendControl"})
LCMControls == Manifest({"requestIndicators"}, {})
GMControls  == Manifest({"requestDoors"}, {"lockAll", "unlockAll",
                                           "unlockTrunk", "pressCentralLock"})
MFLControls == Manifest({}, {"pressButton", "changeVolume"})
PDCControls == Manifest({"requestSensors"}, {})
EWSControls == Manifest({"requestStatus"}, {})
MIDControls == Manifest({}, {"pressButton"})
CDCControls == Manifest({}, {"broadcastStatus"})

ManifestOf(a) ==
  CASE a = "IKE"  -> IKEControls  [] a = "BMBT" -> BMBTControls
    [] a = "TEL"  -> TELControls  [] a = "GT"   -> GTControls
    [] a = "RAD"  -> RADControls  [] a = "NAV"  -> NAVControls
    [] a = "LCM"  -> LCMControls  [] a = "GM"   -> GMControls
    [] a = "MFL"  -> MFLControls  [] a = "PDC"  -> PDCControls
    [] a = "EWS"  -> EWSControls  [] a = "MID"  -> MIDControls
    [] a = "CDC"  -> CDCControls  [] OTHER      -> Manifest({}, {})

-----------------------------------------------------------------------------
ControlsTypeOK ==
  /\ TypeOK
  /\ armed \in BOOLEAN
  /\ \A i \in DOMAIN air : air[i].asked \in BOOLEAN /\ air[i].frame.ok
  /\ Len(air) + Cardinality(DOMAIN own) <= MaxSent
  /\ \A i \in DOMAIN own : i \in DOMAIN wire /\ own[i] \in BOOLEAN

ControlsInit ==
  /\ Init
  /\ armed = FALSE
  /\ air = <<>>
  /\ own = << >>

\* The switch sets the mode of every twin.
SetActive ==
  /\ armed' = ~armed
  /\ SetModes([d \in Devices |-> IF armed' THEN "active" ELSE "passive"])
  /\ UNCHANGED <<mirror, vehicle, changes, air, own>>

\* A program that embeds the twins takes one off the bus, or puts it back.
Disable(d) ==
  /\ mode[d] # "disabled"
  /\ SetModes([mode EXCEPT ![d] = "disabled"])
  /\ UNCHANGED <<mirror, vehicle, changes, armed, air, own>>

Enable(d) ==
  /\ mode[d] = "disabled"
  /\ SetModes([mode EXCEPT ![d] = "passive"])
  /\ UNCHANGED <<mirror, vehicle, changes, armed, air, own>>

\* send(): encode and write.
Send(d, m, v) ==
  /\ Len(air) + Cardinality(DOMAIN own) < MaxSent
  /\ air' = Append(air, [frame |-> FrameOf(d, m, v), asked |-> ~armed])
  /\ UNCHANGED <<twins, armed, own>>

\* The gate of the shells.
MayInvoke(d, m) == m \in ManifestOf(Address[d]).acts => armed

Invoke(d, m, v) ==
  /\ d \in Registered
  /\ m \in ManifestOf(Address[d]).asks \cup ManifestOf(Address[d]).acts
  /\ MayInvoke(d, m)
  /\ Send(d, m, v)

\* A chunk brings echoes in the order of the writes, one or two at once.
Echo ==
  \E n \in 1..2 :
    /\ n <= Len(air)
    /\ Receive([i \in 1..n |-> air[i].frame])
    /\ own' = [ i \in DOMAIN own \cup (Len(wire) + 1)..(Len(wire) + n) |->
                 IF i \in DOMAIN own THEN own[i] ELSE air[i - Len(wire)].asked ]
    /\ air' = SubSeq(air, n + 1, Len(air))
    /\ UNCHANGED <<mirror, vehicle, changes, armed>>

\* Frames of the other modules.
Hear(chunk) ==
  /\ Receive(chunk)
  /\ UNCHANGED <<mirror, vehicle, changes, armed, air, own>>

Join(d) ==
  /\ Register(d)
  /\ UNCHANGED <<mirror, vehicle, changes, armed, air, own>>

TwinStep == TwinLoop /\ UNCHANGED <<armed, air, own>>

ShellNext ==
  \/ TwinStep
  \/ SetActive
  \/ \E d \in Switched[Registered] \cap Devices : Disable(d) \/ Enable(d)
  \/ \E d \in Latecomers[Registered] \cap Devices : Join(d)
  \/ \E d \in Registered : \E m \in DOMAIN Sends(Address[d]) : \E v \in Written :
       Invoke(d, m, v)
  \/ Echo
  \/ /\ Idle /\ Len(wire) < MaxFrames
     /\ LET heard == Traffic[Registered] \cap Frames IN
          \E f \in heard : Hear(<<f>>) \/ \E g \in heard : Hear(<<f, g>>)

ShellSpec == ControlsInit /\ [][ShellNext]_controls

\* The loop of dispatchFrame() is plain code: it runs to its end.
ShellFairSpec == ShellSpec /\ WF_controls(TwinStep)

-----------------------------------------------------------------------------
(***************************************************************************)
(* Properties.                                                             *)
(***************************************************************************)

\* "active controls refuse to run unless the device's mode is active"
\* (core/src/controls.ts:65-66): what a shell that is not armed puts on the
\* bus asks for data and tells nobody anything.  When its echo is dispatched
\* no twin takes it for news, the LCM's note that it was asked apart.
UnarmedOnlyAsks ==
  \A i \in DOMAIN own : own[i] =>
    \A d \in Registered : Mirrors(d, wire[i]) =>
      Address[d] = "LCM" /\ wire[i].cmd = "redundantDataRequest"

\* With its echo dispatched, a frame sent is what every twin that mirrors the
\* command and was not disabled shows, unless a later one has been heard: the
\* state panes show the user's own writes, also those in another module's name.
\* What is sent unarmed changes nothing that is shown.
OwnWritesAreShown ==
  /\ UnarmedOnlyAsks
  /\ (position = 0 /\ Idle) =>
       \A i \in DOMAIN own : \A d \in Registered :
         LET f == wire[i] IN
           ( /\ Mirrors(d, f) /\ i \in Range(log[d])
             /\ \A j \in (i + 1)..Len(wire) : wire[j].cmd # f.cmd )
             => Shown(d, f.cmd) = {f.val}

=============================================================================
