----------------------------- MODULE UnitFrames -----------------------------
(***************************************************************************)
(* The frames of the other units (ikbus-commands/src), as layouts: first   *)
(* the body, then the board monitor, the radio and the graphics stage, the *)
(* telephone, and the navigation.  The names of a table of ids that the    *)
(* parser hands on as numbers are left out.                                *)
(***************************************************************************)
EXTENDS Layouts

Doors ==
  Open(122, 3, 3,
       <<Flag("driverDoorOpen", 1, 1), Flag("passengerDoorOpen", 1, 2),
         Flag("rearRightDoorOpen", 1, 4), Flag("rearLeftDoorOpen", 1, 8),
         Named("centralLock", 1, 16, 4,
               [s \in {"UNKNOWN", "UNLOCKED", "LOCKED", "DOUBLE_LOCKED"} |->
                  CASE s = "UNKNOWN" -> 0 [] s = "UNLOCKED" -> 1
                    [] s = "LOCKED" -> 2 [] s = "DOUBLE_LOCKED" -> 3]),
         Flag("interiorLamp", 1, 64),
         Flag("driverWindowOpen", 2, 1), Flag("passengerWindowOpen", 2, 2),
         Flag("rearRightWindowOpen", 2, 4), Flag("rearLeftWindowOpen", 2, 8),
         Flag("sunroofOpen", 2, 16), Flag("rearLidOpen", 2, 32), Flag("frontLidOpen", 2, 64),
         Flag("bootReleaseTriggered", 2, 128)>>, NoEnding)

\* An action without a code is written as 0.
RemoteKey ==
  Open(114, 2, 2,
       <<[OrElse(Named("action", 1, 16, 16, [a \in {"LOCK", "UNLOCK"} |->
                                               IF a = "LOCK" THEN 1 ELSE 2]), "UNKNOWN")
            EXCEPT !.to = [a \in {"LOCK", "UNLOCK", "UNKNOWN"} |->
                             CASE a = "LOCK" -> 1 [] a = "UNLOCK" -> 2 [] a = "UNKNOWN" -> 0]]>>,
       NoEnding)

VisualIndicators ==
  Fixed(118, 2, <<Flag("hazards", 1, 1), Flag("turnSignals", 1, 2), Flag("lowBeams", 1, 4),
                  Flag("highBeams", 1, 8), Flag("unknown", 1, 128)>>)

\* The jobs of the two families of general modules, which are only sent.
LockJob ==
  Layout(12, {}, <<Way(3, <<Octet("job", 1), Number("on", <<2>>, 1, 256, {1})>>),
                   Way(4, <<Number("zero", <<1>>, 1, 256, {0}), Octet("job", 2),
                            Number("on", <<3>>, 1, 256, {1})>>)>>, <<>>, {}, NoEnding)

LightSensor ==
  Fixed(89, 3, <<Clamped("intensity", 1, 16, 8, 0, 6), Flag("lightsOn", 1, 1),
                 Flag("TWILIGHT", 2, 1), Flag("DARKNESS", 2, 2), Flag("RAIN", 2, 4),
                 Flag("TUNNEL", 2, 8), Flag("GARAGE", 2, 16)>>)

ClusterIndicators ==
  Open(91, 2, 2, <<Flag("parking", 1, 1), Flag("lowBeam", 1, 2), Flag("highBeam", 1, 4),
                   Flag("fogFront", 1, 8), Flag("fogRear", 1, 16), Flag("turnLeft", 1, 32),
                   Flag("turnRight", 1, 64), Flag("turnRapid", 1, 128)>>, DataFrom(2))

CCMStatus ==
  Fixed(81, 2, <<Flag("brakeFluidLow", 1, 1), Flag("fastenSeatbelt", 1, 2),
                 Flag("keyInIgnition", 1, 4), Flag("washerFluidLow", 1, 16),
                 Flag("oilLevel", 1, 64)>>)

\* The builder does not look at the distances: their low bytes are written.
PDCSensors ==
  Open(160, 9, 9, <<Masked("frontLeft", 1, 1, 256), Masked("frontCenterLeft", 2, 1, 256),
                    Masked("frontCenterRight", 3, 1, 256), Masked("frontRight", 4, 1, 256),
                    Masked("rearLeft", 5, 1, 256), Masked("rearCenterLeft", 6, 1, 256),
                    Masked("rearCenterRight", 7, 1, 256), Masked("rearRight", 8, 1, 256)>>,
       NoEnding)

Truth(name, at, lo, size, meant) ==
  [Flag(name, at, lo) EXCEPT !.size = size, !.from = [b \in 0..(size - 1) |-> b \in meant],
                            !.known = 0..(size - 1)]

PDCStatus == Open(7, 2, 2, <<Truth("active", 1, 1, 256, 1..255)>>, NoEnding)

KeyStatus == Open(116, 1, 1, <<>>, [DataFrom(1) EXCEPT !.mask = TRUE])

Volume ==
  Fixed(50, 2, <<Flag("up", 1, 1), Number("steps", <<1>>, 16, 16, 1..15)>>)

\* One button and one state, each by its own bits; bits 1 and 2 mean nothing.
MFLButton ==
  LET bits == [forward |-> 1, back |-> 8, rt |-> 64, voice |-> 128]
      states == [press |-> 0, hold |-> 16, release |-> 32]
      presses == (DOMAIN bits) \X (DOMAIN states)
      low(b) == b - (b % 8) + (b % 2)
  IN  Fixed(59, 2,
        <<Coded("event", 1, 1, 256, presses, [e \in presses |-> bits[e[1]] + states[e[2]]],
                [b \in {c \in Octets : \E e \in presses : low(c) = bits[e[1]] + states[e[2]]} |->
                   CHOOSE e \in presses : low(b) = bits[e[1]] + states[e[2]]])>>)

-----------------------------------------------------------------------------

PressHoldRelease ==
  Named("state", 1, 64, 4, [s \in {"PRESS", "HOLD", "RELEASE"} |->
                              CASE s = "PRESS" -> 0 [] s = "HOLD" -> 1 [] s = "RELEASE" -> 2])

HardButton == Fixed(72, 2, <<Masked("buttonId", 1, 1, 64), PressHoldRelease>>)

SoftButton ==
  Fixed(71, 2, <<OrElse(Named("button", 1, 1, 64, [b \in {"SELECT", "INFO"} |->
                                                     IF b = "SELECT" THEN 15 ELSE 56]),
                        "UNKNOWN"), PressHoldRelease>>)

\* The second byte is there when the caller gives an encoding or an aspect.
\* An unknown source is written as the navigation.
MonitorControl ==
  LET sources == {"NAV_GT", "TV", "VM_GT", "UNKNOWN"}
      source ==
        [Coded("source", 1, 1, 4, sources,
               [s \in sources |-> CASE s = "TV" -> 1 [] s = "VM_GT" -> 2 [] OTHER -> 0],
               [b \in 0..3 |-> CASE b = 0 -> "NAV_GT" [] b = 1 -> "TV" [] b = 2 -> "VM_GT"
                                 [] b = 3 -> "UNKNOWN"]) EXCEPT !.vague = {"UNKNOWN"}]
      encodings == {"NONE", "NTSC", "PAL"}
      encoding ==
        Coded("encoding", 2, 1, 4, encodings,
              [e \in encodings |-> CASE e = "NONE" -> 0 [] e = "NTSC" -> 1 [] e = "PAL" -> 2],
              [b \in 0..3 |-> IF b % 2 = 1 THEN "NTSC" ELSE IF b = 2 THEN "PAL" ELSE "NONE"])
      aspects == {"A4_3", "A16_9", "ZOOM"}
      aspect ==
        Coded("aspect", 2, 16, 4, aspects,
              [a \in aspects |-> CASE a = "A4_3" -> 0 [] a = "A16_9" -> 1 [] a = "ZOOM" -> 3],
              [b \in 0..3 |-> CASE b = 3 -> "ZOOM" [] b = 1 -> "A16_9" [] OTHER -> "A4_3"])
      first == <<Flag("power", 1, 16), source>>
      all == first \o <<encoding, aspect>>
  IN  Layout(79, 2..LongestPayload, <<Way(3, all), Way(2, first)>>, all,
             {"encoding", "aspect"}, NoEnding)

NavDial ==
  Fixed(73, 2, <<Flag("right", 1, 128), Number("steps", <<1>>, 1, 16, 1..15)>>)

TapeLedControl == Fixed(74, 2, <<Octet("command", 1)>>)

ServiceReply == Open(6, 2, 1, <<>>, [DataFrom(1) EXCEPT !.least = 1])

\* The replies with a form of their own are only read.
ReadOnly(cmd, n, fields) == Layout(cmd, {n}, <<>>, fields, {}, NoEnding)

IdentReply ==
  ReadOnly(6, 17, [k \in 1..6 |-> Decimal("bcd", <<5, 6, 7, 8, 11, 12>>[k], 0..99)])

KeyFunctionReply ==
  ReadOnly(6, 4, <<Octet("keyByte", 1), Octet("obmSensor", 2), Octet("radioSensor", 3)>>)

BrightnessReply == ReadOnly(6, 2, <<Octet("rawByte", 1)>>)

-----------------------------------------------------------------------------

InputSource ==
  Fixed(78, 3, <<Number("source", <<1>>, 1, 2, 0..1), Masked("reserved", 2, 1, 256)>>)

TitleText ==
  Open(35, 3, 3, <<Masked("layoutByte", 1, 1, 256), Masked("optionsByte", 2, 1, 256)>>,
       [DataFrom(3) EXCEPT !.mask = TRUE])

Equaliser ==
  Fixed(54, 2, <<Coded("property", 1, 32, 8, {0, 64, 96, 128, 192, 193, 256},
                       [v \in {32 * k : k \in 0..7} |-> v \div 32], [b \in 0..7 |-> 32 * b]),
                 Number("rawValue", <<1>>, 1, 32, 0..31)>>)

\* Hiding the menu hides the two selections: the bits are the same.
ScreenMode ==
  LET hidden == SUBSET {"select", "tone", "menu"}
      hide ==
        [Coded("hide", 1, 4, 4, hidden,
               [h \in hidden |-> IF "menu" \in h THEN 3
                  ELSE (IF "select" \in h THEN 1 ELSE 0) + (IF "tone" \in h THEN 2 ELSE 0)],
               [b \in 0..3 |-> (IF b % 2 = 1 THEN {"select"} ELSE {})
                               \cup (IF b > 1 THEN {"tone"} ELSE {})
                               \cup (IF b = 3 THEN {"menu"} ELSE {})])
           EXCEPT !.kept = {{}, {"select"}, {"tone"}, {"select", "tone", "menu"}}]
      flags == <<Flag("priorityRad", 1, 1), Flag("priorityGt", 1, 2), hide>>
  IN  Layout(70, {2}, <<Way(2, flags), Way(2, <<Masked("rawByte", 1, 1, 256)>>)>>, flags, {},
             NoEnding)

ToneSelect == Open(55, 2, 2, <<Octet("controlByte", 1)>>, DataFrom(2))

SetRadioUI ==
  LET flags == <<Flag("priorityGt", 1, 1), Flag("audioObc", 1, 2), Flag("newUi", 1, 16),
                 Flag("newUiHide", 1, 128)>>
  IN  Layout(69, {2}, <<Way(2, flags), Way(2, <<Masked("rawByte", 1, 1, 256)>>)>>, flags, {},
             NoEnding)

MenuSelect == Fixed(32, 3, <<Octet("param1", 1), Octet("param2", 2)>>)

ServiceRequest == Open(5, 2, 2, <<Octet("property", 1)>>, DataFrom(2))

OBCInput == Open(64, 2, 2, <<Masked("property", 1, 1, 256)>>, [DataFrom(2) EXCEPT !.mask = TRUE])

OBCControl ==
  Open(65, 3, 3, <<Masked("property", 1, 1, 256), Flag("REQUEST_STRING", 2, 1),
                   Flag("REQUEST_BOOLEAN", 2, 2), Flag("ON_START", 2, 4),
                   Flag("OFF_STOP", 2, 8), Flag("RECALCULATE", 2, 16),
                   Flag("SET_AS_CURRENT_SPEED", 2, 32)>>, NoEnding)

MIDButton == Open(49, 2, 2, <<Masked("layoutByte", 1, 1, 256)>>, [DataFrom(2) EXCEPT !.mask = TRUE])

CDCRequest ==
  Open(56, 3, 3, <<Masked("subcommand", 1, 1, 256), Masked("param", 2, 1, 256)>>, NoEnding)

CDCStatusNames ==
  <<"STOP", "PAUSE", "PLAYING", "FAST_FWD", "FAST_REV", "NEXT_TRACK", "PREVIOUS_TRACK", "END",
    "LOADING", "MAGAZINE_CHECKING", "MAGAZINE_EJECTED">>

CDCFunctions ==
  [NOT_PLAYING |-> 2, PLAYING |-> 9, PAUSE |-> 12, SCAN_MODE |-> 25, RANDOM_MODE |-> 41]

\* The parser takes a frame without the track, and then reads 0.
CDCStatus ==
  LET fields ==
        <<OrElse(Named("status", 1, 1, 256,
                       [s \in Range(CDCStatusNames) |->
                          (CHOOSE k \in 1..11 : CDCStatusNames[k] = s) - 1]), "UNKNOWN"),
          OrElse(Named("function", 2, 1, 128, CDCFunctions), "UNKNOWN"),
          Flag("highTemp", 3, 2), Flag("noDisc", 3, 8), Flag("noMagazine", 3, 16),
          Masked("magazineMask", 4, 1, 256), Masked("disc", 6, 1, 256),
          Masked("track", 7, 1, 256)>>
  IN  Layout(57, 7..LongestPayload, <<Way(8, fields)>>, fields, {"track"}, NoEnding)

-----------------------------------------------------------------------------

TelLED ==
  LET bits == [OFF |-> 0, RED_ON |-> 1, RED_BLINK |-> 3, YELLOW_ON |-> 4,
               YELLOW_BLINK |-> 12, GREEN_ON |-> 16, GREEN_BLINK |-> 48]
  IN  Fixed(43, 2, <<OrElse(Named("state", 1, 1, 256, bits), "UNKNOWN")>>)

TelStatus ==
  Fixed(44, 2, <<Flag("handsfree", 1, 1), Flag("establishingCall", 1, 4), Flag("power", 1, 16),
                 Flag("onCall", 1, 32)>>)

TextOptions ==
  <<Number("index", <<3>>, 1, 32, 0..31), Flag("clear", 3, 32), Flag("buffer", 3, 64),
    Flag("highlight", 3, 128)>>

MenuText ==
  Open(33, 4, 4, <<Octet("layout", 1), Octet("function", 2)>> \o TextOptions, DataFrom(4))

\* A column is written one higher; 0 is read as the first column as well.
BodyText ==
  Open(165, 5, 4,
       <<Octet("layout", 1),
         Coded("offsetChars", 2, 1, 256, {-1, 0, 1, 30, 31}, [v \in 0..30 |-> v + 1],
               [b \in Octets |-> IF b > 0 THEN b - 1 ELSE 0])>> \o TextOptions, DataFrom(4))

SMSIcon ==
  Fixed(166, 3, <<Masked("reserved", 1, 1, 256), Truth("visible", 2, 1, 256, {1})>>)

DirectDial ==
  Open(45, 4, 3, <<Masked("header1", 1, 1, 256), Masked("header2", 2, 1, 256)>>,
       Ending(3, LongestPayload, 127, "terminated"))

-----------------------------------------------------------------------------

NavControl == Open(170, 2, 1, <<>>, [DataFrom(1) EXCEPT !.mask = TRUE])

ViewStatus == Fixed(171, 2, <<Flag("unknownFlag", 1, 1), Flag("navNotFocused", 1, 32)>>)

GPSTime ==
  Fixed(31, 9, <<Octet("flagsRaw", 1), Decimal("hour", 2, 0..23), Decimal("minute", 3, 0..59),
                 Decimal("day", 4, 1..31), Octet("unknownRaw", 5), Decimal("month", 6, 1..12),
                 Decimal("yearHi", 7, 0..99), Decimal("yearLo", 8, 0..99)>>)

\* Degrees, minutes, seconds, tenths and the hemisphere; then the altitude
\* and the time.  Only the sign is read from the last half byte.
Coordinate(at) ==
  [k \in 1..4 |-> Decimal("arc", at + k - 1, 0..99)] \o
  <<Number("tenths", <<at + 4>>, 16, 16, {}), Truth("negative", at + 4, 1, 16, {1})>>

Coordinates ==
  LET decimal(f) == IF f.name = "tenths" THEN [f EXCEPT !.known = 0..9] ELSE f
      places == Coordinate(2) \o Coordinate(7)
  IN  ReadOnly(162, 18, <<Truth("signal", 1, 1, 256, {1})>>
                        \o [k \in DOMAIN places |-> decimal(places[k])]
                        \o [k \in 1..5 |-> Decimal("rest", <<12, 13, 15, 16, 17>>[k], 0..99)])

\* Thirty bytes, of which the address fills at most 29.
Location ==
  Layout(164, {33}, <<Way(3, <<Masked("addressType", 2, 1, 256)>>)>>,
         <<Masked("addressType", 2, 1, 256)>>, {},
         [Ending(3, 29, 127, "terminated") EXCEPT !.room = 30])

UnitLayouts ==
  [doors |-> Doors, remoteKey |-> RemoteKey, visualIndicators |-> VisualIndicators,
   lockJob |-> LockJob, lightSensor |-> LightSensor, clusterIndicators |-> ClusterIndicators,
   ccmStatus |-> CCMStatus, pdcSensors |-> PDCSensors, pdcStatus |-> PDCStatus,
   keyStatus |-> KeyStatus, volume |-> Volume, mflButton |-> MFLButton,
   hardButton |-> HardButton, softButton |-> SoftButton, monitorControl |-> MonitorControl,
   navDial |-> NavDial, tapeLedControl |-> TapeLedControl, serviceReply |-> ServiceReply,
   identReply |-> IdentReply, keyFunctionReply |-> KeyFunctionReply,
   brightnessReply |-> BrightnessReply, inputSource |-> InputSource, titleText |-> TitleText,
   equaliser |-> Equaliser, screenMode |-> ScreenMode, toneSelect |-> ToneSelect,
   setRadioUI |-> SetRadioUI, menuSelect |-> MenuSelect, serviceRequest |-> ServiceRequest,
   obcInput |-> OBCInput, obcControl |-> OBCControl, midButton |-> MIDButton,
   cdcRequest |-> CDCRequest, cdcStatus |-> CDCStatus, telLED |-> TelLED,
   telStatus |-> TelStatus, menuText |-> MenuText, bodyText |-> BodyText, smsIcon |-> SMSIcon,
   directDial |-> DirectDial, navControl |-> NavControl, viewStatus |-> ViewStatus,
   gpsTime |-> GPSTime, coordinates |-> Coordinates, location |-> Location]

=============================================================================
