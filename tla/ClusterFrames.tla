--------------------------- MODULE ClusterFrames ---------------------------
(***************************************************************************)
(* The frames of the instrument cluster (ikbus-commands/src/ike) and of    *)
(* every unit (general), as layouts.  The names of a table of ids that the *)
(* parser hands on as numbers are left out.                                *)
(***************************************************************************)
EXTENDS Layouts

Ping == Fixed(1, 1, <<>>)

Pong == Fixed(2, 2, <<Flag("isAnnounce", 1, 1), Masked("variantBits", 1, 8, 32)>>)

Ignition ==
  Fixed(17, 2, <<Named("state", 1, 1, 256,
                       [s \in {"OFF", "KL_R", "KL_15", "KL_50"} |->
                          CASE s = "OFF" -> 0 [] s = "KL_R" -> 1
                            [] s = "KL_15" -> 3 [] s = "KL_50" -> 7])>>)

Gears == <<"NONE", "R", "1", "undefined", "undefined", "undefined", "2", "NEUTRAL", "D",
           "undefined", "undefined", "P", "4", "3", "5", "6">>

\* A gear that is not given is written as none.
SensorsFields ==
  <<Flag("handbrake", 1, 1), Flag("oilPressureFault", 1, 2), Flag("brakePadsWorn", 1, 4),
    Flag("transmissionFailsafe", 1, 16), Flag("engineRunning", 2, 1),
    Flag("driverDoorOpen", 2, 2),
    [Coded("gear", 2, 16, 16, Range(Gears),
           [g \in Range(Gears) |->
              IF g = "undefined" THEN 0 ELSE (CHOOSE k \in 1..16 : Gears[k] = g) - 1],
           [b \in 0..15 |-> Gears[b + 1]]) EXCEPT !.vague = {"undefined"}],
    Flag("auxHeat", 3, 4), Flag("auxVent", 3, 8)>>

\* The longer frame of the IKI, which is only read.
IKIFields ==
  <<Flag("engineFailsafe", 4, 2), Flag("injectionSystemFault", 4, 4),
    Flag("preheating", 4, 8), Flag("coolantOverheat", 4, 32), Flag("accInactive", 5, 1),
    Flag("accSensorView", 5, 2), Flag("accPleaseShift", 5, 4),
    Number("accDistance", <<5>>, 8, 4, {}), Flag("dscInactive", 6, 8), Octet("fuelLevel", 7)>>

Sensors ==
  Layout(19, {4, 8}, <<Way(4, SensorsFields)>>, SensorsFields \o IKIFields,
         {IKIFields[k].name : k \in DOMAIN IKIFields}, NoEnding)

LanguageFields ==
  <<Number("language", <<1>>, 1, 16, 0..15),
    Coded("clusterType", 1, 16, 16, {0, 48, 96, 240, 241, 256},
          [v \in {16 * k : k \in 0..15} |-> v \div 16], [b \in 0..15 |-> 16 * b]),
    Flag("time12h", 2, 1), Flag("temperatureFahrenheit", 2, 2), Flag("obcResumeAtKlR", 2, 4),
    Flag("obcSpeedCorrection", 2, 8), Flag("avgSpeedMph", 2, 16), Flag("limitMph", 2, 32),
    Flag("distanceMiles", 2, 64), Flag("arrival12h", 2, 128),
    Number("consump1", <<3>>, 1, 4, 0..3), Number("consump2", <<3>>, 4, 4, 0..3),
    Flag("rangeMiles", 3, 16), Flag("auxTimer1_12h", 3, 32), Flag("auxTimer2_12h", 3, 64),
    Flag("memoOnLCM", 3, 128), Flag("auxHeating", 4, 1), Flag("auxVentilation", 4, 2),
    Flag("motorDiesel", 4, 8), Flag("rccTime", 4, 16), Flag("auxControllerPostPU96", 4, 64)>>

\* The caller gives the options, or the four bytes.
Language ==
  LET raw == [i \in 1..4 |-> Masked("rawByte", i, 1, 256)]
  IN  Layout(21, {5}, <<Way(5, LanguageFields), Way(5, raw)>>, LanguageFields, {}, NoEnding)

\* 24 bits, the low byte first; the builder adds a tail that nobody reads.
Odometer ==
  Open(23, 4, 9, <<Number("km", <<3, 2, 1>>, 1, 16777216, 0..16777215)>>, NoEnding)

SpeedRpm ==
  Fixed(24, 3, <<Scaled("kmh", <<1>>, 256, 2, 0..1000),
                 Scaled("rpm", <<2>>, 256, 100, 0..30000)>>)

Temperature ==
  Open(25, 3, 4, <<Clamped("ambientC", 1, 1, 256, -128, 127),
                   Clamped("coolantC", 2, 1, 256, 0, 255)>>, NoEnding)

NumericClear == Fixed(68, 3, <<Named("mode", 1, 1, 256, [m \in {"clear"} |-> 32])>>)

Numeric ==
  Fixed(68, 3, <<Named("mode", 1, 1, 256,
                       [m \in {"x1m", "x1", "x100m"} |->
                          CASE m = "x1m" -> 33 [] m = "x1" -> 35 [] m = "x100m" -> 37]),
                 Decimal("value", 2, 0..99)>>)

CCMClear == Open(26, 3, 3, <<Named("kind", 1, 1, 256, [k \in {"clear"} |-> 48])>>, NoEnding)

\* Twenty characters: a longer text is cut, a shorter one padded with blanks.
CCMText ==
  Open(26, 3, 3, <<Named("kind", 1, 1, 256, [k \in {"persist"} |-> 54])>>,
       [Ending(3, 20, 255, "trimmed") EXCEPT !.cut = TRUE, !.room = 20, !.pad = 32])

OBCText == Open(36, 3, 3, <<Octet("propertyId", 1)>>, Ending(3, LongestPayload, 127, "trimmed"))

OBCStatus ==
  Fixed(42, 3, <<Flag("memo", 1, 32), Flag("timer", 1, 8), Flag("limit", 1, 2),
                 Flag("code", 2, 64), Flag("auxHeating", 2, 32), Flag("auxTimer2", 2, 16),
                 Flag("auxVentilation", 2, 8), Flag("auxTimer1", 2, 4)>>)

\* Twelve slots, the free ones VOID.
OBCRemoteConfig ==
  Layout(66, {13}, <<Way(1, <<>>)>>, <<>>, {},
         [Ending(1, 12, 255, "all") EXCEPT !.room = 12, !.pad = 255])

ClusterButton ==
  Fixed(87, 2, <<OrElse(Named("button", 1, 1, 4, [b \in {"CHECK", "STALK_BC"} |->
                                                   IF b = "CHECK" THEN 1 ELSE 2]), "unknown"),
                 Named("state", 1, 64, 2, [s \in {"press", "release"} |->
                                             IF s = "press" THEN 0 ELSE 1])>>)

\* At least one byte; the single byte 0 is the reset.
DeviceReset == Open(28, 2, 1, <<>>, [DataFrom(1) EXCEPT !.least = 1])

\* A word for each 100 km and a byte for each 10 l, the rest as it is.
Mileage(hi) == Scaled("mileageKm", <<hi, hi + 1>>, 65536, 100, -50..6553549)
Fuel(at) == Scaled("fuelLitres", <<at>>, 256, 10, -5..2554)

ReplicateData ==
  Fixed(85, 9, <<Mileage(1), Octet("tbcRaw", 3), Fuel(4), Word("oilRaw", 5),
                 Word("timeDays", 7)>>)

Digit(name, at, lo) == Number(name, <<at>>, lo, 16, 0..9)

\* The VIN is two characters and five digits, two of them to a byte.
RedundantData ==
  Fixed(84, 14, <<Octet("vin1", 1), Octet("vin2", 2), Digit("vin3", 3, 16), Digit("vin4", 3, 1),
                  Digit("vin5", 4, 16), Digit("vin6", 4, 1), Digit("vin7", 5, 16),
                  Mileage(6), Octet("tbcRaw", 8), Fuel(9), Word("oilRaw", 10),
                  Word("timeDays", 12)>>)

ClusterLayouts ==
  [ping |-> Ping, pong |-> Pong, ignition |-> Ignition, sensors |-> Sensors,
   language |-> Language, odometer |-> Odometer, speedRpm |-> SpeedRpm,
   temperature |-> Temperature, numericClear |-> NumericClear, numeric |-> Numeric,
   ccmClear |-> CCMClear, ccmText |-> CCMText, obcText |-> OBCText, obcStatus |-> OBCStatus,
   obcRemoteConfig |-> OBCRemoteConfig, clusterButton |-> ClusterButton,
   deviceReset |-> DeviceReset, replicateData |-> ReplicateData,
   redundantData |-> RedundantData]

=============================================================================
