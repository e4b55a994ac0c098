----------------------------- MODULE ShellProofs -----------------------------
(***************************************************************************)
(* Proofs about the shells: the page and its connections (WebApp), its     *)
(* settings, the processes of the CLI and the panels, for any number of    *)
(* connections, any controls, any texts and any capacity of the log.       *)
(***************************************************************************)
EXTENDS WebApp, Settings, Cli, Panels, TLAPS

(***************************************************************************)
(* The page.  As long as nobody has disconnected a connection twice, the   *)
(* page shows the connection that is open or closing, and nothing while    *)
(* one opens.                                                              *)
(***************************************************************************)
OneOpening ==
  \A c, d \in Connections : link[c] = "opening" /\ link[d] = "opening" => c = d

ShownIsOpen ==
  hurried = {} =>
    \A c \in Connections :
      /\ link[c] \in {"open", "closing"} => shown = c
      /\ link[c] = "opening" => shown = NoConnection

WebInv ==
  /\ WebTypeOK
  /\ OneOpening
  /\ ShownIsOpen
  /\ PassiveMeansPassive

LEMMA WebInitInv == WebInit => WebInv
BY ConnectionsAssumption
   DEF WebInit, WebInv, WebTypeOK, OneOpening, ShownIsOpen, PassiveMeansPassive

LEMMA WebStepInv == WebInv /\ [WebNext]_web => WebInv'
<1> SUFFICES ASSUME WebInv, [WebNext]_web PROVE WebInv'
  OBVIOUS
<1> USE ConnectionsAssumption
    DEF WebInv, WebTypeOK, OneOpening, ShownIsOpen, PassiveMeansPassive
<1>1. ASSUME NEW c \in Connections, NEW p \in {"ikbus", "dbus"}, Connect(c, p) PROVE WebInv'
  BY <1>1 DEF Connect
<1>2. ASSUME NEW c \in Connections, Opened(c) PROVE WebInv'
  <2>1. WebTypeOK' /\ OneOpening'
    BY <1>2 DEF Opened, Kept, ModeAtStart
  <2>2. ShownIsOpen'
    BY <1>2 DEF Opened, Kept
  <2>3. PassiveMeansPassive'
    BY <1>2 DEF Opened, Kept, ModeAtStart
  <2> QED
    BY <2>1, <2>2, <2>3
<1>3. ASSUME NEW c \in Connections, OpenFailed(c) PROVE WebInv'
  BY <1>3 DEF OpenFailed
<1>4. ASSUME NEW c \in Connections, Unplugged(c) PROVE WebInv'
  BY <1>4 DEF Unplugged
<1>5. ASSUME NEW c \in Connections, Closed(c) PROVE WebInv'
  BY <1>5 DEF Closed, ShownAfterClose
<1>6. CASE Disconnect
  BY <1>6 DEF Disconnect
<1>7. CASE DisconnectAgain
  BY <1>7 DEF DisconnectAgain
<1>8. CASE ToggleActive
  <2>1. WebTypeOK' /\ OneOpening' /\ ShownIsOpen'
    BY <1>8 DEF ToggleActive, ModesAfterToggle
  <2>2. PassiveMeansPassive'
    BY <1>8 DEF ToggleActive, ModesAfterToggle
  <2> QED
    BY <2>1, <2>2
<1>9. CASE Reload
  BY <1>9 DEF Reload
<1>10. CASE UNCHANGED web
  BY <1>10 DEF web
<1> QED
  BY <1>1, <1>2, <1>3, <1>4, <1>5, <1>6, <1>7, <1>8, <1>9, <1>10 DEF WebNext

LEMMA WebInvariant == WebFairSpec => []WebInv
<1> QED
  BY WebInitInv, WebStepInv, PTL DEF WebFairSpec

\* No port stays open without a toolbar that can close it, unless a connection
\* was disconnected twice (App.svelte:53-61).
THEOREM PortsHaveToolbars == WebFairSpec => []NoOrphanPort
<1>1. WebInv => NoOrphanPort
  BY DEF WebInv, ShownIsOpen, NoOrphanPort
<1> QED
  BY <1>1, WebInvariant, PTL

\* The twins of every connection are in the mode the page shows
\* (App.svelte:66-68, 87-92).
THEOREM TwinsFollowTheSwitch == WebFairSpec => []PassiveMeansPassive
<1>1. WebInv => PassiveMeansPassive
  BY DEF WebInv
<1> QED
  BY <1>1, WebInvariant, PTL

\* The link of every connection is one the page knows, and the one shown is
\* open (App.svelte:41-92).
THEOREM WebIsTyped == WebFairSpec => []WebTypeOK
<1>1. WebInv => WebTypeOK
  BY DEF WebInv
<1> QED
  BY <1>1, WebInvariant, PTL

-----------------------------------------------------------------------------
(***************************************************************************)
(* The settings.                                                           *)
(***************************************************************************)
SettingsInv == SettingsTypeOK /\ ChoicesHold

LEMMA RecordIsLoaded == SettingsTypeOK => Loaded \in Configs
BY DEF SettingsTypeOK, Loaded, DefaultConfig, Configs, Logging, Levels, Themes

LEMMA DefaultIsARecord ==
  /\ DefaultConfig \in Configs
  /\ DefaultConfig.logging \in Logging
  /\ DefaultConfig.theme = "system"
BY DEF DefaultConfig, Configs, Logging, Levels, Themes

LEMMA SettingsInitInv == SettingsInit => SettingsInv
<1> SUFFICES ASSUME SettingsInit PROVE SettingsInv
  OBVIOUS
<1>1. /\ config \in Configs
      /\ config.logging \in Logging
      /\ config.theme = "system"
  BY DefaultIsARecord DEF SettingsInit
<1>2. works <=> stored # Nothing
  BY <1>1, NothingAssumption DEF SettingsInit
<1>3. stored \in Configs \cup {Nothing}
  BY <1>1 DEF SettingsInit
<1>4. SettingsTypeOK
  BY <1>1, <1>2, <1>3 DEF SettingsInit, SettingsTypeOK, Themes
<1>5. ChoicesHold
  BY <1>1 DEF SettingsInit, ChoicesHold, DialogKeepsTheRest, Painted
<1> QED
  BY <1>4, <1>5 DEF SettingsInv

LEMMA SettingsStepInv == SettingsInv /\ [SettingsNext]_settings => SettingsInv'
<1> SUFFICES ASSUME SettingsInv, [SettingsNext]_settings PROVE SettingsInv'
  OBVIOUS
<1>0. SettingsTypeOK /\ ChoicesHold /\ Loaded \in Configs
  BY RecordIsLoaded DEF SettingsInv
<1> USE NothingAssumption, <1>0
    DEF SettingsInv, SettingsTypeOK, ChoicesHold, DialogKeepsTheRest, Save
<1>1. CASE ReloadPage
  <2>1. SettingsTypeOK'
    BY <1>1, ZenonT(30) DEF ReloadPage, Painted, Configs, DefaultConfig, Logging, Levels, Themes
  <2>2. ChoicesHold'
    BY <1>1 DEF ReloadPage, Loaded
  <2> QED
    BY <2>1, <2>2
<1>2. CASE ChangeConfig
  <2>1. SettingsTypeOK'
    BY <1>2 DEF ChangeConfig, Configs
  <2>2. ChoicesHold'
    BY <1>2 DEF ChangeConfig, Configs
  <2> QED
    BY <2>1, <2>2
<1>3. CASE OpenDialog
  BY <1>3 DEF OpenDialog, Loaded, Configs
<1>4. CASE CloseDialog
  <2>1. SettingsTypeOK'
    BY <1>4 DEF CloseDialog
  <2>2. ChoicesHold'
    BY <1>4 DEF CloseDialog
  <2> QED
    BY <2>1, <2>2
<1>5. ASSUME NEW theme \in Themes, PickTheme(theme) PROVE SettingsInv'
  <2>1. SettingsTypeOK'
    BY <1>5 DEF PickTheme, WithTheme, Painted, Configs, Themes
  <2>2. ChoicesHold'
    BY <1>5 DEF PickTheme, WithTheme, Loaded, Configs
  <2> QED
    BY <2>1, <2>2
<1>6. ASSUME NEW next \in Logging, PickLogging(next) PROVE SettingsInv'
  <2>1. SettingsTypeOK'
    BY <1>6 DEF PickLogging, WithLogging, Configs
  <2>2. ChoicesHold'
    BY <1>6 DEF PickLogging, WithLogging, Loaded, Configs
  <2> QED
    BY <2>1, <2>2
<1>7. ASSUME NEW preference \in {"light", "dark"}, PreferenceChanges(preference)
      PROVE  SettingsInv'
  BY <1>7 DEF PreferenceChanges, Followed, Loaded, Painted
<1>8. CASE UNCHANGED settings
  BY <1>8 DEF settings
<1> QED
  BY <1>1, <1>2, <1>3, <1>4, <1>5, <1>6, <1>7, <1>8 DEF SettingsNext

\* What was chosen is stored, shown and followed, and the dialog leaves the
\* page's own settings alone, until the page stores its older copy
\* (settings-theme.ts:77-88, App.svelte:36-38).
THEOREM SettingsAreKept == SettingsSpec => []ChoicesHold
<1>1. SettingsInv => ChoicesHold
  BY DEF SettingsInv
<1> QED
  BY <1>1, SettingsInitInv, SettingsStepInv, PTL DEF SettingsSpec

\* What is configured and stored is always a whole record, whatever parts of it
\* the page and the dialog set, and it is stored from the start on where the
\* browser stores at all (settings-theme.ts:57-88).
THEOREM SettingsAreTyped == SettingsSpec => []SettingsTypeOK
<1>1. SettingsInv => SettingsTypeOK
  BY DEF SettingsInv
<1> QED
  BY <1>1, SettingsInitInv, SettingsStepInv, PTL DEF SettingsSpec

-----------------------------------------------------------------------------
(***************************************************************************)
(* The processes of the CLI.  A close is awaited by one stop(), and an     *)
(* invoke awaits it with the outcome of its control.  While a process lives*)
(* its error is that of its control, and only TuiRoot's stop() has failed. *)
(***************************************************************************)
OneStop ==
  /\ stopper = "nobody" <=> port # "closing"
  /\ stopper = "TuiRoot" => command = "tui"
  /\ mounted => port # "closing"
  /\ stage = "picker" => port = "closed"

InvokeStops ==
  /\ stage = "invoking" => command = "invoke"
  /\ outcome # "none" => command = "invoke"
  /\ command = "invoke" =>
       /\ stage \in {"starting", "invoking", "stopping", "exited"}
       /\ stage \in {"starting", "invoking"} => port # "closing" /\ outcome = "none"
       /\ stage = "stopping" => port = "closing" /\ outcome # "none"

ErrorInv ==
  stage # "exited" =>
    /\ rejected => command = "tui"
    /\ error = IF outcome = "failed" THEN "control" ELSE "none"

CliInv == CliTypeOK /\ OneStop /\ InvokeStops /\ ErrorInv /\ EndsClosed

CliRanges ==
  /\ command \in {"monitor", "invoke", "tui"}
  /\ stage \in Stages
  /\ port \in {"closed", "opening", "open", "closing"}
  /\ stopper \in {"nobody", "command", "TuiRoot"}
  /\ outcome \in {"none", "ok", "failed"}
  /\ error \in {"none", "start", "control", "stop"}

CliFlags ==
  /\ started \in BOOLEAN /\ mounted \in BOOLEAN /\ session \in BOOLEAN
  /\ urgent \in BOOLEAN /\ rejected \in BOOLEAN

MountedIsTui == mounted => command = "tui" /\ stage \notin {"stopping", "exited"}

LEMMA CliTypeParts == CliTypeOK <=> CliRanges /\ CliFlags /\ MountedIsTui
BY DEF CliTypeOK, CliRanges, CliFlags, MountedIsTui

LEMMA CliInitInv == CliInit => CliInv
<1> SUFFICES ASSUME CliInit PROVE CliInv
  OBVIOUS
<1>1. CliTypeOK
  <2>1. CliRanges
    BY DEF CliInit, CliRanges, Stages
  <2>2. CliFlags
    BY DEF CliInit, CliFlags
  <2>3. MountedIsTui
    BY DEF CliInit, MountedIsTui
  <2> QED
    BY <2>1, <2>2, <2>3, CliTypeParts
<1>2. OneStop /\ InvokeStops /\ ErrorInv /\ EndsClosed
  BY DEF CliInit, OneStop, InvokeStops, ErrorInv, EndsClosed
<1> QED
  BY <1>1, <1>2 DEF CliInv

LEMMA CliStepInv == CliInv /\ [CliNext]_cli => CliInv'
<1> SUFFICES ASSUME CliInv, [CliNext]_cli PROVE CliInv'
  OBVIOUS
<1>0. CliTypeOK /\ OneStop /\ InvokeStops /\ ErrorInv /\ EndsClosed
  BY DEF CliInv
<1>a. CliTypeOK' /\ OneStop' /\ InvokeStops' /\ ErrorInv' /\ EndsClosed' => CliInv'
  BY DEF CliInv
<1> USE <1>0
    DEF CliTypeOK, Stages, OneStop, InvokeStops, ErrorInv, EndsClosed,
        ErrorTellsOutcome, Alive
<1>1. CASE PickPort
  <2>1. CliTypeOK'
    BY <1>1 DEF PickPort
  <2>2. OneStop'
    BY <1>1 DEF PickPort
  <2>3. InvokeStops' /\ ErrorInv' /\ EndsClosed'
    BY <1>1 DEF PickPort
  <2> QED
    BY <1>a, <2>1, <2>2, <2>3
<1>2. CASE PortOpens
  <2>1. CliTypeOK'
    BY <1>2 DEF PortOpens, AwaitClose
  <2>2. OneStop'
    BY <1>2 DEF PortOpens, AwaitClose
  <2>3. InvokeStops' /\ ErrorInv' /\ EndsClosed'
    BY <1>2 DEF PortOpens, AwaitClose
  <2> QED
    BY <1>a, <2>1, <2>2, <2>3
<1>3. CASE PortFails
  <2>1. CliTypeOK'
    BY <1>3 DEF PortFails
  <2>2. OneStop'
    BY <1>3 DEF PortFails
  <2>3. InvokeStops' /\ ErrorInv' /\ EndsClosed'
    BY <1>3 DEF PortFails
  <2> QED
    BY <1>a, <2>1, <2>2, <2>3
<1>4. CASE Unplug
  <2>1. CliTypeOK'
    BY <1>4 DEF Unplug
  <2>2. OneStop'
    BY <1>4 DEF Unplug
  <2>3. InvokeStops' /\ ErrorInv' /\ EndsClosed'
    BY <1>4 DEF Unplug
  <2> QED
    BY <1>a, <2>1, <2>2, <2>3
<1>5. CASE SignalMonitor
  <2>1. CliTypeOK'
    <3>1. CliRanges'
      BY <1>5 DEF CliRanges, SignalMonitor, AwaitClose, AfterStopCall
    <3>2. CliFlags'
      BY <1>5 DEF CliFlags, SignalMonitor, AwaitClose, AfterStopCall
    <3>3. MountedIsTui'
      BY <1>5 DEF MountedIsTui, SignalMonitor, AwaitClose, AfterStopCall
    <3> QED
      BY <3>1, <3>2, <3>3 DEF CliRanges, CliFlags, MountedIsTui
  <2>2. OneStop'
    BY <1>5 DEF SignalMonitor, AwaitClose, AfterStopCall
  <2>3. InvokeStops' /\ ErrorInv' /\ EndsClosed'
    BY <1>5 DEF SignalMonitor, AwaitClose, AfterStopCall
  <2> QED
    BY <1>a, <2>1, <2>2, <2>3
<1>6. ASSUME NEW result \in {"ok", "failed"}, InvokeEnds(result) PROVE CliInv'
  <2>1. CliTypeOK'
    <3>1. CliRanges'
      BY <1>6 DEF CliRanges, InvokeEnds, ErrorOf, AwaitClose, AfterStopCall
    <3>2. CliFlags'
      BY <1>6 DEF CliFlags, InvokeEnds, ErrorOf, AwaitClose, AfterStopCall
    <3>3. MountedIsTui'
      BY <1>6 DEF MountedIsTui, InvokeEnds, ErrorOf, AwaitClose, AfterStopCall
    <3> QED
      BY <3>1, <3>2, <3>3 DEF CliRanges, CliFlags, MountedIsTui
  <2>2. OneStop'
    BY <1>6 DEF InvokeEnds, ErrorOf, AwaitClose, AfterStopCall
  <2>3. InvokeStops' /\ ErrorInv' /\ EndsClosed'
    BY <1>6 DEF InvokeEnds, ErrorOf, AwaitClose, AfterStopCall
  <2> QED
    BY <1>a, <2>1, <2>2, <2>3
<1>7. CASE Leave
  <2>1. CliTypeOK'
    <3>1. CliRanges'
      BY <1>7 DEF CliRanges, Leave, StopSession, AwaitClose
    <3>2. CliFlags'
      BY <1>7 DEF CliFlags, Leave, StopSession, AwaitClose
    <3>3. MountedIsTui'
      BY <1>7 DEF MountedIsTui, Leave, StopSession, AwaitClose
    <3> QED
      BY <3>1, <3>2, <3>3 DEF CliRanges, CliFlags, MountedIsTui
  <2>2. OneStop'
    BY <1>7 DEF Leave, StopSession, AwaitClose
  <2>3. InvokeStops' /\ ErrorInv' /\ EndsClosed'
    BY <1>7 DEF Leave, StopSession, AwaitClose
  <2> QED
    BY <1>a, <2>1, <2>2, <2>3
<1>8. CASE TuiEnds
  <2>1. CliTypeOK'
    BY <1>8 DEF TuiEnds
  <2>2. OneStop'
    BY <1>8 DEF TuiEnds
  <2>3. InvokeStops' /\ ErrorInv' /\ EndsClosed'
    BY <1>8 DEF TuiEnds
  <2> QED
    BY <1>a, <2>1, <2>2, <2>3
<1>9. CASE PortCloses
  <2>1. CliTypeOK'
    <3>1. CliRanges'
      BY <1>9 DEF CliRanges, PortCloses
    <3>2. CliFlags'
      BY <1>9 DEF CliFlags, PortCloses
    <3>3. MountedIsTui'
      BY <1>9 DEF MountedIsTui, PortCloses
    <3> QED
      BY <3>1, <3>2, <3>3 DEF CliRanges, CliFlags, MountedIsTui
  <2>2. OneStop'
    BY <1>9 DEF PortCloses
  <2>3. InvokeStops' /\ ErrorInv' /\ EndsClosed'
    BY <1>9 DEF PortCloses
  <2> QED
    BY <1>a, <2>1, <2>2, <2>3
<1>10. CASE CloseFails
  <2>1. CliTypeOK'
    <3>1. CliRanges'
      BY <1>10 DEF CliRanges, CloseFails, EndsWithStop
    <3>2. CliFlags'
      BY <1>10 DEF CliFlags, CloseFails, EndsWithStop
    <3>3. MountedIsTui'
      BY <1>10 DEF MountedIsTui, CloseFails, EndsWithStop
    <3> QED
      BY <3>1, <3>2, <3>3 DEF CliRanges, CliFlags, MountedIsTui
  <2>2. OneStop'
    BY <1>10 DEF CloseFails, EndsWithStop
  <2>3. InvokeStops' /\ ErrorInv' /\ EndsClosed'
    BY <1>10 DEF CloseFails, EndsWithStop
  <2> QED
    BY <1>a, <2>1, <2>2, <2>3
<1>11. CASE UNCHANGED cli
  <2>1. CliTypeOK'
    BY <1>11 DEF cli
  <2>2. OneStop'
    BY <1>11 DEF cli
  <2>3. InvokeStops' /\ ErrorInv' /\ EndsClosed'
    BY <1>11 DEF cli
  <2> QED
    BY <1>a, <2>1, <2>2, <2>3
<1> QED
  BY <1>1, <1>2, <1>3, <1>4, <1>5, <1>6, <1>7, <1>8, <1>9, <1>10, <1>11
  DEF CliNext

\* A process ends with its port closed unless the close itself failed, and the
\* error it ends with tells what its control and its stop() did, in any order of
\* signals, keys, closings and errors (launch.ts:85-89, TuiRoot.tsx:37-44,
\* invoke.ts:97-108, monitor.ts:100-108).
THEOREM ProcessesEndClosed == CliFairSpec => []EndsClosed
<1>1. CliInv => EndsClosed
  BY DEF CliInv
<1> QED
  BY <1>1, CliInitInv, CliStepInv, PTL DEF CliFairSpec

\* A process never awaits more than one stop, and only the TUI is ever mounted
\* and no longer than until it stops (launch.ts:85-104).
THEOREM ProcessesAreTyped == CliFairSpec => []CliTypeOK
<1>1. CliInv => CliTypeOK
  BY DEF CliInv
<1> QED
  BY <1>1, CliInitInv, CliStepInv, PTL DEF CliFairSpec

-----------------------------------------------------------------------------
(***************************************************************************)
(* The panels.                                                             *)
(***************************************************************************)
LEMMA TailIsShifted ==
  ASSUME NEW S, NEW s \in Seq(S), s # <<>>
  PROVE  /\ Tail(s) \in Seq(S) /\ Tail(s) # s
         /\ \A i \in DOMAIN Tail(s) : i + 1 \in DOMAIN s /\ Tail(s)[i] = s[i + 1]
         /\ Head(s) \in S /\ Head(s) = s[1] /\ 1 \in DOMAIN s
<1>1. Len(s) \in Nat \ {0}
  OBVIOUS
<1>2. Tail(s) \in Seq(S) /\ Len(Tail(s)) = Len(s) - 1
  BY <1>1
<1>3. Tail(s) # s
  <2>1. ASSUME NEW l \in Nat, NEW t, t = l - 1 PROVE t # l
    BY <2>1
  <2>2. Len(Tail(s)) # Len(s)
    BY <1>1, <1>2, <2>1, Zenon
  <2> QED
    BY <2>2, Zenon
<1>4. \A i \in DOMAIN Tail(s) : i + 1 \in DOMAIN s /\ Tail(s)[i] = s[i + 1]
  BY <1>1, <1>2
<1>5. 1 \in DOMAIN s /\ s[1] \in S /\ Head(s) = s[1]
  BY <1>1
<1> QED
  BY <1>2, <1>3, <1>4, <1>5

LEMMA AppendIsLonger ==
  ASSUME NEW S, NEW s \in Seq(S), NEW e \in S, s # <<>>
  PROVE  Append(s, e) # Tail(s)
<1>1. Len(s) \in Nat \ {0}
  OBVIOUS
<1>2. Len(Tail(s)) = Len(s) - 1
  BY <1>1
<1>3. Len(Append(s, e)) = Len(s) + 1
  OBVIOUS
<1>4. ASSUME NEW l \in Nat, NEW a, NEW t, a = l + 1, t = l - 1
      PROVE  a # t
  BY <1>4
<1>5. Len(Append(s, e)) # Len(Tail(s))
  BY <1>1, <1>2, <1>3, <1>4, Zenon
<1> QED
  BY <1>5, Zenon

LEMMA AppendHasBoth ==
  ASSUME NEW S, NEW s \in Seq(S), NEW e \in S
  PROVE  /\ Append(s, e) \in Seq(S)
         /\ \A i \in DOMAIN Append(s, e) :
              \/ i \in DOMAIN s /\ Append(s, e)[i] = s[i]
              \/ Append(s, e)[i] = e
OBVIOUS

\* The log stays the newest entries when one is appended.
LEMMA LogStaysNewest ==
  ASSUME log \in Seq(Nat), entries \in Nat, LogIsNewest, Note
  PROVE  log' \in Seq(Nat) /\ entries' \in Nat /\ LogIsNewest'
<1> DEFINE kept == IF Len(log) >= LogCapacity
                   THEN SubSeq(log, Len(log) - LogCapacity + 2, Len(log)) ELSE log
<1>0. LogCapacity \in Nat /\ LogCapacity >= 2 /\ Len(log) \in Nat
  BY LogCapacityAssumption
<1>1. entries' = entries + 1 /\ log' = Append(kept, entries + 1)
  BY DEF Note, AppendLog
<1>2. /\ Len(log) = IF entries < LogCapacity THEN entries ELSE LogCapacity
      /\ \A i \in 1..Len(log) : log[i] = entries - Len(log) + i
  BY DEF LogIsNewest, Least
<1>3. /\ kept \in Seq(Nat)
      /\ Len(kept) = IF entries < LogCapacity THEN entries ELSE LogCapacity - 1
      /\ \A i \in 1..Len(kept) : kept[i] = entries - Len(kept) + i
  <2>1. CASE entries < LogCapacity
    <3>1. kept = log
      BY <1>0, <1>2, <2>1
    <3> HIDE DEF kept
    <3>2. Len(log) = entries
      BY <1>2, <2>1
    <3> QED
      BY <3>1, <3>2, <1>2, <2>1
  <2>2. CASE ~(entries < LogCapacity)
    <3>1. Len(log) = LogCapacity
      BY <1>2, <2>2
    <3>2. kept = SubSeq(log, 2, LogCapacity)
      BY <3>1, <1>0
    <3>3. kept \in Seq(Nat) /\ Len(kept) = LogCapacity - 1
      BY <3>1, <3>2, <1>0
    <3>4. \A i \in 1..Len(kept) : kept[i] = log[i + 1] /\ i + 1 \in 1..Len(log)
      BY <3>1, <3>2, <3>3, <1>0
    <3> QED
      BY <3>1, <3>3, <3>4, <1>0, <1>2, <2>2, SMTT(30)
  <2> QED
    BY <2>1, <2>2
<1> HIDE DEF kept
<1>4. /\ log' \in Seq(Nat) /\ Len(log') = Len(kept) + 1
      /\ \A i \in 1..Len(log') : log'[i] = IF i = Len(kept) + 1 THEN entries + 1 ELSE kept[i]
  BY <1>1, <1>3
<1>5. Len(log') = IF entries' < LogCapacity THEN entries' ELSE LogCapacity
  BY <1>0, <1>1, <1>3, <1>4
<1>6. ASSUME NEW i \in 1..Len(log')
      PROVE  log'[i] = entries' - Len(log') + i
  <2>0. Len(kept) \in Nat /\ i \in Nat /\ i \in 1..(Len(kept) + 1)
    BY <1>3, <1>4
  <2>1. CASE i = Len(kept) + 1
    BY <1>1, <1>4, <2>0, <2>1
  <2>2. CASE i # Len(kept) + 1
    <3>1. i \in 1..Len(kept)
      BY <2>0, <2>2
    <3>2. log'[i] = entries - Len(kept) + i
      BY <1>3, <1>4, <2>2, <3>1
    <3> QED
      BY <1>1, <1>4, <2>0, <3>2
  <2> QED
    BY <2>1, <2>2
<1>7. DOMAIN log' = 1..Len(log')
  BY <1>4
<1> QED
  BY <1>1, <1>4, <1>5, <1>6, <1>7, SMTT(30) DEF LogIsNewest, Least

\* The command bar: what a send was given is still in its input, unless the
\* user has typed since or an earlier send has emptied it.
Send == [mode : Modes, text : Texts]

BarInv ==
  /\ text \in [Modes -> Texts]
  /\ sends \in Seq(Send) /\ frames \in Seq(Int)
  /\ FramesHaveCommands
  /\ \A i \in DOMAIN sends :
       text[sends[i].mode] \in {sends[i].text, <<>>} \/ sends[i].mode \in typed

LogInv == log \in Seq(Nat) /\ entries \in Nat /\ LogIsNewest

SelectionInv ==
  /\ device \in DOMAIN Controls /\ control \in Nat
  /\ armed \in BOOLEAN /\ twinModes = armed
  /\ SelectionInRange
  /\ GateSeesModes

PanelsInv == BarInv /\ LogInv /\ SelectionInv

LEMMA ControlsAreLists ==
  /\ DOMAIN Controls = 1..Len(Controls) /\ Len(Controls) \in Nat \ {0}
  /\ \A d \in DOMAIN Controls :
       /\ DOMAIN Controls[d] = 1..Len(Controls[d]) /\ Len(Controls[d]) \in Nat
       /\ Controls[d] # <<>> => Len(Controls[d]) >= 1
BY ControlsAssumption

LEMMA PanelsInitInv == PanelsInit => PanelsInv
<1> SUFFICES ASSUME PanelsInit PROVE PanelsInv
  OBVIOUS
<1>1. BarInv
  BY TextsAssumption DEF PanelsInit, BarInv, FramesHaveCommands, Modes
<1>2. LogInv
  BY LogCapacityAssumption DEF PanelsInit, LogInv, LogIsNewest, Least
<1>3. SelectionInv
  <2>1. device \in DOMAIN Controls /\ device = 1 /\ control = 1
    BY ControlsAreLists DEF PanelsInit
  <2>2. SelectionInRange
    BY <2>1, ControlsAreLists DEF SelectionInRange
  <2>3. GateSeesModes
    BY DEF PanelsInit, GateSeesModes, NothingInvoked
  <2>4. control \in Nat /\ armed \in BOOLEAN /\ twinModes = armed
    BY DEF PanelsInit
  <2> QED
    BY <2>1, <2>2, <2>3, <2>4 DEF SelectionInv
<1> QED
  BY <1>1, <1>2, <1>3 DEF PanelsInv

LEMMA SendsAreRecords ==
  ASSUME BarInv, NEW i \in DOMAIN sends
  PROVE  sends[i].mode \in Modes /\ sends[i].text \in Texts
<1>1. sends[i] \in Send
  BY DEF BarInv
<1> QED
  BY <1>1 DEF Send

LEMMA PressKeepsBar ==
  ASSUME BarInv, NEW m \in Modes, Press(m)
  PROVE  BarInv'
<1>1. CASE UNCHANGED <<text, sends, frames, typed>>
  BY <1>1 DEF BarInv, FramesHaveCommands
<1>2. CASE /\ Parses(text[m]) /\ LongEnough(m, text[m])
           /\ sends' = Append(sends, [mode |-> m, text |-> text[m]])
           /\ frames' = Append(frames, Payload(m, text[m]))
           /\ UNCHANGED <<text, typed>>
  <2>1. text[m] \in Texts /\ text[m] \in Seq(DOMAIN IsByte)
    BY TextsAssumption DEF BarInv
  <2>2. Payload(m, text[m]) \in Int /\ Payload(m, text[m]) >= 1
    <3>1. Len(text[m]) \in Nat /\ Len(text[m]) >= 1
      BY <1>2, <2>1 DEF Parses
    <3> QED
      BY <1>2, <3>1 DEF LongEnough, Payload
  <2>3. frames' \in Seq(Int) /\ FramesHaveCommands'
    BY <1>2, <2>2, AppendHasBoth DEF BarInv, FramesHaveCommands
  <2>4. [mode |-> m, text |-> text[m]] \in Send
    BY <2>1 DEF Send
  <2>5. /\ sends' \in Seq(Send)
        /\ \A i \in DOMAIN sends' :
             \/ i \in DOMAIN sends /\ sends'[i] = sends[i]
             \/ sends'[i] = [mode |-> m, text |-> text[m]]
    BY <1>2, <2>4, AppendHasBoth DEF BarInv
  <2>6. \A i \in DOMAIN sends' :
          text[sends'[i].mode] \in {sends'[i].text, <<>>} \/ sends'[i].mode \in typed
    BY <2>5, SMTT(30) DEF BarInv
  <2> QED
    BY <1>2, <2>3, <2>5, <2>6 DEF BarInv
<1> QED
  BY <1>1, <1>2 DEF Press

LEMMA BarStepInv == BarInv /\ [PanelsNext]_panels => BarInv'
<1> SUFFICES ASSUME BarInv, [PanelsNext]_panels PROVE BarInv'
  OBVIOUS
<1>1. CASE UNCHANGED bar
  BY <1>1 DEF bar, BarInv, FramesHaveCommands
<1>2. ASSUME NEW m \in Modes, Press(m) PROVE BarInv'
  BY <1>2, PressKeepsBar
<1>3. ASSUME NEW m \in Modes, NEW t \in Texts, Type(m, t) PROVE BarInv'
  <2>1. text' \in [Modes -> Texts]
    BY <1>3 DEF Type, BarInv
  <2>2. \A i \in DOMAIN sends : sends[i] \in Send
    BY DEF BarInv
  <2>3. ASSUME NEW i \in DOMAIN sends
        PROVE  text'[sends[i].mode] \in {sends[i].text, <<>>} \/ sends[i].mode \in typed'
    <3>1. CASE sends[i].mode = m
      BY <1>3, <3>1 DEF Type
    <3>2. CASE sends[i].mode # m
      BY <1>3, <2>2, <3>2 DEF Type, BarInv, Send
    <3> QED
      BY <3>1, <3>2
  <2> QED
    BY <1>3, <2>1, <2>3 DEF Type, BarInv, FramesHaveCommands
<1>4. CASE SendDone
  <2>1. Head(sends).mode \in Modes
    <3>1. 1 \in DOMAIN sends /\ Head(sends) = sends[1]
      BY <1>4, TailIsShifted DEF SendDone, BarInv
    <3> QED
      BY <3>1, SendsAreRecords
  <2>2. text' \in [Modes -> Texts]
    BY <1>4, <2>1, TextsAssumption DEF SendDone, Emptied, BarInv
  <2>3. /\ sends' \in Seq(Send)
        /\ \A i \in DOMAIN sends' : i + 1 \in DOMAIN sends /\ sends'[i] = sends[i + 1]
    BY <1>4, TailIsShifted DEF SendDone, BarInv
  <2>4. \A j \in DOMAIN sends : sends[j].mode \in Modes
    BY SendsAreRecords
  <2>5. ASSUME NEW i \in DOMAIN sends'
        PROVE  text'[sends'[i].mode] \in {sends'[i].text, <<>>} \/ sends'[i].mode \in typed'
    <3>1. PICK j \in DOMAIN sends : sends'[i] = sends[j]
      BY <2>3
    <3>2. CASE sends[j].mode = Head(sends).mode
      BY <1>4, <2>1, <3>1, <3>2 DEF SendDone, Emptied, BarInv
    <3>3. CASE sends[j].mode # Head(sends).mode
      BY <1>4, <2>1, <2>4, <3>1, <3>3 DEF SendDone, Emptied, BarInv
    <3> QED
      BY <3>2, <3>3
  <2> QED
    BY <1>4, <2>2, <2>3, <2>5 DEF SendDone, BarInv, FramesHaveCommands
<1>5. CASE SendFailed
  <2>1. /\ sends' \in Seq(Send)
        /\ \A i \in DOMAIN sends' : i + 1 \in DOMAIN sends /\ sends'[i] = sends[i + 1]
    BY <1>5, TailIsShifted DEF SendFailed, BarInv
  <2>2. \A i \in DOMAIN sends' :
          text[sends'[i].mode] \in {sends'[i].text, <<>>} \/ sends'[i].mode \in typed
    BY <2>1 DEF BarInv
  <2> QED
    BY <1>5, <2>1, <2>2 DEF SendFailed, BarInv, FramesHaveCommands
<1>6. SelectionNext \/ UNCHANGED panels => UNCHANGED bar
  BY DEF SelectionNext, Tab, SelectDevice, SelectControl, Arm, Invoke, panels, bar
<1> QED
  BY <1>1, <1>2, <1>3, <1>4, <1>5, <1>6 DEF PanelsNext, BarNext

LEMMA LogStepInv == LogInv /\ [PanelsNext]_panels => LogInv'
<1> SUFFICES ASSUME LogInv, [PanelsNext]_panels PROVE LogInv'
  OBVIOUS
<1>1. UNCHANGED <<log, entries>> \/ Note
  BY DEF PanelsNext, BarNext, Press, Type, SendDone, SendFailed, SelectionNext, Tab,
         SelectDevice, SelectControl, Arm, Invoke, panels, logged
<1>2. CASE UNCHANGED <<log, entries>>
  BY <1>2 DEF LogInv, LogIsNewest
<1>3. CASE Note
  BY <1>3, LogStaysNewest DEF LogInv
<1> QED
  BY <1>1, <1>2, <1>3

LEMMA SelectionStepInv == SelectionInv /\ [PanelsNext]_panels => SelectionInv'
<1> SUFFICES ASSUME SelectionInv, [PanelsNext]_panels PROVE SelectionInv'
  OBVIOUS
<1>1. CASE UNCHANGED selection
  BY <1>1 DEF selection, SelectionInv, SelectionInRange, GateSeesModes
<1>2. CASE Tab
  BY <1>2 DEF Tab, SelectionInv, SelectionInRange, GateSeesModes
<1>3. CASE SelectDevice
  <2>1. device' \in DOMAIN Controls /\ control' = 1
    BY ControlsAreLists, <1>3 DEF SelectDevice, FirstControl, Most, Least, SelectionInv
  <2> QED
    BY ControlsAreLists, <1>3, <2>1 DEF SelectDevice, SelectionInv, SelectionInRange, GateSeesModes
<1>4. CASE SelectControl
  <2>1. control' \in Nat /\ SelectionInRange'
    BY ControlsAreLists, <1>4 DEF SelectControl, Most, Least, SelectionInv, SelectionInRange
  <2> QED
    BY <1>4, <2>1 DEF SelectControl, SelectionInv, GateSeesModes
<1>5. CASE Arm
  BY <1>5 DEF Arm, SelectionInv, SelectionInRange, GateSeesModes
<1>6. CASE Invoke
  <2>1. GateSeesModes'
    BY <1>6 DEF Invoke, Allowed, SelectionInv, GateSeesModes
  <2> QED
    BY <1>6, <2>1 DEF Invoke, SelectionInv, SelectionInRange
<1>7. BarNext \/ UNCHANGED panels => UNCHANGED selection
  BY DEF BarNext, Press, Type, SendDone, SendFailed, panels, selection
<1> QED
  BY <1>1, <1>2, <1>3, <1>4, <1>5, <1>6, <1>7 DEF PanelsNext, SelectionNext

LEMMA PanelsInvariant == PanelsSpec => []PanelsInv
<1>1. PanelsInv /\ [PanelsNext]_panels => PanelsInv'
  BY BarStepInv, LogStepInv, SelectionStepInv DEF PanelsInv
<1> QED
  BY <1>1, PanelsInitInv, PTL DEF PanelsSpec

\* Every frame of the command bar has a command byte, the log is the newest
\* entries in order, the selection is in its list, and a gated control runs with
\* the twins armed (CommandBar.svelte:35-59, tui/bus.ts:93-98, App.tsx:60-95).
THEOREM PanelsAreSound == PanelsSpec => []PanelsHold
<1>1. PanelsInv => PanelsHold
  BY DEF PanelsInv, BarInv, LogInv, SelectionInv, PanelsHold
<1> QED
  BY <1>1, PanelsInvariant, PTL

LEMMA PanelsStepTyped == PanelsInv /\ PanelsTypeOK /\ [PanelsNext]_panels => PanelsTypeOK'
<1> SUFFICES ASSUME PanelsInv, PanelsTypeOK, [PanelsNext]_panels PROVE PanelsTypeOK'
  OBVIOUS
<1>1. text' \in [Modes -> Texts] /\ device' \in DOMAIN Controls
      /\ armed' \in BOOLEAN /\ twinModes' \in BOOLEAN
  <2>1. BarInv' /\ SelectionInv'
    BY BarStepInv, SelectionStepInv DEF PanelsInv
  <2> QED
    BY <2>1 DEF BarInv, SelectionInv
<1>2. entries' \in 0..MaxEntries
  <2>1. entries' = entries \/ (entries < MaxEntries /\ entries' = entries + 1)
    BY DEF PanelsNext, BarNext, Press, Type, SendDone, SendFailed, Note, SelectionNext, Tab,
           SelectDevice, SelectControl, Arm, Invoke, panels, logged
  <2> QED
    BY <2>1, MaxEntriesAssumption DEF PanelsTypeOK
<1>3. typed' \subseteq Modes
  <2>1. \/ typed' \subseteq typed
        \/ \E m \in Modes : typed' = typed \cup {m}
    BY DEF PanelsNext, BarNext, Press, Type, SendDone, SendFailed, SelectionNext, Tab,
           SelectDevice, SelectControl, Arm, Invoke, panels, bar
  <2> QED
    BY <2>1 DEF PanelsTypeOK
<1>4. focus' \in {"devices", "controls"}
  <2>1. focus' \in {focus, "devices", "controls"}
    BY DEF PanelsNext, BarNext, Press, Type, SendDone, SendFailed, SelectionNext, Tab,
           SelectDevice, SelectControl, Arm, Invoke, panels, selection
  <2> QED
    BY <2>1 DEF PanelsTypeOK
<1>5. invoked' \in [kind : {"none", "params", "gated", "free"}, armed : BOOLEAN]
  <2>1. CASE invoked' = invoked
    BY <2>1 DEF PanelsTypeOK
  <2>2. CASE Invoke
    BY <2>2 DEF Invoke, Allowed, PanelsTypeOK
  <2> QED
    BY <2>1, <2>2 DEF PanelsNext, BarNext, Press, Type, SendDone, SendFailed, SelectionNext, Tab,
           SelectDevice, SelectControl, Arm, panels, selection
<1> QED
  BY <1>1, <1>2, <1>3, <1>4, <1>5 DEF PanelsTypeOK

\* The device selected is one of the list and the focus is on a list, whatever
\* keys are pressed (App.tsx:46-95).
THEOREM PanelsAreTyped == PanelsSpec => []PanelsTypeOK
<1>1. PanelsInit => PanelsTypeOK
  <2> SUFFICES ASSUME PanelsInit PROVE PanelsTypeOK
    OBVIOUS
  <2>1. text \in [Modes -> Texts] /\ typed \subseteq Modes
    BY TextsAssumption DEF PanelsInit
  <2>2. entries \in 0..MaxEntries /\ device \in DOMAIN Controls
    BY MaxEntriesAssumption, ControlsAreLists DEF PanelsInit
  <2>3. invoked \in [kind : {"none", "params", "gated", "free"}, armed : BOOLEAN]
    BY DEF PanelsInit, NothingInvoked
  <2> QED
    BY <2>1, <2>2, <2>3 DEF PanelsInit, PanelsTypeOK
<1> QED
  BY <1>1, PanelsStepTyped, PanelsInvariant, PTL DEF PanelsSpec

\* A finished send empties its own input, and only of what it sent unless the
\* user has typed meanwhile (CommandBar.svelte:43-44, 61-67).
THEOREM NothingElseIsErased == PanelsSpec => OnlySentIsErased
<1> DEFINE Erased ==
      \A m \in Modes :
        (text'[m] # text[m] /\ sends # <<>> /\ sends' = Tail(sends))
          => Head(sends).mode = m /\ (text[m] = Head(sends).text \/ m \in typed)
<1>1. ASSUME PanelsInv, [PanelsNext]_panels PROVE [Erased]_panels
  <2> SUFFICES ASSUME NEW m \in Modes, text'[m] # text[m], sends # <<>>,
                      sends' = Tail(sends)
               PROVE  Head(sends).mode = m /\ (text[m] = Head(sends).text \/ m \in typed)
    OBVIOUS
  <2>1. /\ sends' # sends
        /\ Head(sends) \in Send /\ Head(sends) = sends[1] /\ 1 \in DOMAIN sends
    BY <1>1, TailIsShifted DEF PanelsInv, BarInv
  <2>2. SendDone
    <3>1. text' # text
      OBVIOUS
    <3> QED
      BY <1>1, <2>1, <3>1
         DEF PanelsNext, BarNext, Press, Type, SendFailed, SelectionNext, Tab, SelectDevice,
             SelectControl, Arm, Invoke, panels, bar
  <2>3. Head(sends).mode = m
    BY <1>1, <2>2 DEF SendDone, Emptied, PanelsInv, BarInv
  <2>4. text' = [text EXCEPT ![m] = <<>>] /\ text[m] # <<>>
    BY <1>1, <2>2, <2>3 DEF SendDone, Emptied, PanelsInv, BarInv
  <2>5. text[m] \in {Head(sends).text, <<>>} \/ m \in typed
    BY <1>1, <2>1, <2>3 DEF PanelsInv, BarInv
  <2> QED
    BY <2>3, <2>4, <2>5
<1> QED
  BY <1>1, PanelsInvariant, PTL DEF PanelsSpec, OnlySentIsErased

=============================================================================
