------------------------------ MODULE MCShells ------------------------------
(***************************************************************************)
(* The parts of the shells side by side: a behaviour is about the page and *)
(* its connections, the settings, a process of the CLI, the command bar or *)
(* the selection of the terminal UI, which share nothing.                  *)
(***************************************************************************)
EXTENDS WebApp, Settings, Cli, Panels

CONSTANTS c1, c2, c3

VARIABLES part       \* what this behaviour is about

Parts == {"web", "settings", "cli", "bar", "selection"}

shells == <<part, web, settings, cli, panels>>

TypeOK == part \in Parts /\ WebTypeOK /\ SettingsTypeOK /\ CliTypeOK /\ PanelsTypeOK

\* One initial state of the parts that are not looked at.
Init ==
  /\ part \in Parts
  /\ WebInit /\ (part # "web" => active = FALSE)
  /\ SettingsInit /\ (part # "settings" => works /\ os = "light")
  /\ CliInit /\ (part # "cli" => command = "tui" /\ stage = "picker")
  /\ PanelsInit

Next ==
  \/ part = "web"       /\ WebNext       /\ UNCHANGED <<part, settings, cli, panels>>
  \/ part = "settings"  /\ SettingsNext  /\ UNCHANGED <<part, web, cli, panels>>
  \/ part = "cli"       /\ CliNext       /\ UNCHANGED <<part, web, settings, panels>>
  \/ part = "bar"       /\ BarNext       /\ UNCHANGED <<part, web, settings, cli>>
  \/ part = "selection" /\ SelectionNext /\ UNCHANGED <<part, web, settings, cli>>

Fairness == (part = "web" => WebFairness) /\ (part = "cli" => CliFairness)

Spec == Init /\ [][Next]_shells /\ Fairness

-----------------------------------------------------------------------------
TextsTyped == {<<>>, <<"02">>, <<"80", "FF">>, <<"80", "FF", "02">>, <<"zz">>}

Digits == [t \in {"02", "80", "FF", "zz"} |-> t # "zz"]

TwoDevices == <<<<"free", "gated", "params">>, <<>>, <<"gated">>>>

=============================================================================
